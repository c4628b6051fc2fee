---------------------------- MODULE QueueTheorems ----------------------------
(***************************************************************************)
(* Facts about the queues of the models: the first block is taken, a block *)
(* is posted, or several at a time.                                        *)
(***************************************************************************)
EXTENDS Integers, Sequences, SequencesExt, TLAPS, FiniteSetTheorems, FunctionTheorems, SequenceTheorems

(* r is q without its first element; r is q with x added at the end. *)
Dropped(r, q) ==
    /\ Len(q) \in Nat /\ Len(r) \in Nat /\ Len(q) = Len(r) + 1
    /\ \A i \in 1..Len(r) : i + 1 \in 1..Len(q) /\ r[i] = q[i + 1]
    /\ \A i \in 1..Len(q) : i # 1 => i - 1 \in 1..Len(r) /\ r[i - 1] = q[i]

Added(r, q, x) ==
    /\ Len(q) \in Nat /\ Len(r) = Len(q) + 1
    /\ \A i \in 1..Len(q) : i \in 1..Len(r) /\ r[i] = q[i]
    /\ \A i \in 1..Len(r) : i \in 1..Len(q) \/ i = Len(r)
    /\ Len(r) \in 1..Len(r) /\ r[Len(r)] = x

(* Tail drops the first element of a queue. *)
LEMMA TailDrops ==
    ASSUME NEW S, NEW q \in Seq(S), q # <<>>
    PROVE  /\ Tail(q) \in Seq(S) /\ Dropped(Tail(q), q)
           /\ Head(q) = q[1] /\ 1 \in 1..Len(q)
  <1>1. /\ Len(q) \in Nat /\ Len(q) > 0 /\ Tail(q) \in Seq(S) /\ Len(Tail(q)) = Len(q) - 1
        /\ \A i \in 1..Len(Tail(q)) : Tail(q)[i] = q[i + 1]
        /\ Head(q) = q[1]
    BY HeadTailProperties, EmptySeq, LenProperties
  <1> QED
    BY <1>1 DEF Dropped

(* Append adds a last element to a queue. *)
LEMMA AppendAdds ==
    ASSUME NEW S, NEW q \in Seq(S), NEW x \in S
    PROVE  Append(q, x) \in Seq(S) /\ Added(Append(q, x), q, x)
  <1> DEFINE r == Append(q, x)
  <1>1. /\ Len(q) \in Nat /\ r \in Seq(S) /\ Len(r) = Len(q) + 1
        /\ \A i \in 1..Len(q) : r[i] = q[i]
        /\ r[Len(q) + 1] = x
    BY AppendProperties, LenProperties
  <1> HIDE DEF r
  <1>2. Added(r, q, x)
    BY <1>1 DEF Added
  <1> QED
    BY <1>1, <1>2 DEF r

(* SetToSeq lists the elements of a finite set. *)
LEMMA SetToSeqLists ==
    ASSUME NEW S, IsFiniteSet(S)
    PROVE  /\ SetToSeq(S) \in Seq(S)
           /\ \A x \in S : \E i \in 1..Len(SetToSeq(S)) : SetToSeq(S)[i] = x
  <1> DEFINE n == Cardinality(S)
             q == SetToSeq(S)
  <1>1. n \in Nat /\ \E f : f \in Bijection(1..n, S)
    BY FS_CardinalityType, Fun_ExistsBij
  <1>2. \E f \in [1..n -> S] : IsInjective(f)
    BY <1>1 DEF Bijection, Injection
  <1>3. q \in [1..n -> S] /\ IsInjective(q)
    BY <1>2 DEF SetToSeq
  <1>4. IsFiniteSet(1..n) /\ Cardinality(1..n) = n
    BY <1>1, FS_Interval
  <1> HIDE DEF n, q
  <1>5. q \in Injection(1..n, S)
    BY <1>3 DEF Injection
  <1>6. q \in Surjection(1..n, S)
    BY <1>4, <1>5, FS_Injection DEF n
  <1>7. \A x \in S : \E i \in 1..n : q[i] = x
    BY <1>6 DEF Surjection
  <1>8. q \in Seq(S) /\ Len(q) = n
    BY <1>1, <1>3
  <1> QED
    BY <1>7, <1>8 DEF q

(* The elements of two sequences in a row. *)
Joined(s, q, r) ==
    /\ \A i \in 1..Len(q) : \E j \in 1..Len(s) : s[j] = q[i]
    /\ \A i \in 1..Len(r) : \E j \in 1..Len(s) : s[j] = r[i]
    /\ \A j \in 1..Len(s) : \/ \E i \in 1..Len(q) : s[j] = q[i]
                            \/ \E i \in 1..Len(r) : s[j] = r[i]

(* Their concatenation is such a sequence. *)
LEMMA ConcatJoins ==
    ASSUME NEW S, NEW q \in Seq(S), NEW r \in Seq(S)
    PROVE  q \o r \in Seq(S) /\ Joined(q \o r, q, r)
  <1> DEFINE s == q \o r
  <1>1. /\ Len(q) \in Nat /\ Len(r) \in Nat /\ s \in Seq(S) /\ Len(s) = Len(q) + Len(r)
        /\ \A i \in 1..(Len(q) + Len(r)) : s[i] = IF i <= Len(q) THEN q[i] ELSE r[i - Len(q)]
    BY ConcatProperties, LenProperties
  <1> HIDE DEF s
  <1>2. \A i \in 1..Len(q) : \E j \in 1..Len(s) : s[j] = q[i]
    BY <1>1
  <1>3. ASSUME NEW i \in 1..Len(r)
        PROVE  \E j \in 1..Len(s) : s[j] = r[i]
    <2>1. /\ i + Len(q) \in 1..Len(s) /\ i + Len(q) \in 1..(Len(q) + Len(r))
          /\ ~(i + Len(q) <= Len(q)) /\ (i + Len(q)) - Len(q) = i
      BY <1>1
    <2>2. s[i + Len(q)] = r[i]
      BY <1>1, <2>1
    <2> QED
      BY <2>1, <2>2
  <1>4. ASSUME NEW j \in 1..Len(s)
        PROVE  \/ \E i \in 1..Len(q) : s[j] = q[i]
               \/ \E i \in 1..Len(r) : s[j] = r[i]
    <2>1. CASE j <= Len(q)
      BY <1>1, <2>1
    <2>2. CASE ~(j <= Len(q))
      <3>1. j - Len(q) \in 1..Len(r) /\ s[j] = r[j - Len(q)]
        BY <1>1, <2>2
      <3> QED
        BY <3>1
    <2> QED
      BY <2>1, <2>2
  <1> QED
    BY <1>1, <1>2, <1>3, <1>4 DEF Joined, s

(* t is s without the element at place k; its place i was at[i] in s. *)
Removed(t, s, k, at) ==
    /\ Len(s) \in Nat /\ Len(t) = Len(s) - 1
    /\ at \in [1..(Len(s) - 1) -> 1..Len(s)]
    /\ \A i \in 1..(Len(s) - 1) : t[i] = s[at[i]]
    /\ \A i \in 1..(Len(s) - 1) : at[i] # k
    /\ \A i, j \in 1..(Len(s) - 1) : i < j <=> at[i] < at[j]
    /\ \A i, j \in 1..(Len(s) - 1) : at[i] = at[j] => i = j
    /\ \A j \in 1..Len(s) : j # k => \E i \in 1..(Len(s) - 1) : at[i] = j

(* RemoveAt leaves such a list. *)
LEMMA RemoveAtIs ==
    ASSUME NEW S, NEW s \in Seq(S), NEW k \in 1..Len(s)
    PROVE  RemoveAt(s, k) \in Seq(S) /\ \E at : Removed(RemoveAt(s, k), s, k, at)
  <1> DEFINE n == Len(s)
             t == RemoveAt(s, k)
             at == [i \in 1..(n - 1) |-> IF i < k THEN i ELSE i + 1]
  <1>1. n \in Nat /\ DOMAIN s = 1..n
    BY LenProperties
  <1>2. k \in 1..n
    OBVIOUS

  <1>3. /\ t \in Seq(S) /\ Len(t) = n - 1 /\ DOMAIN t = 1..(n - 1)
        /\ \A i \in 1..(n - 1) : t[i] = s[at[i]]
    <2> DEFINE a == SubSeq(s, 1, k - 1)
               b == SubSeq(s, k + 1, n)
    <2>1. \A i \in 1..n : s[i] \in S
      BY <1>1, ElementOfSeq
    <2>2. /\ a \in Seq(S) /\ Len(a) = k - 1
          /\ \A i \in 1..(k - 1) : a[i] = s[i]
      <3>1. 1 \in Int /\ k - 1 \in Int /\ \A i \in 1..(k - 1) : s[i] \in S
        BY <1>1, <1>2, <2>1
      <3>2. /\ a \in Seq(S) /\ Len(a) = IF 1 <= k - 1 THEN (k - 1) - 1 + 1 ELSE 0
            /\ \A i \in 1..((k - 1) - 1 + 1) : a[i] = s[1 + i - 1]
        BY <3>1, SubSeqProperties
      <3> HIDE DEF a
      <3> QED
        BY <3>2, <1>2
    <2>3. /\ b \in Seq(S) /\ Len(b) = n - k
          /\ \A i \in 1..(n - k) : b[i] = s[k + i]
      <3>1. k + 1 \in Int /\ n \in Int /\ \A i \in (k + 1)..n : s[i] \in S
        BY <1>1, <1>2, <2>1
      <3>2. /\ b \in Seq(S) /\ Len(b) = IF k + 1 <= n THEN n - (k + 1) + 1 ELSE 0
            /\ \A i \in 1..(n - (k + 1) + 1) : b[i] = s[(k + 1) + i - 1]
        BY <3>1, SubSeqProperties
      <3> HIDE DEF b
      <3>3. n - (k + 1) + 1 = n - k /\ \A i \in 1..(n - k) : (k + 1) + i - 1 = k + i
        BY <1>1, <1>2
      <3> HIDE DEF n
      <3>4. Len(b) = n - k
        BY <3>2, <1>1, <1>2
      <3>5. \A i \in 1..(n - k) : b[i] = s[k + i]
        BY <3>2, <3>3, Zenon
      <3> QED
        BY <3>2, <3>4, <3>5
    <2>4. t = a \o b
      BY DEF RemoveAt
    <2> HIDE DEF a, b, t
    <2>5. /\ t \in Seq(S) /\ Len(t) = Len(a) + Len(b)
          /\ \A i \in 1..(Len(a) + Len(b)) : t[i] = IF i <= Len(a) THEN a[i] ELSE b[i - Len(a)]
      BY <2>2, <2>3, <2>4, ConcatProperties
    <2>6. Len(t) = n - 1 /\ DOMAIN t = 1..(n - 1)
      BY <1>1, <1>2, <2>2, <2>3, <2>5, LenProperties
    <2>7. ASSUME NEW i \in 1..(n - 1)
          PROVE  t[i] = s[at[i]]
      <3>1. CASE i < k
        <4>1. i <= k - 1 /\ i \in 1..(k - 1) /\ at[i] = i /\ i \in 1..(Len(a) + Len(b))
          BY <1>1, <1>2, <2>2, <2>3, <3>1
        <4> QED
          BY <4>1, <2>2, <2>5
      <3>2. CASE ~(i < k)
        <4>1. /\ ~(i <= k - 1) /\ i - (k - 1) \in 1..(n - k) /\ at[i] = i + 1
              /\ k + (i - (k - 1)) = i + 1 /\ i \in 1..(Len(a) + Len(b))
          BY <1>1, <1>2, <2>2, <2>3, <3>2
        <4> QED
          BY <4>1, <2>2, <2>3, <2>5
      <3> QED
        BY <3>1, <3>2
    <2> QED
      BY <2>5, <2>6, <2>7
  <1>4. /\ \A i \in 1..(n - 1) : at[i] \in 1..n /\ at[i] # k
        /\ \A i, j \in 1..(n - 1) : i < j <=> at[i] < at[j]
        /\ \A i, j \in 1..(n - 1) : at[i] = at[j] => i = j
        /\ \A j \in 1..n : j # k => \E i \in 1..(n - 1) : at[i] = j
    <2>1. ASSUME NEW j \in 1..n, j # k
          PROVE  \E i \in 1..(n - 1) : at[i] = j
      <3>1. CASE j < k
        <4>1. j \in 1..(n - 1) /\ at[j] = j
          BY <1>1, <1>2, <3>1
        <4> QED
          BY <4>1
      <3>2. CASE j > k
        <4>1. j - 1 \in 1..(n - 1) /\ at[j - 1] = j
          BY <1>1, <1>2, <3>2
        <4> QED
          BY <4>1
      <3> QED
        BY <1>1, <1>2, <2>1, <3>1, <3>2
    <2> QED
      BY <1>1, <1>2, <2>1
  <1>5. at \in [1..(n - 1) -> 1..n]
    BY <1>1, <1>2
  <1> HIDE DEF t, at
  <1>6. Removed(t, s, k, at)
    BY <1>1, <1>3, <1>4, <1>5 DEF Removed
  <1> QED
    BY <1>3, <1>6 DEF t

(* A list without repetitions stays one, and has one element less. *)
LEMMA RemoveAtKeeps ==
    ASSUME NEW S, NEW s \in Seq(S), IsInjective(s), NEW k \in 1..Len(s)
    PROVE  /\ RemoveAt(s, k) \in Seq(S) /\ IsInjective(RemoveAt(s, k))
           /\ ToSet(RemoveAt(s, k)) = ToSet(s) \ {s[k]}
  <1> DEFINE n == Len(s)
             t == RemoveAt(s, k)
  <1>1. n \in Nat /\ DOMAIN s = 1..n
    BY LenProperties
  <1>2. t \in Seq(S) /\ \E at : Removed(t, s, k, at)
    BY RemoveAtIs
  <1>7. PICK at : Removed(t, s, k, at)
    BY <1>2
  <1>8. /\ Len(t) = n - 1 /\ at \in [1..(n - 1) -> 1..n]
        /\ \A i \in 1..(n - 1) : t[i] = s[at[i]]
        /\ \A i \in 1..(n - 1) : at[i] # k
        /\ \A i, j \in 1..(n - 1) : at[i] = at[j] => i = j
        /\ \A j \in 1..n : j # k => \E i \in 1..(n - 1) : at[i] = j
    BY <1>7 DEF Removed
  <1>3. DOMAIN t = 1..(n - 1)
    BY <1>2, <1>8, LenProperties
  <1> HIDE DEF t, n
  <1>4. IsInjective(t)
    BY <1>1, <1>2, <1>8, <1>3 DEF IsInjective
  <1>5. ASSUME NEW x \in ToSet(t)
        PROVE  x \in ToSet(s) /\ x # s[k]
    <2>1. PICK i \in 1..(n - 1) : x = s[at[i]]
      BY <1>2, <1>8, <1>3, <1>5 DEF ToSet
    <2> QED
      BY <2>1, <1>1, <1>2, <1>8 DEF ToSet, IsInjective, n
  <1>6. ASSUME NEW x \in ToSet(s), x # s[k]
        PROVE  x \in ToSet(t)
    <2>1. PICK j \in 1..n : x = s[j]
      BY <1>1, <1>6 DEF ToSet
    <2>2. PICK i \in 1..(n - 1) : at[i] = j
      BY <2>1, <1>2, <1>8, <1>6
    <2> QED
      BY <2>1, <2>2, <1>2, <1>8, <1>3 DEF ToSet
  <1> QED
    BY <1>2, <1>8, <1>4, <1>5, <1>6 DEF t

(* A list without repetitions that gets another element. *)
LEMMA AppendKept ==
    ASSUME NEW S, NEW s \in Seq(S), IsInjective(s), NEW r \in S, r \notin ToSet(s)
    PROVE  LET t == Append(s, r)
           IN  t \in Seq(S) /\ IsInjective(t) /\ ToSet(t) = ToSet(s) \cup {r}
  <1> DEFINE t == Append(s, r)
  <1> DEFINE n == Len(s)
  <1>1. t \in Seq(S) /\ Added(t, s, r)
    BY AppendAdds
  <1>2. n \in Nat /\ DOMAIN s = 1..n /\ DOMAIN t = 1..Len(t)
    BY <1>1, LenProperties
  <1> HIDE DEF t
  <1>3. /\ Len(t) = n + 1 /\ t[n + 1] = r
        /\ \A i \in 1..n : t[i] = s[i]
        /\ \A i \in 1..(n + 1) : i \in 1..n \/ i = n + 1
        /\ \A i \in 1..n : i \in 1..(n + 1) /\ i < n + 1
        /\ n + 1 \in 1..(n + 1)
    BY <1>1, <1>2 DEF Added
  <1>4. \A i \in 1..n : s[i] # r
    BY <1>2 DEF ToSet
  <1> HIDE DEF n
  <1>5. IsInjective(t)
    BY <1>2, <1>3, <1>4 DEF IsInjective
  <1>6. ToSet(t) = ToSet(s) \cup {r}
    BY <1>2, <1>3 DEF ToSet
  <1> QED
    BY <1>1, <1>5, <1>6 DEF t

(* A queue of anything, as it goes from one step to the next. *)
IsQueue(q) == \E S : q \in Seq(S)

(* r is q after k blocks were taken and those in E were posted. *)
Moved(r, q, k, E) ==
    /\ IsQueue(r) /\ Len(q) \in Nat /\ Len(r) \in Nat /\ Len(q) - k <= Len(r)
    /\ \A i \in 1..Len(q) : i > k => i - k \in 1..Len(r) /\ r[i - k] = q[i]
    /\ \A i \in 1..Len(r) : \/ i + k \in 1..Len(q) /\ r[i] = q[i + k]
                            \/ i > Len(q) - k /\ r[i] \in E
    /\ \A e \in E : \E i \in 1..Len(r) : i > Len(q) - k /\ r[i] = e

LEMMA MovedSame ==
    ASSUME NEW q, IsQueue(q)
    PROVE  Moved(q, q, 0, {})
  <1>1. PICK S : q \in Seq(S)
    BY DEF IsQueue
  <1>2. Len(q) \in Nat
    BY <1>1, LenProperties
  <1> QED
    BY <1>2 DEF Moved

LEMMA MovedTail ==
    ASSUME NEW q, IsQueue(q), q # <<>>
    PROVE  Moved(Tail(q), q, 1, {}) /\ Head(q) = q[1] /\ 1 \in 1..Len(q)
  <1>1. PICK S : q \in Seq(S)
    BY DEF IsQueue
  <1>2. /\ Tail(q) \in Seq(S) /\ Dropped(Tail(q), q)
        /\ Head(q) = q[1] /\ 1 \in 1..Len(q)
    BY <1>1, TailDrops
  <1> DEFINE r == Tail(q)
  <1> HIDE DEF r
  <1>3. /\ Len(q) \in Nat /\ Len(r) \in Nat /\ Len(q) = Len(r) + 1
        /\ \A i \in 1..Len(r) : i + 1 \in 1..Len(q) /\ r[i] = q[i + 1]
        /\ \A i \in 1..Len(q) : i # 1 => i - 1 \in 1..Len(r) /\ r[i - 1] = q[i]
    BY <1>2 DEF Dropped, r
  <1>4. IsQueue(r)
    BY <1>2 DEF IsQueue, r
  <1>5. Moved(r, q, 1, {})
    BY <1>3, <1>4 DEF Moved
  <1> QED
    BY <1>2, <1>5 DEF r

LEMMA MovedConcat ==
    ASSUME NEW q, NEW r, NEW k \in {0, 1}, NEW E, Moved(r, q, k, E), NEW s, IsQueue(s),
           NEW F, \A i \in 1..Len(s) : s[i] \in F,
           \A e \in F : \E i \in 1..Len(s) : s[i] = e
    PROVE  Moved(r \o s, q, k, E \cup F)
  <1>1. PICK S : r \in Seq(S)
    BY DEF IsQueue, Moved
  <1>2. PICK T : s \in Seq(T)
    BY DEF IsQueue
  <1>3. r \in Seq(S \cup T) /\ s \in Seq(S \cup T)
    BY <1>1, <1>2
  <1> DEFINE u == r \o s
  <1>4. /\ Len(r) \in Nat /\ Len(s) \in Nat /\ u \in Seq(S \cup T)
        /\ Len(u) = Len(r) + Len(s)
        /\ \A i \in 1..(Len(r) + Len(s)) :
             u[i] = IF i <= Len(r) THEN r[i] ELSE s[i - Len(r)]
    BY <1>3, ConcatProperties, LenProperties
  <1>5. IsQueue(u)
    BY <1>4 DEF IsQueue
  <1> HIDE DEF u
  <1>6. /\ Len(q) \in Nat /\ Len(q) - k <= Len(r)
        /\ \A i \in 1..Len(q) : i > k => i - k \in 1..Len(r) /\ r[i - k] = q[i]
        /\ \A i \in 1..Len(r) : \/ i + k \in 1..Len(q) /\ r[i] = q[i + k]
                                \/ i > Len(q) - k /\ r[i] \in E
        /\ \A e \in E : \E i \in 1..Len(r) : i > Len(q) - k /\ r[i] = e
    BY DEF Moved
  <1>7. \A i \in 1..Len(r) : i \in 1..Len(u) /\ u[i] = r[i]
    BY <1>4
  <1>8. \A i \in 1..Len(s) : i + Len(r) \in 1..Len(u) /\ u[i + Len(r)] = s[i]
    <2> SUFFICES ASSUME NEW i \in 1..Len(s)
                 PROVE  i + Len(r) \in 1..Len(u) /\ u[i + Len(r)] = s[i]
      OBVIOUS
    <2>1. /\ i + Len(r) \in 1..(Len(r) + Len(s)) /\ ~(i + Len(r) <= Len(r))
          /\ (i + Len(r)) - Len(r) = i
      BY <1>4
    <2> QED
      BY <2>1, <1>4
  <1>9. Len(u) \in Nat /\ Len(q) - k <= Len(u)
    BY <1>4, <1>6
  <1>10. \A i \in 1..Len(q) : i > k => i - k \in 1..Len(u) /\ u[i - k] = q[i]
    BY <1>6, <1>7
  <1>11. ASSUME NEW i \in 1..Len(u)
         PROVE  \/ i + k \in 1..Len(q) /\ u[i] = q[i + k]
                \/ i > Len(q) - k /\ u[i] \in E \cup F
    <2>1. CASE i <= Len(r)
      BY <2>1, <1>4, <1>6, <1>7
    <2>2. CASE ~(i <= Len(r))
      <3>1. i - Len(r) \in 1..Len(s) /\ u[i] = s[i - Len(r)]
        BY <2>2, <1>4
      <3>2. i > Len(q) - k
        BY <2>2, <1>4, <1>6
      <3> QED
        BY <3>1, <3>2
    <2> QED
      BY <2>1, <2>2
  <1>12. ASSUME NEW e \in E \cup F
         PROVE  \E i \in 1..Len(u) : i > Len(q) - k /\ u[i] = e
    <2>1. CASE e \in E
      BY <2>1, <1>6, <1>7
    <2>2. CASE e \in F
      <3>1. PICK i \in 1..Len(s) : s[i] = e
        BY <2>2
      <3>2. i + Len(r) > Len(q) - k
        BY <1>4, <1>6
      <3> QED
        BY <3>1, <3>2, <1>8
    <2> QED
      BY <2>1, <2>2, <1>12
  <1> QED
    BY <1>5, <1>6, <1>9, <1>10, <1>11, <1>12 DEF Moved, u

LEMMA MovedAppend ==
    ASSUME NEW q, NEW r, NEW k \in {0, 1}, NEW E, Moved(r, q, k, E), NEW x
    PROVE  Moved(Append(r, x), q, k, E \cup {x})
  <1>1. PICK S : r \in Seq(S)
    BY DEF IsQueue, Moved
  <1>2. Append(r, x) = r \o <<x>>
    <2>1. r \in Seq(S \cup {x}) /\ x \in S \cup {x}
      BY <1>1
    <2> QED
      BY <2>1, AppendIsConcat
  <1>3. IsQueue(<<x>>) /\ Len(<<x>>) = 1 /\ <<x>>[1] = x
    <2>1. <<x>> \in Seq({x})
      OBVIOUS
    <2> QED
      BY <2>1 DEF IsQueue
  <1>4. Moved(r \o <<x>>, q, k, E \cup {x})
    <2>1. \A i \in 1..Len(<<x>>) : <<x>>[i] \in {x}
      BY <1>3
    <2>2. \A e \in {x} : \E i \in 1..Len(<<x>>) : <<x>>[i] = e
      BY <1>3
    <2> DEFINE s == <<x>>
    <2> HIDE DEF s
    <2>3. IsQueue(s) /\ (\A i \in 1..Len(s) : s[i] \in {x})
          /\ \A e \in {x} : \E i \in 1..Len(s) : s[i] = e
      BY <1>3, <2>1, <2>2 DEF s
    <2>4. Moved(r \o s, q, k, E \cup {x})
      BY <2>3, MovedConcat
    <2> QED
      BY <2>4 DEF s
  <1> QED
    BY <1>2, <1>4
=============================================================================
