--------------------------- MODULE ReactorProofs ----------------------------
(***************************************************************************)
(* Proofs about what runs in a reactor's thread.  TimerQueue, for any set  *)
(* of timers and any longest delay: no timer is lost or held twice, none   *)
(* is called early or after it was cancelled, and a loop that goes to      *)
(* sleep is woken in time.  EventLoop, for any number of threads and       *)
(* functors and any capacity of the eventfd: the loop never sleeps on      *)
(* work, and every step of it is a step of Executor or changes nothing.    *)
(***************************************************************************)
EXTENDS TimerQueue, EventLoop, SequenceTheorems, FiniteSetTheorems, TLAPS

-----------------------------------------------------------------------------
(* The beginning of an ordered queue                                       *)

Time == 0 .. MaxDelay

\* Entries are in the order of their keys, ...
Ordered(q) == \A i, j \in 1 .. Len(q) : i <= j => q[i].left <= q[j].left

\* ... and no timer has two.
OnceEach(q) == \A i, j \in 1 .. Len(q) : q[i].id = q[j].id => i = j

LEMMA EntryFields ==
  \A e \in Entry : /\ e.id \in Timers /\ e.left \in Time /\ e.interval \in Time
                  /\ e.left \in Nat /\ e.interval \in Nat
BY TimerAssumption DEF Entry, Time

\* A nonempty set of naturals has a least member.
LEMMA LeastMember ==
  ASSUME NEW B \in SUBSET Nat, B # {}
  PROVE  \E m \in B : \A j \in B : m <= j
<1> DEFINE R == OpToRel(<, Nat)
<1>1. IsWellFoundedOn(R, Nat)
  BY NatLessThanWellFounded
<1> HIDE DEF R
<1>2. PICK m \in B : \A j \in B : ~ (<<j, m>> \in R)
  BY <1>1, WFMin
<1>3. ASSUME NEW j \in B PROVE m <= j
  <2> SUFFICES ASSUME j < m PROVE FALSE
    BY <1>2
  <2>1. <<j, m>> \in R
    BY DEF R, OpToRel
  <2> QED BY <1>2, <2>1
<1> QED BY <1>3

\* A set of indices that holds all below each of its members is an interval.
LEMMA PrefixCount ==
  ASSUME NEW n \in Nat, NEW S \in SUBSET (1 .. n),
         \A i \in S, j \in 1 .. n : j <= i => j \in S
  PROVE  Cardinality(S) \in 0 .. n /\ S = 1 .. Cardinality(S)
<1> DEFINE B == {i \in Nat : i >= 1 /\ i \notin S}
<1>1. n + 1 \in B
  OBVIOUS
<1>2. PICK m \in B : \A j \in B : m <= j
  BY <1>1, LeastMember
<1>3. m \in 1 .. n + 1
  BY <1>1, <1>2
<1>4. ASSUME NEW i \in S PROVE i \in 1 .. m - 1
  <2> SUFFICES ASSUME m <= i PROVE FALSE
    BY <1>3
  <2>1. m \in 1 .. n
    BY <1>3
  <2> QED BY <1>2, <2>1
<1>5. ASSUME NEW i \in 1 .. m - 1 PROVE i \in S
  BY <1>2, <1>3
<1>6. S = 1 .. m - 1
  BY <1>4, <1>5
<1>7. Cardinality(1 .. m - 1) = m - 1
  BY <1>3, FS_Interval
<1> QED BY <1>3, <1>6, <1>7

\* The entries that expire until a time are a prefix of the queue.
LEMMA EarlyPrefix ==
  ASSUME NEW q \in Seq(Entry), Ordered(q), NEW l \in Nat
  PROVE  LET k == Cardinality({i \in DOMAIN q : q[i].left <= l})
         IN  /\ k \in 0 .. Len(q)
             /\ \A i \in 1 .. Len(q) : q[i].left <= l <=> i <= k
<1> DEFINE S == {i \in DOMAIN q : q[i].left <= l}
<1>1. DOMAIN q = 1 .. Len(q) /\ Len(q) \in Nat
  OBVIOUS
<1>2. \A i \in 1 .. Len(q) : q[i].left \in Nat
  BY ElementOfSeq, EntryFields
<1>3. S \in SUBSET (1 .. Len(q))
  BY <1>1
<1>4. \A i \in S, j \in 1 .. Len(q) : j <= i => j \in S
  <2> SUFFICES ASSUME NEW i \in S, NEW j \in 1 .. Len(q), j <= i PROVE j \in S
    OBVIOUS
  <2>1. i \in 1 .. Len(q) /\ q[i].left <= l
    BY <1>1
  <2>2. q[j].left <= q[i].left
    BY <2>1 DEF Ordered
  <2>3. q[j].left <= l
    BY <1>2, <2>1, <2>2
  <2> QED BY <1>1, <2>3
<1> HIDE DEF S
<1>5. Cardinality(S) \in 0 .. Len(q) /\ S = 1 .. Cardinality(S)
  BY <1>1, <1>3, <1>4, PrefixCount
<1>6. ASSUME NEW i \in 1 .. Len(q)
      PROVE  q[i].left <= l <=> i <= Cardinality(S)
  <2>1. q[i].left <= l <=> i \in S
    BY <1>1 DEF S
  <2>2. i \in 1 .. Cardinality(S) <=> i <= Cardinality(S)
    BY <1>5
  <2> QED BY <1>5, <2>1, <2>2
<1> QED BY <1>5, <1>6 DEF S

-----------------------------------------------------------------------------
(* Insert                                                                  *)

\* e was put into q behind its first k entries.
PutBehind(q, k, e, r) ==
  /\ r \in Seq(Entry) /\ Len(r) = Len(q) + 1
  /\ \A i \in 1 .. Len(q) + 1 :
       r[i] = IF i <= k THEN q[i] ELSE IF i = k + 1 THEN e ELSE q[i - 1]

\* The new entry comes behind those that are not later and before those that are.
LEMMA InsertPuts ==
  ASSUME NEW q \in Seq(Entry), Ordered(q), NEW e \in Entry
  PROVE  \E k \in 0 .. Len(q) :
           /\ \A i \in 1 .. Len(q) : q[i].left <= e.left <=> i <= k
           /\ PutBehind(q, k, e, Insert(q, e))
<1> DEFINE k == Cardinality({i \in DOMAIN q : q[i].left <= e.left})
           a == SubSeq(q, 1, k)
           b == SubSeq(q, k + 1, Len(q))
<1>1. e.left \in Nat
  BY EntryFields
<1>2. k \in 0 .. Len(q) /\ \A i \in 1 .. Len(q) : q[i].left <= e.left <=> i <= k
  BY <1>1, EarlyPrefix
<1>3. Insert(q, e) = a \o <<e>> \o b
  BY DEF Insert
<1> HIDE DEF k
<1>0. Len(q) \in Nat /\ k \in Nat /\ k <= Len(q)
  BY <1>2
<1>4. \A i \in 1 .. Len(q) : q[i] \in Entry
  BY ElementOfSeq
<1>5. a \in Seq(Entry) /\ Len(a) = k /\ \A i \in 1 .. k : a[i] = q[i]
  BY <1>0, <1>4, SubSeqProperties
<1>6. /\ b \in Seq(Entry) /\ Len(b) = Len(q) - k
      /\ \A i \in 1 .. Len(q) - k : b[i] = q[k + i]
  BY <1>0, <1>4, SubSeqProperties
<1>7. <<e>> \in Seq(Entry) /\ Len(<<e>>) = 1 /\ <<e>>[1] = e
  OBVIOUS
<1> DEFINE c == a \o <<e>>
<1> HIDE DEF a, b
<1>8. /\ c \in Seq(Entry) /\ Len(c) = k + 1
      /\ \A i \in 1 .. k + 1 : c[i] = IF i <= k THEN q[i] ELSE e
  <2>1. /\ c \in Seq(Entry) /\ Len(c) = k + 1
        /\ \A i \in 1 .. k + 1 : c[i] = IF i <= k THEN a[i] ELSE <<e>>[i - k]
    BY <1>5, <1>7, ConcatProperties
  <2>2. ASSUME NEW i \in 1 .. k + 1 PROVE c[i] = IF i <= k THEN q[i] ELSE e
    <3>1. CASE i <= k
      BY <1>0, <1>5, <2>1, <3>1
    <3>2. CASE ~(i <= k)
      <4>1. i - k = 1
        BY <1>0, <3>2
      <4> QED BY <1>7, <2>1, <3>2, <4>1
    <3> QED BY <3>1, <3>2
  <2> QED BY <2>1, <2>2
<1> HIDE DEF c
<1>9. /\ c \o b \in Seq(Entry) /\ Len(c \o b) = Len(q) + 1
      /\ \A i \in 1 .. Len(q) + 1 : (c \o b)[i] = IF i <= k + 1 THEN c[i] ELSE b[i - (k + 1)]
  <2>1. /\ c \o b \in Seq(Entry) /\ Len(c \o b) = Len(c) + Len(b)
        /\ \A i \in 1 .. Len(c) + Len(b) :
             (c \o b)[i] = IF i <= Len(c) THEN c[i] ELSE b[i - Len(c)]
    BY <1>6, <1>8, ConcatProperties
  <2>2. Len(c) + Len(b) = Len(q) + 1
    BY <1>0, <1>6, <1>8
  <2> QED BY <1>8, <2>1, <2>2
<1>10. ASSUME NEW i \in 1 .. Len(q) + 1
       PROVE  (c \o b)[i] = IF i <= k THEN q[i] ELSE IF i = k + 1 THEN e ELSE q[i - 1]
  <2>1. CASE i <= k + 1
    <3>1. (c \o b)[i] = c[i] /\ i \in 1 .. k + 1
      BY <1>0, <1>9, <2>1
    <3> QED BY <1>0, <1>8, <3>1
  <2>2. CASE ~(i <= k + 1)
    <3>1. i - (k + 1) \in 1 .. Len(q) - k /\ k + (i - (k + 1)) = i - 1
      BY <1>0, <2>2
    <3>2. (c \o b)[i] = b[i - (k + 1)]
      BY <1>9, <2>2
    <3>3. b[i - (k + 1)] = q[i - 1]
      BY <1>6, <3>1
    <3> QED BY <1>0, <2>2, <3>2, <3>3
  <2> QED BY <2>1, <2>2
<1>11. PutBehind(q, k, e, Insert(q, e))
  BY <1>3, <1>9, <1>10 DEF PutBehind, c
<1> QED BY <1>2, <1>11

\* The entry is in the queue.
Holds(q, e) == \E i \in 1 .. Len(q) : q[i] = e

LEMMA PutBehindHolds ==
  ASSUME NEW q \in Seq(Entry), NEW e \in Entry, NEW k \in 0 .. Len(q), NEW r,
         PutBehind(q, k, e, r), NEW x
  PROVE  Holds(r, x) <=> Holds(q, x) \/ x = e
<1>0. Len(q) \in Nat /\ k \in Nat /\ k <= Len(q)
  OBVIOUS
<1>1. ASSUME NEW i \in 1 .. Len(r) PROVE Holds(q, r[i]) \/ r[i] = e
  <2>1. CASE i <= k
    <3>1. r[i] = q[i] /\ i \in 1 .. Len(q)
      BY <1>0, <2>1 DEF PutBehind
    <3> QED BY <3>1 DEF Holds
  <2>2. CASE i = k + 1
    BY <1>0, <2>2 DEF PutBehind
  <2>3. CASE i > k + 1
    <3>1. r[i] = q[i - 1] /\ i - 1 \in 1 .. Len(q)
      BY <1>0, <2>3 DEF PutBehind
    <3> QED BY <3>1 DEF Holds
  <2> QED BY <1>0, <2>1, <2>2, <2>3 DEF PutBehind
<1>2. ASSUME NEW j \in 1 .. Len(q) PROVE Holds(r, q[j])
  <2>1. CASE j <= k
    <3>1. r[j] = q[j] /\ j \in 1 .. Len(r)
      BY <1>0, <2>1 DEF PutBehind
    <3> QED BY <3>1 DEF Holds
  <2>2. CASE j > k
    <3>0. j + 1 \in 1 .. Len(q) + 1 /\ ~(j + 1 <= k) /\ j + 1 # k + 1 /\ (j + 1) - 1 = j
      BY <1>0, <2>2
    <3>1. r[j + 1] = q[j] /\ j + 1 \in 1 .. Len(r)
      BY <3>0 DEF PutBehind
    <3> QED BY <3>1 DEF Holds
  <2> QED BY <1>0, <2>1, <2>2
<1>3. Holds(r, e)
  <2>1. k + 1 \in 1 .. Len(r) /\ r[k + 1] = e
    BY <1>0 DEF PutBehind
  <2> QED BY <2>1 DEF Holds
<1> QED BY <1>1, <1>2, <1>3 DEF Holds

\* Insert keeps the order, adds the entry and nothing else, and puts it first
\* just when it is the earliest.
LEMMA InsertProperties ==
  ASSUME NEW q \in Seq(Entry), Ordered(q), NEW e \in Entry
  PROVE  /\ Insert(q, e) \in Seq(Entry) /\ Insert(q, e) # <<>>
         /\ Ordered(Insert(q, e))
         /\ \A x : Holds(Insert(q, e), x) <=> Holds(q, x) \/ x = e
         /\ Insert(q, e)[1] = IF q = <<>> \/ e.left < q[1].left THEN e ELSE q[1]
         /\ OnceEach(q) /\ (\A x : Holds(q, x) => x.id # e.id) => OnceEach(Insert(q, e))
<1> DEFINE r == Insert(q, e)
<1>1. PICK k \in 0 .. Len(q) :
        /\ \A i \in 1 .. Len(q) : q[i].left <= e.left <=> i <= k
        /\ PutBehind(q, k, e, r)
  BY InsertPuts
<1> HIDE DEF r
<1>0. Len(q) \in Nat /\ k \in Nat /\ k <= Len(q)
  BY <1>1
<1>2. e.left \in Nat /\ \A i \in 1 .. Len(q) : q[i].left \in Nat
  BY EntryFields, ElementOfSeq
<1>3. r \in Seq(Entry) /\ Len(r) = Len(q) + 1
  BY <1>1 DEF PutBehind
<1>4. r # <<>>
  BY <1>0, <1>3
<1>5. Ordered(r)
  <2> SUFFICES ASSUME NEW i \in 1 .. Len(r), NEW j \in 1 .. Len(r), i <= j
               PROVE  r[i].left <= r[j].left
    BY DEF Ordered
  <2>1. i \in 1 .. Len(q) + 1 /\ j \in 1 .. Len(q) + 1
    BY <1>3
  <2>2. /\ r[i] = IF i <= k THEN q[i] ELSE IF i = k + 1 THEN e ELSE q[i - 1]
        /\ r[j] = IF j <= k THEN q[j] ELSE IF j = k + 1 THEN e ELSE q[j - 1]
    BY <1>1, <2>1 DEF PutBehind
  <2>3. CASE j <= k
    <3>1. i \in 1 .. Len(q) /\ j \in 1 .. Len(q)
      BY <1>0, <2>1, <2>3
    <3> QED BY <1>0, <2>1, <2>2, <2>3, <3>1 DEF Ordered
  <2>4. CASE j = k + 1
    <3>1. CASE i = j
      BY <1>0, <1>2, <2>2, <2>4, <3>1
    <3>2. CASE i # j
      <4>1. i \in 1 .. Len(q) /\ i <= k
        BY <1>0, <2>1, <2>4, <3>2
      <4> QED BY <1>0, <1>1, <2>2, <2>4, <4>1
    <3> QED BY <3>1, <3>2
  <2>5. CASE j > k + 1
    <3>1. j - 1 \in 1 .. Len(q) /\ ~(j - 1 <= k) /\ r[j] = q[j - 1]
      BY <1>0, <2>1, <2>2, <2>5
    <3>2. q[j - 1].left > e.left
      BY <1>1, <1>2, <3>1
    <3>3. CASE i <= k
      <4>1. i \in 1 .. Len(q) /\ i <= j - 1
        BY <1>0, <2>1, <2>5, <3>3
      <4> QED BY <2>2, <3>1, <3>3, <4>1 DEF Ordered
    <3>4. CASE i = k + 1
      BY <1>0, <1>2, <2>2, <3>1, <3>2, <3>4
    <3>5. CASE i > k + 1
      <4>1. i - 1 \in 1 .. Len(q) /\ i - 1 <= j - 1 /\ r[i] = q[i - 1]
        BY <1>0, <2>1, <2>2, <3>5
      <4> QED BY <3>1, <4>1 DEF Ordered
    <3> QED BY <1>0, <2>1, <3>3, <3>4, <3>5
  <2> QED BY <1>0, <2>1, <2>3, <2>4, <2>5
<1>6. \A x : Holds(r, x) <=> Holds(q, x) \/ x = e
  BY <1>1, PutBehindHolds
<1>7. r[1] = IF q = <<>> \/ e.left < q[1].left THEN e ELSE q[1]
  <2>1. r[1] = IF 1 <= k THEN q[1] ELSE IF 1 = k + 1 THEN e ELSE q[0]
    BY <1>0, <1>1 DEF PutBehind
  <2>2. CASE k = 0
    <3>1. q # <<>> => 1 \in 1 .. Len(q)
      BY <1>0, EmptySeq
    <3>2. q # <<>> => e.left < q[1].left
      BY <1>1, <1>2, <2>2, <3>1
    <3> QED BY <2>1, <2>2, <3>2
  <2>3. CASE k # 0
    <3>1. 1 \in 1 .. Len(q) /\ 1 <= k
      BY <1>0, <2>3
    <3>2. q # <<>> /\ ~(e.left < q[1].left)
      BY <1>1, <1>2, <3>1
    <3> QED BY <2>1, <3>1, <3>2
  <2> QED BY <2>2, <2>3
<1>8. ASSUME OnceEach(q), \A x : Holds(q, x) => x.id # e.id
      PROVE  OnceEach(r)
  <2> SUFFICES ASSUME NEW i \in 1 .. Len(r), NEW j \in 1 .. Len(r), r[i].id = r[j].id
               PROVE  i = j
    BY DEF OnceEach
  <2>1. i \in 1 .. Len(q) + 1 /\ j \in 1 .. Len(q) + 1
    BY <1>3
  <2>2. /\ r[i] = IF i <= k THEN q[i] ELSE IF i = k + 1 THEN e ELSE q[i - 1]
        /\ r[j] = IF j <= k THEN q[j] ELSE IF j = k + 1 THEN e ELSE q[j - 1]
    BY <1>1, <2>1 DEF PutBehind
  <2> DEFINE from(n) == IF n <= k THEN n ELSE n - 1
  <2>3. \A n \in 1 .. Len(q) : q[n].id # e.id
    BY <1>8 DEF Holds
  <2>4. i # k + 1 => from(i) \in 1 .. Len(q) /\ r[i] = q[from(i)]
    BY <1>0, <2>1, <2>2
  <2>5. j # k + 1 => from(j) \in 1 .. Len(q) /\ r[j] = q[from(j)]
    BY <1>0, <2>1, <2>2
  <2>6. i = k + 1 => r[i] = e
    BY <1>0, <2>2
  <2>7. j = k + 1 => r[j] = e
    BY <1>0, <2>2
  <2>8. i # k + 1 /\ j # k + 1 => from(i) = from(j)
    <3> HIDE DEF from
    <3> QED BY <1>8, <2>4, <2>5 DEF OnceEach
  <2>9. i = k + 1 <=> j = k + 1
    <3> HIDE DEF from
    <3> QED BY <2>3, <2>4, <2>5, <2>6, <2>7
  <2> QED BY <1>0, <2>1, <2>8, <2>9
<1> QED BY <1>3, <1>4, <1>5, <1>6, <1>7, <1>8 DEF r

-----------------------------------------------------------------------------
(* Reinserted                                                              *)

\* Induction over the naturals, for a set of them.
LEMMA SetInduction ==
  ASSUME NEW Good \in SUBSET Nat, 0 \in Good, \A n \in Good : n + 1 \in Good
  PROVE  Good = Nat
<1> SUFFICES ASSUME Nat \ Good # {} PROVE FALSE
  OBVIOUS
<1>1. PICK m \in Nat \ Good : \A j \in Nat \ Good : m <= j
  BY LeastMember
<1>2. m - 1 \in Nat /\ ~(m <= m - 1)
  BY <1>1
<1>3. m - 1 \in Good
  BY <1>1, <1>2
<1> QED BY <1>1, <1>3

\* The queue q once the n-th entry of expired was looked at, too.
After(q, n) == IF Repeats(expired[n]) THEN Insert(q, Restarted(expired[n])) ELSE q

\* The equation of Reinserted, as far as k.
Stages(k, f) == [n \in 0 .. k |-> IF n = 0 THEN timers ELSE After(f[n - 1], n)]

LEMMA StagesExist == \A k \in Nat : \E f : f = Stages(k, f)
<1> DEFINE Good == {k \in Nat : \E f : f = Stages(k, f)}
<1>1. 0 \in Good
  <2> DEFINE f == [n \in 0 .. 0 |-> timers]
  <2>1. f = Stages(0, f)
    BY DEF Stages
  <2> QED BY <2>1
<1>2. ASSUME NEW k \in Good PROVE k + 1 \in Good
  <2>0. k \in Nat
    OBVIOUS
  <2>1. PICK f : f = Stages(k, f)
    OBVIOUS
  <2> HIDE DEF Good
  <2> DEFINE g == [n \in 0 .. k + 1 |-> IF n = k + 1 THEN After(f[k], k + 1) ELSE f[n]]
  <2>2. \A n \in 0 .. k : f[n] = IF n = 0 THEN timers ELSE After(f[n - 1], n)
    BY <2>1 DEF Stages
  <2>3. ASSUME NEW n \in 0 .. k + 1
        PROVE  g[n] = IF n = 0 THEN timers ELSE After(g[n - 1], n)
    <3>1. CASE n = k + 1
      <4>1. n # 0 /\ n - 1 = k /\ k \in 0 .. k + 1 /\ k # k + 1
        BY <2>0, <3>1
      <4>2. g[n - 1] = f[k]
        BY <4>1
      <4>3. g[n] = After(f[k], n)
        BY <3>1
      <4> QED BY <4>1, <4>2, <4>3
    <3>2. CASE n # k + 1
      <4>1. n \in 0 .. k /\ (n # 0 => n - 1 \in 0 .. k + 1 /\ n - 1 # k + 1)
        BY <2>0, <3>2
      <4>2. g[n] = f[n] /\ (n # 0 => g[n - 1] = f[n - 1])
        BY <3>2, <4>1
      <4> HIDE DEF g
      <4> QED BY <2>2, <4>1, <4>2
    <3> QED BY <3>1, <3>2
  <2>4. g = [n \in 0 .. k + 1 |-> g[n]]
    OBVIOUS
  <2>5. g = Stages(k + 1, g)
    <3> HIDE DEF g
    <3> QED BY <2>3, <2>4 DEF Stages
  <2> QED BY <2>0, <2>5 DEF Good
<1> HIDE DEF Good
<1>3. Good = Nat
  BY <1>1, <1>2, SetInduction DEF Good
<1> QED BY <1>3 DEF Good

\* Reinserted goes from entry to entry.
LEMMA ReinsertedStages ==
  ASSUME NEW k \in Nat, Len(expired) = k
  PROVE  /\ Reinserted[0] = timers
         /\ \A n \in 1 .. k : Reinserted[n] = After(Reinserted[n - 1], n)
<1>1. Reinserted = CHOOSE f : f = Stages(k, f)
  BY DEF Reinserted, Stages, After
<1>2. \E f : f = Stages(k, f)
  BY StagesExist
<1>3. Reinserted = Stages(k, Reinserted)
  BY <1>1, <1>2
<1> DEFINE h == Reinserted
<1>4. h = Stages(k, h)
  BY <1>3
<1> HIDE DEF h
<1>5. h[0] = timers /\ \A n \in 1 .. k : h[n] = After(h[n - 1], n)
  BY <1>4 DEF Stages
<1> QED BY <1>5 DEF h

\* No timer is both in the queue and in the batch.
Apart(q, r) == \A x, y : Holds(q, x) /\ Holds(r, y) => x.id # y.id

LEMMA RestartedFields ==
  ASSUME NEW e \in Entry
  PROVE  /\ Restarted(e) \in Entry
         /\ Restarted(e).id = e.id
         /\ Restarted(e).left = e.interval
         /\ Restarted(e).interval = e.interval
BY DEF Restarted, Entry

\* The first n entries of expired that repeat are back in the queue.
IsBack(n, x) == \E i \in 1 .. n : Repeats(expired[i]) /\ x = Restarted(expired[i])

\* What holds of the queue when n entries of expired were looked at.
Consistent(q, n) ==
  /\ q \in Seq(Entry) /\ Ordered(q) /\ OnceEach(q)
  /\ \A x : Holds(q, x) <=> Holds(timers, x) \/ IsBack(n, x)
  /\ timers # <<>> => q # <<>> /\ q[1].left <= timers[1].left

LEMMA AfterConsistent ==
  ASSUME timers \in Seq(Entry), expired \in Seq(Entry), OnceEach(expired),
         Apart(timers, expired),
         NEW n \in 1 .. Len(expired), NEW q, Consistent(q, n - 1)
  PROVE  Consistent(After(q, n), n)
<1> DEFINE e == expired[n]
<1>0. n \in Nat /\ n >= 1 /\ Len(expired) \in Nat
  OBVIOUS
<1>1. e \in Entry /\ Holds(expired, e)
  BY ElementOfSeq DEF Holds
<1>2. \A x : IsBack(n, x) <=> IsBack(n - 1, x) \/ (Repeats(e) /\ x = Restarted(e))
  <2>1. \A i : i \in 1 .. n <=> i \in 1 .. n - 1 \/ i = n
    BY <1>0
  <2> QED BY <2>1 DEF IsBack
<1>3. CASE ~Repeats(e)
  <2>1. After(q, n) = q
    BY <1>3 DEF After
  <2> QED BY <1>2, <1>3, <2>1 DEF Consistent
<1>4. CASE Repeats(e)
  <2>1. After(q, n) = Insert(q, Restarted(e))
    BY <1>4 DEF After
  <2>2. Restarted(e) \in Entry /\ Restarted(e).id = e.id
    BY <1>1, RestartedFields
  <2> DEFINE f == Restarted(e)
             r == Insert(q, f)
  <2>3. q \in Seq(Entry) /\ Ordered(q) /\ OnceEach(q)
    BY DEF Consistent
  <2>4. /\ r \in Seq(Entry) /\ r # <<>> /\ Ordered(r)
        /\ \A x : Holds(r, x) <=> Holds(q, x) \/ x = f
        /\ r[1] = IF q = <<>> \/ f.left < q[1].left THEN f ELSE q[1]
        /\ (\A x : Holds(q, x) => x.id # f.id) => OnceEach(r)
    BY <2>2, <2>3, InsertProperties
  <2>5. ASSUME NEW x, Holds(q, x) PROVE x.id # f.id
    <3>1. CASE Holds(timers, x)
      BY <1>1, <2>2, <3>1 DEF Apart
    <3>2. CASE IsBack(n - 1, x)
      <4>1. PICK i \in 1 .. n - 1 : x = Restarted(expired[i])
        BY <3>2 DEF IsBack
      <4>2. i \in 1 .. Len(expired) /\ i # n
        BY <1>0
      <4>3. expired[i] \in Entry
        BY <4>2, ElementOfSeq
      <4>4. x.id = expired[i].id
        BY <4>1, <4>3, RestartedFields
      <4> QED BY <2>2, <4>2, <4>4 DEF OnceEach
    <3> QED BY <2>5, <3>1, <3>2 DEF Consistent
  <2>6. OnceEach(r)
    BY <2>4, <2>5
  <2>7. \A x : Holds(r, x) <=> Holds(timers, x) \/ IsBack(n, x)
    BY <1>2, <1>4, <2>4 DEF Consistent
  <2>8. ASSUME timers # <<>> PROVE r[1].left <= timers[1].left
    <3>1. q # <<>> /\ q[1].left <= timers[1].left
      BY <2>8 DEF Consistent
    <3>2. Len(q) \in Nat /\ 1 \in 1 .. Len(q)
      BY <2>3, <3>1, EmptySeq
    <3>3. q[1] \in Entry
      BY <2>3, <3>2, ElementOfSeq
    <3>4. Holds(q, q[1])
      BY <3>2 DEF Holds
    <3>5. timers[1].left \in Nat
      <4>1. 1 \in 1 .. Len(timers)
        BY <2>8, EmptySeq
      <4> QED BY <4>1, ElementOfSeq, EntryFields
    <3>6. f.left \in Nat /\ q[1].left \in Nat
      BY <2>2, <3>3, EntryFields
    <3>7. CASE f.left < q[1].left
      <4>1. r[1] = f
        BY <2>4, <3>7
      <4> QED BY <3>1, <3>5, <3>6, <3>7, <4>1
    <3>8. CASE ~(f.left < q[1].left)
      BY <2>4, <3>1, <3>8
    <3> QED BY <3>7, <3>8
  <2> QED BY <2>1, <2>4, <2>6, <2>7, <2>8 DEF Consistent
<1> QED BY <1>3, <1>4

\* The repeating timers of the batch that were not cancelled are back in the
\* queue, behind what is not later, and nothing else was added or lost.
LEMMA ReinsertedProperties ==
  ASSUME timers \in Seq(Entry), Ordered(timers), OnceEach(timers),
         expired \in Seq(Entry), OnceEach(expired), Apart(timers, expired)
  PROVE  Consistent(Reinserted[Len(expired)], Len(expired))
<1> DEFINE k == Len(expired)
           Good == {n \in Nat : n <= k => Consistent(Reinserted[n], n)}
<1>0. k \in Nat
  OBVIOUS
<1>1. Reinserted[0] = timers /\ \A n \in 1 .. k : Reinserted[n] = After(Reinserted[n - 1], n)
  BY <1>0, ReinsertedStages
<1>2. 0 \in Good
  <2>1. \A x : ~IsBack(0, x)
    BY DEF IsBack
  <2>2. timers # <<>> => timers[1].left <= timers[1].left
    <3> SUFFICES ASSUME timers # <<>> PROVE timers[1].left <= timers[1].left
      OBVIOUS
    <3>1. 1 \in 1 .. Len(timers)
      BY EmptySeq
    <3>2. timers[1].left \in Nat
      BY <3>1, ElementOfSeq, EntryFields
    <3> QED BY <3>2
  <2>3. Consistent(timers, 0)
    BY <2>1, <2>2 DEF Consistent
  <2> QED BY <1>1, <2>3
<1>3. ASSUME NEW n \in Good PROVE n + 1 \in Good
  <2> SUFFICES ASSUME n + 1 <= k PROVE Consistent(Reinserted[n + 1], n + 1)
    OBVIOUS
  <2>1. n \in Nat /\ n + 1 \in 1 .. k /\ (n + 1) - 1 = n
    BY <1>0
  <2>2. Consistent(Reinserted[n], n)
    BY <1>0, <2>1
  <2>3. Reinserted[n + 1] = After(Reinserted[n], n + 1)
    BY <1>1, <2>1
  <2>4. \A q : Consistent(q, (n + 1) - 1) => Consistent(After(q, n + 1), n + 1)
    BY <2>1, AfterConsistent
  <2> QED BY <2>1, <2>2, <2>3, <2>4
<1> HIDE DEF Good
<1>4. Good = Nat
  BY <1>2, <1>3, SetInduction DEF Good
<1> QED BY <1>0, <1>4 DEF Good

-----------------------------------------------------------------------------
(* The invariant                                                           *)

\* How long a timer's next call has to wait.
Due(t) == IF fired[t] THEN plan[t].interval ELSE plan[t].delay

\* The queue is ordered, and holds a timer at most once; so does the batch, and
\* a timer is not in both.
Disjoint ==
  /\ Ordered(timers) /\ OnceEach(timers) /\ OnceEach(expired)
  /\ Apart(timers, expired)

\* An entry of the queue will not expire before its timer is due, belongs to no
\* one-shot timer that was called, and is known to its creator, if not to be
\* returned yet.
Queued(e) ==
  /\ e.interval = plan[e.id].interval
  /\ age[e.id] + e.left >= Due(e.id)
  /\ handle[e.id] = "new" => adding.step = "inserted" /\ adding.id = e.id
  /\ fired[e.id] => e.interval > 0

\* The turn of expired[i] is still to come.
Waits(i) == i > pos \/ (i = pos /\ phase = "batch")

\* An entry of the batch was due when it got there, and was called or passed over
\* when its turn came.
Batched(i) ==
  LET e == expired[i]
  IN  /\ e.interval = plan[e.id].interval
      /\ handle[e.id] # "new"
      /\ Waits(i) => age[e.id] >= Due(e.id) /\ (fired[e.id] => e.interval > 0)
      /\ ~Waits(i) => fired[e.id] \/ handle[e.id] = "cancelled"

EntriesInv ==
  /\ \A i \in 1 .. Len(timers) : Queued(timers[i])
  /\ \A i \in 1 .. Len(expired) : Batched(i)

\* Where HandleRead is.
TurnInv ==
  /\ phase = "callback" <=> running # NoTimer
  /\ phase = "callback" => pos \in 1 .. Len(expired) /\ running = expired[pos].id
  /\ phase = "batch" => pos \in 1 .. Len(expired) + 1
  /\ phase \in {"idle", "rearm"} => expired = <<>>

\* What AddTimer knows between its steps; that the timerfd needs no new time
\* stays true while the clock moves on.
AddingInv ==
  /\ adding # Idle => phase \in {"idle", "callback"} /\ handle[adding.id] = "new"
  /\ adding.step = "inserted" => \E i \in 1 .. Len(timers) : timers[i].id = adding.id
  /\ adding.step = "measured" /\ ~adding.reset =>
       timers # <<>> /\ timers[1].left <= plan[adding.id].delay

\* The queue or what is left of the batch holds the timer.
InQueue(t) == \E i \in 1 .. Len(timers) : timers[i].id = t

ToCall(t) ==
  \E i \in 1 .. Len(expired) : expired[i].id = t /\ (i >= pos \/ expired[i].interval > 0)

\* Just the timers that are to be called are held.
HeldInv ==
  \A t \in Timers :
    /\ handle[t] = "new" => ~fired[t]
    /\ handle[t] = "live" =>
         (InQueue(t) \/ ToCall(t) <=> plan[t].interval > 0 \/ ~fired[t] \/ running = t)

\* The timerfd has expired or will not be late for the first entry.
Covered == timers # <<>> => readable \/ (alarm > 0 /\ alarm <= ToTimespec(timers[1].left))

\* An expiration is not read while nothing has expired, and is not taken back
\* once epoll has reported it.
AlarmInv ==
  /\ readable => alarm = 0 /\ timers # <<>> /\ timers[1].left = 0
  /\ alarm > 0 => timers # <<>> /\ timers[1].left <= alarm
  /\ due => phase = "idle" /\ readable /\ (adding # Idle => ~adding.reset)
  /\ phase = "idle" /\ ~(adding.step = "inserted" /\ adding.reset) => Covered

IInv ==
  /\ TypeOK
  /\ Disjoint
  /\ EntriesInv
  /\ TurnInv
  /\ AddingInv
  /\ HeldInv
  /\ AlarmInv

LEMMA InitInv == Init => IInv
<1> SUFFICES ASSUME Init PROVE IInv
  OBVIOUS
<1>0. <<>> \in Seq(Entry) /\ Len(<<>>) = 0 /\ 0 \in 0 .. MaxDelay
  BY TimerAssumption
<1>1. TypeOK
  BY <1>0 DEF Init, TypeOK
<1>2. \A q, x : ~Holds(<<>>, x)
  BY <1>0 DEF Holds
<1>3. Disjoint
  BY <1>0, <1>2 DEF Init, Disjoint, Ordered, OnceEach, Apart
<1>4. EntriesInv
  BY <1>0 DEF Init, EntriesInv
<1>5. TurnInv
  BY <1>0 DEF Init, TurnInv
<1>6. AddingInv
  BY DEF Init, AddingInv, Idle
<1>7. HeldInv
  BY <1>0 DEF Init, HeldInv
<1>8. AlarmInv
  BY DEF Init, AlarmInv, Covered
<1> QED BY <1>1, <1>3, <1>4, <1>5, <1>6, <1>7, <1>8 DEF IInv

LEMMA HeadIsFirst ==
  ASSUME NEW q \in Seq(Entry), q # <<>>
  PROVE  /\ Head(q) = q[1] /\ 1 \in 1 .. Len(q)
         /\ q[1] \in Entry /\ q[1].left \in Nat
<1>1. 1 \in 1 .. Len(q)
  BY EmptySeq
<1> QED BY <1>1, ElementOfSeq, EntryFields

\* An AddTimer in progress is a Call.
LEMMA AddingFields ==
  ASSUME TypeOK
  PROVE  /\ adding # Idle => adding \in Call
         /\ adding.step \in {"measured", "inserted"} <=> adding # Idle
BY DEF TypeOK, Call, Idle

-----------------------------------------------------------------------------
(* Steps that leave the queue as it is                                     *)

LEMMA CancelKeeps ==
  ASSUME IInv, NEW t \in Timers, Cancel(t)
  PROVE  IInv'
<1>0. /\ phase \in {"idle", "callback"} /\ adding = Idle /\ handle[t] = "live"
      /\ handle' = [handle EXCEPT ![t] = "cancelled"]
      /\ UNCHANGED <<timers, alarm, readable, due, phase, expired, pos, running, adding,
                     plan, fired, age>>
  BY DEF Cancel, InCallback, queue, batch, history
<1>1. TypeOK'
  BY <1>0 DEF IInv, TypeOK
<1>2. \A u \in Timers : handle'[u] = IF u = t THEN "cancelled" ELSE handle[u]
  BY <1>0 DEF IInv, TypeOK
<1>3. Disjoint'
  BY <1>0 DEF IInv, Disjoint, Ordered, OnceEach, Apart, Holds
<1>4. \A i \in 1 .. Len(timers) : timers[i].id \in Timers
  BY ElementOfSeq, EntryFields DEF IInv, TypeOK
<1>5. \A i \in 1 .. Len(expired) : expired[i].id \in Timers
  BY ElementOfSeq, EntryFields DEF IInv, TypeOK
<1>6. ASSUME NEW i \in 1 .. Len(timers) PROVE Queued(timers[i])'
  BY <1>0, <1>2, <1>4 DEF IInv, EntriesInv, Queued, Due
<1>7. ASSUME NEW i \in 1 .. Len(expired) PROVE Batched(i)'
  BY <1>0, <1>2, <1>5 DEF IInv, EntriesInv, Batched, Due, Waits
<1>8. EntriesInv'
  BY <1>0, <1>6, <1>7 DEF EntriesInv
<1>9. TurnInv'
  BY <1>0 DEF IInv, TurnInv
<1>10. AddingInv'
  BY <1>0 DEF IInv, AddingInv, Idle
<1>11. HeldInv'
  BY <1>0, <1>2 DEF IInv, HeldInv, InQueue, ToCall
<1>12. AlarmInv'
  BY <1>0 DEF IInv, AlarmInv, Covered
<1> QED BY <1>1, <1>3, <1>8, <1>9, <1>10, <1>11, <1>12 DEF IInv

LEMMA PollTimerKeeps ==
  ASSUME IInv, PollTimer
  PROVE  IInv'
<1>0. /\ phase = "idle" /\ adding = Idle /\ readable /\ due' = TRUE
      /\ UNCHANGED <<timers, alarm, readable, phase, expired, pos, running, adding, handle,
                     plan, fired, age>>
  BY DEF PollTimer, queue, history
<1>1. TypeOK'
  BY <1>0 DEF IInv, TypeOK
<1>2. Disjoint'
  BY <1>0 DEF IInv, Disjoint, Ordered, OnceEach, Apart, Holds
<1>3. EntriesInv'
  BY <1>0 DEF IInv, EntriesInv, Queued, Batched, Due, Waits
<1>4. TurnInv' /\ AddingInv'
  BY <1>0 DEF IInv, TurnInv, AddingInv
<1>5. HeldInv'
  BY <1>0 DEF IInv, HeldInv, InQueue, ToCall
<1>6. AlarmInv'
  BY <1>0 DEF IInv, AlarmInv, Covered
<1> QED BY <1>1, <1>2, <1>3, <1>4, <1>5, <1>6 DEF IInv

LEMMA SkipCancelledKeeps ==
  ASSUME IInv, SkipCancelled
  PROVE  IInv'
<1>0. /\ phase = "batch" /\ pos <= Len(expired) /\ handle[expired[pos].id] = "cancelled"
      /\ pos' = pos + 1
      /\ UNCHANGED <<timers, alarm, readable, due, phase, expired, running, adding, handle,
                     plan, fired, age>>
  BY DEF SkipCancelled, Cancelled, queue, history
<1>1. Len(expired) \in Nat /\ pos \in 1 .. Len(expired) /\ pos' \in Nat
  BY <1>0 DEF IInv, TypeOK, TurnInv
<1>2. TypeOK'
  BY <1>0, <1>1 DEF IInv, TypeOK
<1>3. Disjoint'
  BY <1>0 DEF IInv, Disjoint, Ordered, OnceEach, Apart, Holds
<1>4. ASSUME NEW i \in 1 .. Len(expired) PROVE Batched(i)'
  <2>1. CASE i = pos
    <3>1. ~Waits(i)'
      BY <1>0, <1>1, <2>1 DEF Waits
    <3> QED BY <1>0, <1>1, <2>1, <3>1 DEF IInv, EntriesInv, Batched
  <2>2. CASE i # pos
    <3>1. Waits(i)' <=> Waits(i)
      BY <1>0, <1>1, <2>2 DEF Waits
    <3> QED BY <1>0, <3>1 DEF IInv, EntriesInv, Batched, Due
  <2> QED BY <2>1, <2>2
<1>5. \A i \in 1 .. Len(timers) : Queued(timers[i])'
  BY <1>0 DEF IInv, EntriesInv, Queued, Due
<1>6. EntriesInv'
  BY <1>0, <1>4, <1>5 DEF EntriesInv
<1>7. TurnInv' /\ AddingInv'
  BY <1>0, <1>1 DEF IInv, TurnInv, AddingInv
<1>8. ASSUME NEW t \in Timers, handle[t] = "live" PROVE ToCall(t)' <=> ToCall(t)
  <2>1. \A i \in 1 .. Len(expired) : expired[i].id = t => (i >= pos + 1 <=> i >= pos)
    BY <1>0, <1>1, <1>8
  <2> QED BY <1>0, <2>1 DEF ToCall
<1>9. HeldInv'
  BY <1>0, <1>8 DEF IInv, HeldInv, InQueue
<1>10. AlarmInv'
  BY <1>0 DEF IInv, AlarmInv, Covered
<1> QED BY <1>2, <1>3, <1>6, <1>7, <1>9, <1>10 DEF IInv

LEMMA CallTimerKeeps ==
  ASSUME IInv, CallTimer
  PROVE  IInv'
<1> DEFINE t == expired[pos].id
<1>0. /\ phase = "batch" /\ pos <= Len(expired) /\ handle[t] # "cancelled"
      /\ running' = t /\ fired' = [fired EXCEPT ![t] = TRUE] /\ age' = [age EXCEPT ![t] = 0]
      /\ phase' = "callback"
      /\ UNCHANGED <<timers, alarm, readable, due, expired, pos, adding, handle, plan>>
  BY DEF CallTimer, Cancelled, queue
<1>1. Len(expired) \in Nat /\ pos \in 1 .. Len(expired)
  BY <1>0 DEF IInv, TypeOK, TurnInv
<1>2. t \in Timers /\ \A i \in 1 .. Len(expired) : expired[i].id \in Timers
  BY <1>1, ElementOfSeq, EntryFields DEF IInv, TypeOK
<1>3. \A i \in 1 .. Len(timers) : timers[i].id \in Timers /\ timers[i].id # t
  BY <1>1, ElementOfSeq, EntryFields DEF IInv, TypeOK, Disjoint, Apart, Holds
<1>4. TypeOK'
  BY <1>0, <1>2, TimerAssumption DEF IInv, TypeOK
<1> HIDE DEF t
<1>5. \A u \in Timers : /\ fired'[u] = (u = t \/ fired[u])
                        /\ age'[u] = IF u = t THEN 0 ELSE age[u]
  BY <1>0, <1>2 DEF IInv, TypeOK
<1>6. Disjoint'
  BY <1>0 DEF IInv, Disjoint, Ordered, OnceEach, Apart, Holds
<1>7. ASSUME NEW i \in 1 .. Len(timers) PROVE Queued(timers[i])'
  BY <1>0, <1>3, <1>5 DEF IInv, EntriesInv, Queued, Due
<1>8. ASSUME NEW i \in 1 .. Len(expired) PROVE Batched(i)'
  <2>1. CASE i = pos
    <3>1. ~Waits(i)' /\ expired[i].id = t
      BY <1>0, <1>1, <2>1 DEF Waits, t
    <3> QED BY <1>0, <1>2, <1>5, <3>1 DEF IInv, EntriesInv, Batched
  <2>2. CASE i # pos
    <3>1. Waits(i)' <=> Waits(i)
      BY <1>0, <1>1, <2>2 DEF Waits
    <3>2. expired[i].id # t
      BY <1>1, <2>2 DEF IInv, Disjoint, OnceEach, t
    <3> QED BY <1>0, <1>2, <1>5, <3>1, <3>2 DEF IInv, EntriesInv, Batched, Due
  <2> QED BY <2>1, <2>2
<1>9. EntriesInv'
  BY <1>0, <1>7, <1>8 DEF EntriesInv
<1>10. TurnInv'
  BY <1>0, <1>1, <1>2, TimerAssumption DEF IInv, TurnInv, t
<1>11. AddingInv'
  BY <1>0 DEF IInv, AddingInv
<1>12. handle[t] # "new" /\ ToCall(t)
  BY <1>1 DEF IInv, EntriesInv, Batched, ToCall, t
<1>13. running = NoTimer
  BY <1>0 DEF IInv, TurnInv
<1>14. \A u \in Timers : (InQueue(u)' <=> InQueue(u)) /\ (ToCall(u)' <=> ToCall(u))
  BY <1>0 DEF InQueue, ToCall
<1>15. HeldInv'
  BY <1>0, <1>2, <1>5, <1>12, <1>13, <1>14, TimerAssumption DEF IInv, HeldInv
<1>16. AlarmInv'
  BY <1>0 DEF IInv, AlarmInv, Covered
<1> QED BY <1>4, <1>6, <1>9, <1>10, <1>11, <1>15, <1>16 DEF IInv

LEMMA CallReturnsKeeps ==
  ASSUME IInv, CallReturns
  PROVE  IInv'
<1>0. /\ phase = "callback" /\ adding = Idle
      /\ phase' = "batch" /\ pos' = pos + 1 /\ running' = NoTimer
      /\ UNCHANGED <<timers, alarm, readable, due, expired, adding, handle, plan, fired, age>>
  BY DEF CallReturns, queue, history
<1>1. Len(expired) \in Nat /\ pos \in 1 .. Len(expired) /\ running = expired[pos].id
  BY <1>0 DEF IInv, TypeOK, TurnInv
<1>2. TypeOK'
  BY <1>0, <1>1 DEF IInv, TypeOK
<1>3. Disjoint'
  BY <1>0 DEF IInv, Disjoint, Ordered, OnceEach, Apart, Holds
<1>4. ASSUME NEW i \in 1 .. Len(expired) PROVE Batched(i)'
  <2>1. Waits(i)' <=> Waits(i)
    BY <1>0, <1>1 DEF Waits
  <2> QED BY <1>0, <2>1 DEF IInv, EntriesInv, Batched, Due
<1>5. \A i \in 1 .. Len(timers) : Queued(timers[i])'
  BY <1>0 DEF IInv, EntriesInv, Queued, Due
<1>6. EntriesInv'
  BY <1>0, <1>4, <1>5 DEF EntriesInv
<1>7. TurnInv' /\ AddingInv'
  BY <1>0, <1>1 DEF IInv, TurnInv, AddingInv
<1>8. ASSUME NEW t \in Timers, handle[t] = "live"
      PROVE  InQueue(t)' \/ ToCall(t)' <=> plan[t].interval > 0 \/ ~fired[t]
  <2>1. InQueue(t)' <=> InQueue(t)
    BY <1>0 DEF InQueue
  <2>2. CASE t = running
    <3>1. ~InQueue(t)
      BY <1>1, <2>2 DEF IInv, Disjoint, Apart, Holds, InQueue
    <3>2. expired[pos].interval = plan[t].interval /\ (fired[t] \/ handle[t] = "cancelled")
      BY <1>0, <1>1, <2>2 DEF IInv, EntriesInv, Batched, Waits, TypeOK
    <3>3. \A i \in 1 .. Len(expired) : expired[i].id = t <=> i = pos
      BY <1>1, <2>2 DEF IInv, Disjoint, OnceEach
    <3>4. ToCall(t)' <=> expired[pos].interval > 0
      BY <1>0, <1>1, <3>3 DEF ToCall
    <3> QED BY <1>8, <2>1, <3>1, <3>2, <3>4
  <2>3. CASE t # running
    <3>1. \A i \in 1 .. Len(expired) : expired[i].id = t => (i >= pos + 1 <=> i >= pos)
      BY <1>1, <2>3
    <3>2. ToCall(t)' <=> ToCall(t)
      BY <1>0, <3>1 DEF ToCall
    <3> QED BY <1>8, <2>1, <2>3, <3>2 DEF IInv, HeldInv
  <2> QED BY <2>2, <2>3
<1>9. HeldInv'
  BY <1>0, <1>8, TimerAssumption DEF IInv, HeldInv
<1>10. AlarmInv'
  BY <1>0 DEF IInv, AlarmInv, Covered
<1> QED BY <1>2, <1>3, <1>6, <1>7, <1>9, <1>10 DEF IInv

\* The timerfd that was set anew covers the queue.
LEMMA ResetCovers ==
  ASSUME timers \in Seq(Entry), ResetTimerFd(timers), UNCHANGED timers
  PROVE  /\ alarm' \in Nat /\ ~readable'
         /\ timers = <<>> => alarm' = 0
         /\ timers # <<>> => /\ alarm' > 0 /\ timers[1].left <= alarm'
                             /\ alarm' = ToTimespec(timers[1].left)
         /\ Covered'
<1>1. CASE timers = <<>>
  BY <1>1 DEF ResetTimerFd, Covered
<1>2. CASE timers # <<>>
  <2>1. Head(timers) = timers[1] /\ timers[1].left \in Nat
    BY <1>2, HeadIsFirst
  <2>2. alarm' = ToTimespec(timers[1].left) /\ ~readable'
    BY <1>2, <2>1 DEF ResetTimerFd
  <2>3. ToTimespec(timers[1].left) \in Nat /\ ToTimespec(timers[1].left) > 0
        /\ timers[1].left <= ToTimespec(timers[1].left)
    BY <2>1 DEF ToTimespec
  <2> QED BY <1>2, <2>2, <2>3 DEF Covered
<1> QED BY <1>1, <1>2

LEMMA AlarmIsTime ==
  ASSUME timers \in Seq(Entry), ResetTimerFd(timers), UNCHANGED timers
  PROVE  alarm' \in 0 .. MaxDelay /\ readable' \in BOOLEAN
<1>1. readable' \in BOOLEAN
  BY DEF ResetTimerFd
<1>2. CASE timers = <<>>
  <2>1. alarm' = 0
    BY <1>2 DEF ResetTimerFd
  <2> QED BY <1>1, <2>1, TimerAssumption
<1>3. CASE timers # <<>>
  <2>1. Head(timers) = timers[1] /\ timers[1] \in Entry
    BY <1>3, HeadIsFirst
  <2>2. timers[1].left \in 0 .. MaxDelay
    BY <2>1, EntryFields DEF Time
  <2>3. alarm' = ToTimespec(timers[1].left)
    BY <1>3, <2>1 DEF ResetTimerFd
  <2> QED BY <1>1, <2>2, <2>3, TimerAssumption DEF ToTimespec
<1> QED BY <1>2, <1>3

LEMMA RearmKeeps ==
  ASSUME IInv, Rearm
  PROVE  IInv'
<1>0. /\ phase = "rearm" /\ ResetTimerFd(timers) /\ phase' = "idle"
      /\ UNCHANGED <<timers, due, expired, pos, running, adding, handle, plan, fired, age>>
  BY DEF Rearm, history
<1>1. timers \in Seq(Entry)
  BY DEF IInv, TypeOK
<1>2. TypeOK'
  BY <1>0, <1>1, AlarmIsTime DEF IInv, TypeOK
<1>3. Disjoint'
  BY <1>0 DEF IInv, Disjoint, Ordered, OnceEach, Apart, Holds
<1>4. expired = <<>> /\ Len(expired) = 0
  BY <1>0 DEF IInv, TurnInv
<1>5. EntriesInv'
  BY <1>0, <1>4 DEF IInv, EntriesInv, Queued, Due
<1>6. TurnInv' /\ AddingInv'
  BY <1>0, <1>4 DEF IInv, TurnInv, AddingInv
<1>7. HeldInv'
  BY <1>0 DEF IInv, HeldInv, InQueue, ToCall
<1>8. ~due
  BY <1>0 DEF IInv, AlarmInv
<1>9. AlarmInv'
  BY <1>0, <1>1, <1>8, ResetCovers DEF AlarmInv
<1> QED BY <1>2, <1>3, <1>5, <1>6, <1>7, <1>9 DEF IInv

LEMMA AddReturnsKeeps ==
  ASSUME IInv, AddReturns
  PROVE  IInv'
<1> DEFINE t == adding.id
<1>0. /\ adding.step = "inserted"
      /\ IF adding.reset THEN ResetTimerFd(timers) ELSE UNCHANGED <<alarm, readable>>
      /\ handle' = [handle EXCEPT ![t] = "live"] /\ adding' = Idle
      /\ UNCHANGED <<timers, due, phase, expired, pos, running, plan, fired, age>>
  BY DEF AddReturns, batch, history
<1>1. adding \in Call /\ adding # Idle /\ t \in Timers
  BY <1>0, AddingFields DEF IInv, Call
<1>2. timers \in Seq(Entry)
  BY DEF IInv, TypeOK
<1>3. alarm' \in 0 .. MaxDelay /\ readable' \in BOOLEAN
  BY <1>0, <1>2, AlarmIsTime DEF IInv, TypeOK
<1>4. TypeOK'
  BY <1>0, <1>3 DEF IInv, TypeOK
<1> HIDE DEF t
<1>5. \A u \in Timers : handle'[u] = IF u = t THEN "live" ELSE handle[u]
  BY <1>0, <1>1 DEF IInv, TypeOK
<1>6. Disjoint'
  BY <1>0 DEF IInv, Disjoint, Ordered, OnceEach, Apart, Holds
<1>7. \A i \in 1 .. Len(timers) : timers[i].id \in Timers
  BY ElementOfSeq, EntryFields DEF IInv, TypeOK
<1>8. \A i \in 1 .. Len(expired) : expired[i].id \in Timers
  BY ElementOfSeq, EntryFields DEF IInv, TypeOK
<1>9. handle[t] = "new" /\ phase \in {"idle", "callback"} /\ InQueue(t)
  BY <1>0, <1>1 DEF IInv, AddingInv, InQueue, t
<1>10. ASSUME NEW i \in 1 .. Len(timers) PROVE Queued(timers[i])'
  BY <1>0, <1>5, <1>7 DEF IInv, EntriesInv, Queued, Due, t
<1>11. ASSUME NEW i \in 1 .. Len(expired) PROVE Batched(i)'
  <2>1. expired[i].id # t
    BY <1>9 DEF IInv, EntriesInv, Batched
  <2> QED BY <1>0, <1>5, <1>8, <2>1 DEF IInv, EntriesInv, Batched, Due, Waits
<1>12. EntriesInv'
  BY <1>0, <1>10, <1>11 DEF EntriesInv
<1>13. TurnInv'
  BY <1>0 DEF IInv, TurnInv
<1>14. AddingInv'
  BY <1>0 DEF AddingInv, Idle
<1>15. \A u \in Timers : (InQueue(u)' <=> InQueue(u)) /\ (ToCall(u)' <=> ToCall(u))
  BY <1>0 DEF InQueue, ToCall
<1>16. HeldInv'
  BY <1>0, <1>1, <1>5, <1>9, <1>15 DEF IInv, HeldInv
<1>17. AlarmInv'
  <2>1. CASE adding.reset
    <3>1. ~due
      BY <1>1, <2>1 DEF IInv, AlarmInv
    <3> QED BY <1>0, <1>2, <2>1, <3>1, ResetCovers DEF AlarmInv
  <2>2. CASE ~adding.reset
    BY <1>0, <2>2 DEF IInv, AlarmInv, Covered
  <2> QED BY <2>1, <2>2
<1> QED BY <1>4, <1>6, <1>12, <1>13, <1>14, <1>16, <1>17 DEF IInv

LEMMA AddTimerKeeps ==
  ASSUME IInv, NEW t \in Timers, NEW delay \in Time, NEW interval \in Time,
         AddTimer(t, delay, interval)
  PROVE  IInv'
<1>0. /\ phase \in {"idle", "callback"} /\ adding = Idle /\ handle[t] = "new"
      /\ adding' = [step |-> "measured", id |-> t, reset |-> ResetEarliest(delay)]
      /\ plan' = [plan EXCEPT ![t] = [delay |-> delay, interval |-> interval]]
      /\ age' = [age EXCEPT ![t] = 0]
      /\ UNCHANGED <<timers, alarm, readable, due, phase, expired, pos, running, handle, fired>>
  BY DEF AddTimer, InCallback, queue, batch
<1>1. adding' \in Call
  BY <1>0 DEF Call, ResetEarliest
<1>2. TypeOK'
  BY <1>0, <1>1, TimerAssumption DEF IInv, TypeOK, Time
<1>3. adding' # Idle /\ adding'.step = "measured" /\ adding'.id = t
      /\ adding'.reset = ResetEarliest(delay)
  BY <1>0 DEF Idle
<1>4. \A u \in Timers : /\ plan'[u] = IF u = t THEN [delay |-> delay, interval |-> interval] ELSE plan[u]
                        /\ age'[u] = IF u = t THEN 0 ELSE age[u]
  BY <1>0 DEF IInv, TypeOK
<1>5. Disjoint'
  BY <1>0 DEF IInv, Disjoint, Ordered, OnceEach, Apart, Holds
<1>6. adding.step = "none"
  BY <1>0 DEF Idle
<1>7. ASSUME NEW i \in 1 .. Len(timers) PROVE timers[i].id \in Timers /\ timers[i].id # t
  BY <1>0, <1>6, ElementOfSeq, EntryFields DEF IInv, TypeOK, EntriesInv, Queued
<1>8. ASSUME NEW i \in 1 .. Len(expired) PROVE expired[i].id \in Timers /\ expired[i].id # t
  BY <1>0, ElementOfSeq, EntryFields DEF IInv, TypeOK, EntriesInv, Batched
<1>9. ASSUME NEW i \in 1 .. Len(timers) PROVE Queued(timers[i])'
  BY <1>0, <1>4, <1>6, <1>7 DEF IInv, EntriesInv, Queued, Due
<1>10. ASSUME NEW i \in 1 .. Len(expired) PROVE Batched(i)'
  BY <1>0, <1>4, <1>8 DEF IInv, EntriesInv, Batched, Due, Waits
<1>11. EntriesInv'
  BY <1>0, <1>9, <1>10 DEF EntriesInv
<1>12. TurnInv'
  BY <1>0 DEF IInv, TurnInv
<1>13. ASSUME ~ResetEarliest(delay) PROVE timers # <<>> /\ timers[1].left <= delay
  <2>1. timers # <<>> /\ ~(delay < Head(timers).left)
    BY <1>13 DEF ResetEarliest
  <2>2. Head(timers) = timers[1] /\ timers[1].left \in Nat
    BY <2>1, HeadIsFirst DEF IInv, TypeOK
  <2>3. delay \in Nat
    BY TimerAssumption DEF Time
  <2> QED BY <2>1, <2>2, <2>3
<1>14. AddingInv'
  BY <1>0, <1>3, <1>4, <1>13 DEF AddingInv
<1>15. \A u \in Timers : (InQueue(u)' <=> InQueue(u)) /\ (ToCall(u)' <=> ToCall(u))
  BY <1>0 DEF InQueue, ToCall
<1>16. HeldInv'
  BY <1>0, <1>4, <1>15 DEF IInv, HeldInv
<1>17. due => ~ResetEarliest(delay)
  <2> SUFFICES ASSUME due PROVE ~ResetEarliest(delay)
    OBVIOUS
  <2>1. timers # <<>> /\ timers[1].left = 0
    BY DEF IInv, AlarmInv
  <2>2. Head(timers) = timers[1]
    BY <2>1, HeadIsFirst DEF IInv, TypeOK
  <2>3. delay \in Nat
    BY TimerAssumption DEF Time
  <2> QED BY <2>1, <2>2, <2>3 DEF ResetEarliest
<1>18. AlarmInv'
  BY <1>0, <1>3, <1>6, <1>17 DEF IInv, AlarmInv, Covered
<1> QED BY <1>2, <1>5, <1>11, <1>12, <1>14, <1>16, <1>18 DEF IInv

-----------------------------------------------------------------------------
(* Steps that change the queue                                             *)

LEMMA AddInsertsKeeps ==
  ASSUME IInv, AddInserts
  PROVE  IInv'
<1> DEFINE t == adding.id
           e == [id |-> t, left |-> plan[t].delay, interval |-> plan[t].interval]
<1>0. /\ adding.step = "measured" /\ timers' = Insert(timers, e)
      /\ adding' = [adding EXCEPT !.step = "inserted"]
      /\ UNCHANGED <<alarm, readable, due, phase, expired, pos, running, handle,
                     plan, fired, age>>
  BY DEF AddInserts, batch, history
<1>1. adding \in Call /\ adding # Idle /\ t \in Timers
  BY <1>0, AddingFields DEF IInv, Call
<1>2. e \in Entry /\ e.id = t /\ e.left = plan[t].delay /\ e.interval = plan[t].interval
  BY <1>1 DEF IInv, TypeOK, Entry
<1>3. adding' \in Call /\ adding' # Idle /\ adding'.step = "inserted"
      /\ adding'.id = t /\ adding'.reset = adding.reset
  BY <1>0, <1>1 DEF Call, Idle
<1> HIDE DEF t, e
<1>4. timers \in Seq(Entry) /\ Ordered(timers) /\ OnceEach(timers)
  BY DEF IInv, TypeOK, Disjoint
<1>5. handle[t] = "new" /\ phase \in {"idle", "callback"}
  BY <1>1 DEF IInv, AddingInv, t
<1>6. ASSUME NEW x, Holds(timers, x) PROVE x \in Entry /\ x.id # t /\ Queued(x)
  <2>1. PICK i \in 1 .. Len(timers) : x = timers[i]
    BY <1>6 DEF Holds
  <2>2. x \in Entry /\ Queued(x)
    BY <1>4, <2>1, ElementOfSeq DEF IInv, EntriesInv
  <2> QED BY <1>0, <1>5, <2>2 DEF Queued
<1>7. /\ timers' \in Seq(Entry) /\ timers' # <<>> /\ Ordered(timers')
      /\ \A x : Holds(timers', x) <=> Holds(timers, x) \/ x = e
      /\ timers'[1] = IF timers = <<>> \/ e.left < timers[1].left THEN e ELSE timers[1]
      /\ (\A x : Holds(timers, x) => x.id # e.id) => OnceEach(timers')
  BY <1>0, <1>2, <1>4, InsertProperties
<1>8. OnceEach(timers')
  BY <1>2, <1>6, <1>7
<1>9. TypeOK'
  BY <1>0, <1>3, <1>7 DEF IInv, TypeOK
<1>10. ASSUME NEW i \in 1 .. Len(expired) PROVE expired[i].id \in Timers /\ expired[i].id # t
  BY <1>5, ElementOfSeq, EntryFields DEF IInv, TypeOK, EntriesInv, Batched
<1>11. Apart(timers', expired)
  <2>1. \A y : Holds(expired, y) => y.id # t
    BY <1>10 DEF Holds
  <2> QED BY <1>2, <1>7, <2>1 DEF IInv, Disjoint, Apart
<1>12. Disjoint'
  BY <1>0, <1>7, <1>8, <1>11 DEF IInv, Disjoint
<1>13. ~fired[t]
  BY <1>1, <1>5 DEF IInv, HeldInv
<1>14. ASSUME NEW x, Holds(timers', x) PROVE Queued(x)'
  <2>1. CASE Holds(timers, x)
    <3>1. handle[x.id] # "new"
      BY <1>0, <1>6, <2>1 DEF Queued
    <3> QED BY <1>0, <1>6, <2>1, <3>1 DEF Queued, Due
  <2>2. CASE x = e
    <3>1. age[t] \in Nat /\ plan[t].delay \in Nat
      BY <1>1, TimerAssumption DEF IInv, TypeOK
    <3> QED BY <1>0, <1>2, <1>3, <1>13, <2>2, <3>1 DEF Queued, Due
  <2> QED BY <1>7, <1>14, <2>1, <2>2
<1>15. \A i \in 1 .. Len(expired) : Batched(i)'
  BY <1>0 DEF IInv, EntriesInv, Batched, Due, Waits
<1>16. EntriesInv'
  BY <1>0, <1>14, <1>15 DEF EntriesInv, Holds
<1>17. TurnInv'
  BY <1>0 DEF IInv, TurnInv
<1>18. \A u : InQueue(u)' <=> InQueue(u) \/ u = t
  <2>1. \A u : InQueue(u)' <=> \E x : Holds(timers', x) /\ x.id = u
    BY DEF InQueue, Holds
  <2>2. \A u : InQueue(u) <=> \E x : Holds(timers, x) /\ x.id = u
    BY DEF InQueue, Holds
  <2> QED BY <1>2, <1>7, <2>1, <2>2
<1>19. AddingInv'
  BY <1>0, <1>3, <1>5, <1>18 DEF AddingInv, InQueue
<1>20. \A u \in Timers : ToCall(u)' <=> ToCall(u)
  BY <1>0 DEF ToCall
<1>21. HeldInv'
  BY <1>0, <1>5, <1>18, <1>20 DEF IInv, HeldInv
<1>22. e.left \in Nat /\ (timers # <<>> => timers[1].left \in Nat)
  BY <1>2, <1>4, EntryFields, HeadIsFirst
<1>23. ASSUME timers # <<>>
       PROVE  timers'[1].left \in Nat /\ timers'[1].left <= timers[1].left
  BY <1>7, <1>22, <1>23
<1>24. ASSUME ~adding.reset
       PROVE  timers # <<>> /\ timers'[1] = timers[1]
  <2>1. timers # <<>> /\ timers[1].left <= e.left
    BY <1>0, <1>2, <1>24 DEF IInv, AddingInv, t
  <2> QED BY <1>7, <1>22, <2>1
<1>25. AlarmInv'
  <2>1. readable => alarm = 0 /\ timers'[1].left = 0
    BY <1>22, <1>23 DEF IInv, AlarmInv
  <2>2. alarm > 0 => timers'[1].left <= alarm
    <3>1. alarm \in Nat
      BY TimerAssumption DEF IInv, TypeOK
    <3> QED BY <1>22, <1>23, <3>1 DEF IInv, AlarmInv
  <2>3. due => phase = "idle" /\ readable /\ ~adding.reset
    BY <1>1 DEF IInv, AlarmInv
  <2>4. phase = "idle" /\ ~adding.reset => Covered'
    BY <1>0, <1>24 DEF IInv, AlarmInv, Covered
  <2> QED BY <1>0, <1>3, <1>7, <2>1, <2>2, <2>3, <2>4 DEF AlarmInv
<1> QED BY <1>9, <1>12, <1>16, <1>17, <1>19, <1>21, <1>25 DEF IInv

LEMMA ReinsertKeeps ==
  ASSUME IInv, Reinsert
  PROVE  IInv'
<1>0. /\ phase = "batch" /\ pos > Len(expired) /\ timers' = Reinserted[Len(expired)]
      /\ expired' = <<>> /\ pos' = 0 /\ phase' = "rearm"
      /\ UNCHANGED <<alarm, readable, due, running, adding, handle, plan, fired, age>>
  BY DEF Reinsert, history
<1> DEFINE k == Len(expired)
<1>1. timers \in Seq(Entry) /\ expired \in Seq(Entry) /\ k \in Nat /\ pos \in Nat
  BY DEF IInv, TypeOK
<1>2. Consistent(timers', k)
  BY <1>0, ReinsertedProperties DEF IInv, TypeOK, Disjoint
<1>3. /\ timers' \in Seq(Entry) /\ Ordered(timers') /\ OnceEach(timers')
      /\ \A x : Holds(timers', x) <=> Holds(timers, x) \/ IsBack(k, x)
      /\ timers # <<>> => timers' # <<>> /\ timers'[1].left <= timers[1].left
  BY <1>2 DEF Consistent
<1> HIDE DEF k
<1>4. <<>> \in Seq(Entry) /\ Len(<<>>) = 0
  OBVIOUS
<1>5. TypeOK'
  BY <1>0, <1>3, <1>4 DEF IInv, TypeOK
<1>6. \A q, y : ~Holds(<<>>, y)
  BY <1>4 DEF Holds
<1>7. Disjoint'
  BY <1>0, <1>3, <1>4, <1>6 DEF Disjoint, Apart, OnceEach
<1>8. adding = Idle /\ adding.step = "none"
  BY <1>0 DEF IInv, AddingInv, Idle
<1>9. ASSUME NEW i \in 1 .. k
      PROVE  /\ expired[i] \in Entry /\ ~Waits(i)
             /\ expired[i].interval = plan[expired[i].id].interval
             /\ handle[expired[i].id] # "new"
             /\ fired[expired[i].id] \/ handle[expired[i].id] = "cancelled"
  <2>1. expired[i] \in Entry
    BY <1>1, ElementOfSeq DEF k
  <2>2. i <= k
    BY <1>1
  <2>3. ~Waits(i)
    BY <1>0, <1>1, <2>2 DEF Waits, k
  <2> QED BY <2>1, <2>3 DEF IInv, EntriesInv, Batched, k
<1>10. ASSUME NEW x, IsBack(k, x)
       PROVE  Queued(x)' /\ handle[x.id] # "cancelled" /\ x.interval > 0
  <2>1. PICK i \in 1 .. k : Repeats(expired[i]) /\ x = Restarted(expired[i])
    BY <1>10 DEF IsBack
  <2> DEFINE t == expired[i].id
  <2>2. x.id = t /\ x.left = expired[i].interval /\ x.interval = expired[i].interval
        /\ t \in Timers /\ x.interval \in Nat
    BY <1>9, <2>1, RestartedFields, EntryFields
  <2>3. x.interval > 0 /\ handle[t] # "cancelled"
    BY <2>1, <2>2 DEF Repeats, Cancelled
  <2>4. fired[t] /\ x.interval = plan[t].interval /\ handle[t] # "new"
    BY <1>9, <2>2, <2>3
  <2> HIDE DEF t
  <2>5. age[t] \in Nat
    BY <2>2, TimerAssumption DEF IInv, TypeOK
  <2> QED BY <1>0, <2>2, <2>3, <2>4, <2>5 DEF Queued, Due
<1>11. ASSUME NEW x, Holds(timers, x) PROVE Queued(x)'
  <2>1. Queued(x)
    BY <1>11 DEF IInv, EntriesInv, Holds
  <2> QED BY <1>0, <2>1 DEF Queued, Due
<1>12. ASSUME NEW x, Holds(timers', x) PROVE Queued(x)'
  BY <1>3, <1>10, <1>11, <1>12
<1>13. EntriesInv'
  BY <1>0, <1>4, <1>12 DEF EntriesInv, Holds
<1>14. TurnInv'
  BY <1>0 DEF IInv, TurnInv
<1>15. AddingInv'
  BY <1>0, <1>8 DEF AddingInv
<1>16. ASSUME NEW t \in Timers, handle[t] = "live"
       PROVE  ~ToCall(t)' /\ (InQueue(t) \/ ToCall(t) => InQueue(t)')
  <2>1. ~ToCall(t)'
    BY <1>0, <1>4 DEF ToCall
  <2>2. InQueue(t)' <=> \E x : Holds(timers', x) /\ x.id = t
    BY DEF InQueue, Holds
  <2>3. InQueue(t) => InQueue(t)'
    <3>1. InQueue(t) => \E x : Holds(timers, x) /\ x.id = t
      BY DEF InQueue, Holds
    <3> QED BY <1>3, <2>2, <3>1
  <2>4. ASSUME ToCall(t) PROVE InQueue(t)'
    <3>1. PICK i \in 1 .. k : expired[i].id = t /\ (i >= pos \/ expired[i].interval > 0)
      BY <2>4 DEF ToCall, k
    <3>2. ~(i >= pos)
      BY <1>0, <1>1 DEF k
    <3>3. Repeats(expired[i])
      BY <1>16, <3>1, <3>2 DEF Repeats, Cancelled
    <3>4. IsBack(k, Restarted(expired[i])) /\ Restarted(expired[i]).id = t
      BY <1>9, <3>1, <3>3, RestartedFields DEF IsBack
    <3> QED BY <1>3, <2>2, <3>4
  <2> QED BY <2>1, <2>3, <2>4
<1>17. ASSUME NEW t \in Timers, handle[t] = "live", InQueue(t)'
       PROVE  InQueue(t) \/ ToCall(t)
  <2>1. PICK x : Holds(timers', x) /\ x.id = t
    BY <1>17 DEF InQueue, Holds
  <2>2. CASE Holds(timers, x)
    BY <2>1, <2>2 DEF InQueue, Holds
  <2>3. CASE IsBack(k, x)
    <3>1. PICK i \in 1 .. k : Repeats(expired[i]) /\ x = Restarted(expired[i])
      BY <2>3 DEF IsBack
    <3>2. expired[i].id = t /\ expired[i].interval > 0
      BY <1>9, <2>1, <3>1, RestartedFields DEF Repeats
    <3> QED BY <3>2 DEF ToCall, k
  <2> QED BY <1>3, <2>1, <2>2, <2>3
<1>18. HeldInv'
  BY <1>0, <1>16, <1>17 DEF IInv, HeldInv
<1>19. timers # <<>> => timers[1].left \in Nat
  BY <1>1, HeadIsFirst
<1>20. timers' # <<>> => timers'[1].left \in Nat
  BY <1>3, HeadIsFirst
<1>21. AlarmInv'
  <2>1. alarm \in Nat
    BY TimerAssumption DEF IInv, TypeOK
  <2>2. ~due
    BY <1>0 DEF IInv, AlarmInv
  <2>3. readable => alarm = 0 /\ timers' # <<>> /\ timers'[1].left = 0
    BY <1>3, <1>19, <1>20 DEF IInv, AlarmInv
  <2>4. alarm > 0 => timers' # <<>> /\ timers'[1].left <= alarm
    BY <1>3, <1>19, <1>20, <2>1 DEF IInv, AlarmInv
  <2> QED BY <1>0, <2>2, <2>3, <2>4 DEF AlarmInv
<1> QED BY <1>5, <1>7, <1>13, <1>14, <1>15, <1>18, <1>21 DEF IInv

\* A queue that is split behind its first n entries.
LEMMA SplitProperties ==
  ASSUME NEW q \in Seq(Entry), NEW n \in 0 .. Len(q)
  PROVE  /\ SubSeq(q, 1, n) \in Seq(Entry) /\ Len(SubSeq(q, 1, n)) = n
         /\ \A i \in 1 .. n : SubSeq(q, 1, n)[i] = q[i]
         /\ SubSeq(q, n + 1, Len(q)) \in Seq(Entry)
         /\ Len(SubSeq(q, n + 1, Len(q))) = Len(q) - n
         /\ \A i \in 1 .. Len(q) - n : SubSeq(q, n + 1, Len(q))[i] = q[n + i]
<1>1. \A i \in 1 .. Len(q) : q[i] \in Entry
  BY ElementOfSeq
<1>2. Len(q) \in Nat /\ n \in Nat /\ n <= Len(q)
  OBVIOUS
<1>3. /\ SubSeq(q, 1, n) \in Seq(Entry) /\ Len(SubSeq(q, 1, n)) = n
      /\ \A i \in 1 .. n : SubSeq(q, 1, n)[i] = q[i]
  BY <1>1, <1>2, SubSeqProperties
<1>4. /\ SubSeq(q, n + 1, Len(q)) \in Seq(Entry)
      /\ Len(SubSeq(q, n + 1, Len(q))) = Len(q) - n
      /\ \A i \in 1 .. Len(q) - n : SubSeq(q, n + 1, Len(q))[i] = q[n + i]
  BY <1>1, <1>2, SubSeqProperties
<1> QED BY <1>3, <1>4

\* What HandleRead takes: the entries that have expired, and no other.
LEMMA ExpiredProperties ==
  ASSUME NEW q \in Seq(Entry), Ordered(q), NEW n,
         n = Cardinality({i \in DOMAIN q : IsExpired(q[i])})
  PROVE  /\ n \in 0 .. Len(q)
         /\ \A i \in 1 .. n : q[i].left = 0
         /\ SubSeq(q, 1, n) \in Seq(Entry) /\ Len(SubSeq(q, 1, n)) = n
         /\ \A i \in 1 .. n : SubSeq(q, 1, n)[i] = q[i]
         /\ SubSeq(q, n + 1, Len(q)) \in Seq(Entry)
         /\ Len(SubSeq(q, n + 1, Len(q))) = Len(q) - n
         /\ \A i \in 1 .. Len(q) - n : SubSeq(q, n + 1, Len(q))[i] = q[n + i]
<1>0. Len(q) \in Nat /\ DOMAIN q = 1 .. Len(q)
  OBVIOUS
<1>1. \A i \in 1 .. Len(q) : q[i] \in Entry /\ q[i].left \in Nat
  BY ElementOfSeq, EntryFields
<1>2. {i \in DOMAIN q : IsExpired(q[i])} = {i \in DOMAIN q : q[i].left <= 0}
  BY <1>0, <1>1 DEF IsExpired
<1>3. n \in 0 .. Len(q) /\ \A i \in 1 .. Len(q) : q[i].left <= 0 <=> i <= n
  BY <1>2, EarlyPrefix
<1>4. n \in Nat /\ n <= Len(q)
  BY <1>0, <1>3
<1>5. \A i \in 1 .. n : q[i].left = 0
  BY <1>0, <1>1, <1>3
<1> QED BY <1>3, <1>5, SplitProperties

LEMMA HandleReadKeeps ==
  ASSUME IInv, HandleRead
  PROVE  IInv'
<1> DEFINE n == Cardinality({i \in DOMAIN timers : IsExpired(timers[i])})
<1>1. readable /\ timers \in Seq(Entry) /\ Ordered(timers) /\ OnceEach(timers)
  BY DEF HandleRead, IInv, TypeOK, Disjoint, AlarmInv
<1>0. /\ phase = "idle" /\ adding = Idle /\ due' = FALSE /\ readable' = FALSE
      /\ expired' = SubSeq(timers, 1, n) /\ timers' = SubSeq(timers, n + 1, Len(timers))
      /\ pos' = 1 /\ phase' = "batch"
      /\ UNCHANGED <<alarm, running, adding, handle, plan, fired, age>>
  BY <1>1 DEF HandleRead, history
<1>2. /\ n \in 0 .. Len(timers)
      /\ \A i \in 1 .. n : timers[i].left = 0
      /\ expired' \in Seq(Entry) /\ Len(expired') = n
      /\ \A i \in 1 .. n : expired'[i] = timers[i]
      /\ timers' \in Seq(Entry) /\ Len(timers') = Len(timers) - n
      /\ \A i \in 1 .. Len(timers) - n : timers'[i] = timers[n + i]
  BY <1>0, <1>1, ExpiredProperties
<1> HIDE DEF n
<1>3. n \in Nat /\ Len(timers) \in Nat /\ n <= Len(timers)
  BY <1>1, <1>2
<1>4. TypeOK'
  BY <1>0, <1>2 DEF IInv, TypeOK
<1>5. \A i \in 1 .. Len(timers') : n + i \in 1 .. Len(timers) /\ timers'[i] = timers[n + i]
  BY <1>2, <1>3
<1>6. \A i \in 1 .. Len(expired') : i \in 1 .. Len(timers) /\ i <= n /\ expired'[i] = timers[i]
  BY <1>2, <1>3
<1>7. Ordered(timers')
  <2> SUFFICES ASSUME NEW i \in 1 .. Len(timers'), NEW j \in 1 .. Len(timers'), i <= j
               PROVE  timers'[i].left <= timers'[j].left
    BY DEF Ordered
  <2>1. n + i <= n + j
    BY <1>3
  <2> QED BY <1>1, <1>5, <2>1 DEF Ordered
<1>8. OnceEach(timers')
  <2> SUFFICES ASSUME NEW i \in 1 .. Len(timers'), NEW j \in 1 .. Len(timers'),
                      timers'[i].id = timers'[j].id
               PROVE  i = j
    BY DEF OnceEach
  <2>1. n + i = n + j
    BY <1>1, <1>5 DEF OnceEach
  <2> QED BY <1>3, <2>1
<1>9. OnceEach(expired')
  BY <1>1, <1>6 DEF OnceEach
<1>10. Apart(timers', expired')
  <2> SUFFICES ASSUME NEW i \in 1 .. Len(timers'), NEW j \in 1 .. Len(expired')
               PROVE  timers'[i].id # expired'[j].id
    BY DEF Apart, Holds
  <2>1. n + i # j
    BY <1>3, <1>6
  <2> QED BY <1>1, <1>5, <1>6, <2>1 DEF OnceEach
<1>11. Disjoint'
  BY <1>7, <1>8, <1>9, <1>10 DEF Disjoint
<1>12. adding.step = "none"
  BY <1>0 DEF Idle
<1>13. ASSUME NEW i \in 1 .. Len(timers) PROVE Queued(timers[i]) /\ handle[timers[i].id] # "new"
                                            /\ timers[i].id \in Timers
  BY <1>1, <1>12, ElementOfSeq, EntryFields DEF IInv, EntriesInv, Queued
<1>14. ASSUME NEW x, Queued(x) PROVE Queued(x)'
  BY <1>0, <1>14 DEF Queued, Due
<1>15. ASSUME NEW i \in 1 .. Len(expired') PROVE Batched(i)'
  <2> DEFINE e == timers[i]
  <2>1. expired'[i] = e /\ e.left = 0 /\ e.id \in Timers /\ handle[e.id] # "new" /\ Queued(e)
    BY <1>2, <1>6, <1>13
  <2>2. Waits(i)'
    BY <1>0, <1>3, <1>6 DEF Waits
  <2> HIDE DEF e
  <2>3. age[e.id] \in Nat
    BY <2>1, TimerAssumption DEF IInv, TypeOK
  <2>4. age[e.id] + 0 = age[e.id]
    BY <2>3
  <2> QED BY <1>0, <2>1, <2>2, <2>4 DEF Queued, Batched, Due
<1>16. ASSUME NEW x, Holds(timers', x) PROVE Queued(x)'
  <2>1. PICK i \in 1 .. Len(timers') : x = timers'[i]
    BY <1>16 DEF Holds
  <2>2. Queued(x)
    BY <1>5, <1>13, <2>1
  <2> QED BY <1>14, <2>2
<1>17. EntriesInv'
  BY <1>15, <1>16 DEF EntriesInv, Holds
<1>18. TurnInv'
  BY <1>0, <1>2, <1>3 DEF IInv, TurnInv
<1>19. AddingInv'
  BY <1>0, <1>12 DEF AddingInv
<1>20. ASSUME NEW t \in Timers PROVE InQueue(t)' \/ ToCall(t)' <=> InQueue(t) \/ ToCall(t)
  <2>1. ~ToCall(t)
    <3>1. expired = <<>> /\ Len(<<>>) = 0
      BY <1>0 DEF IInv, TurnInv
    <3> QED BY <3>1 DEF ToCall
  <2>2. ASSUME InQueue(t)' \/ ToCall(t)' PROVE InQueue(t)
    BY <1>5, <1>6, <2>2 DEF InQueue, ToCall
  <2>3. ASSUME InQueue(t) PROVE InQueue(t)' \/ ToCall(t)'
    <3>1. PICK i \in 1 .. Len(timers) : timers[i].id = t
      BY <2>3 DEF InQueue
    <3>2. CASE i <= n
      <4>1. i \in 1 .. Len(expired') /\ expired'[i].id = t /\ i >= pos'
        BY <1>0, <1>2, <1>3, <3>1, <3>2
      <4> QED BY <4>1 DEF ToCall
    <3>3. CASE ~(i <= n)
      <4>1. i - n \in 1 .. Len(timers') /\ i - n \in 1 .. Len(timers) - n /\ n + (i - n) = i
        BY <1>2, <1>3, <3>3
      <4>2. timers'[i - n].id = t
        BY <1>2, <3>1, <4>1
      <4> QED BY <4>1, <4>2 DEF InQueue
    <3> QED BY <3>2, <3>3
  <2> QED BY <2>1, <2>2, <2>3
<1>21. HeldInv'
  BY <1>0, <1>20 DEF IInv, HeldInv
<1>22. AlarmInv'
  BY <1>0, <1>1 DEF IInv, AlarmInv
<1> QED BY <1>4, <1>11, <1>17, <1>18, <1>19, <1>21, <1>22 DEF IInv

\* An entry one tick later.
Aged(e) == [e EXCEPT !.left = IF @ = 0 THEN 0 ELSE @ - 1]

LEMMA AgedFields ==
  ASSUME NEW e \in Entry
  PROVE  /\ Aged(e) \in Entry
         /\ Aged(e).id = e.id /\ Aged(e).interval = e.interval
         /\ Aged(e).left = IF e.left = 0 THEN 0 ELSE e.left - 1
<1>1. e.left \in 0 .. MaxDelay
  BY EntryFields DEF Time
<1>2. (IF e.left = 0 THEN 0 ELSE e.left - 1) \in 0 .. MaxDelay
  BY <1>1, TimerAssumption
<1> QED BY <1>2 DEF Aged, Entry

LEMMA TickKeeps ==
  ASSUME IInv, Tick
  PROVE  IInv'
<1>0. /\ timers' = [i \in DOMAIN timers |-> Aged(timers[i])]
      /\ alarm' = IF alarm = 0 THEN 0 ELSE alarm - 1
      /\ readable' = (readable \/ alarm = 1)
      /\ age' = [t \in Timers |-> IF age[t] = MaxDelay THEN MaxDelay ELSE age[t] + 1]
      /\ UNCHANGED <<due, phase, expired, pos, running, adding, handle, plan, fired>>
  BY DEF Tick, Aged, batch
<1>1. timers \in Seq(Entry) /\ Len(timers) \in Nat /\ DOMAIN timers = 1 .. Len(timers)
  BY DEF IInv, TypeOK
<1>2. \A i \in 1 .. Len(timers) : timers[i] \in Entry /\ timers[i].left \in Nat
                                /\ timers[i].id \in Timers
  BY <1>1, ElementOfSeq, EntryFields
<1>3. timers' \in Seq(Entry) /\ Len(timers') = Len(timers)
  <2>1. \A i \in 1 .. Len(timers) : Aged(timers[i]) \in Entry
    BY <1>2, AgedFields
  <2>2. [i \in 1 .. Len(timers) |-> Aged(timers[i])] \in Seq(Entry)
    BY <1>1, <2>1, IsASeq
  <2> QED BY <1>0, <1>1, <2>2
<1>4. \A i \in 1 .. Len(timers) :
        /\ timers'[i].id = timers[i].id /\ timers'[i].interval = timers[i].interval
        /\ timers'[i].left = IF timers[i].left = 0 THEN 0 ELSE timers[i].left - 1
  BY <1>0, <1>1, <1>2, AgedFields
<1>5. alarm \in 0 .. MaxDelay /\ alarm' \in 0 .. MaxDelay /\ alarm \in Nat
  BY <1>0, TimerAssumption DEF IInv, TypeOK
<1>6. \A t \in Timers : /\ age[t] \in 0 .. MaxDelay /\ age'[t] \in 0 .. MaxDelay
                        /\ age'[t] = IF age[t] = MaxDelay THEN MaxDelay ELSE age[t] + 1
  BY <1>0, TimerAssumption DEF IInv, TypeOK
<1>7. age' \in [Timers -> 0 .. MaxDelay]
  BY <1>0, <1>6
<1>8. readable' \in BOOLEAN
  BY <1>0
<1>9. TypeOK'
  BY <1>0, <1>3, <1>5, <1>7, <1>8 DEF IInv, TypeOK
<1>10. Ordered(timers')
  <2> SUFFICES ASSUME NEW i \in 1 .. Len(timers), NEW j \in 1 .. Len(timers), i <= j
               PROVE  timers'[i].left <= timers'[j].left
    BY <1>3 DEF Ordered
  <2>1. timers[i].left <= timers[j].left
    BY DEF IInv, Disjoint, Ordered
  <2>2. timers[i].left \in Nat /\ timers[j].left \in Nat
    BY <1>2
  <2>3. /\ timers'[i].left = IF timers[i].left = 0 THEN 0 ELSE timers[i].left - 1
        /\ timers'[j].left = IF timers[j].left = 0 THEN 0 ELSE timers[j].left - 1
    BY <1>4
  <2> QED BY <2>1, <2>2, <2>3
<1>11. OnceEach(timers')
  BY <1>3, <1>4 DEF IInv, Disjoint, OnceEach
<1>12. Apart(timers', expired')
  <2> SUFFICES ASSUME NEW i \in 1 .. Len(timers), NEW j \in 1 .. Len(expired)
               PROVE  timers'[i].id # expired[j].id
    BY <1>0, <1>3 DEF Apart, Holds
  <2> QED BY <1>4 DEF IInv, Disjoint, Apart, Holds
<1>13. Disjoint'
  BY <1>0, <1>10, <1>11, <1>12 DEF IInv, Disjoint
<1>14. \A t \in Timers : Due(t)' = Due(t) /\ Due(t) \in 0 .. MaxDelay
  BY <1>0 DEF Due, IInv, TypeOK
<1>15. ASSUME NEW i \in 1 .. Len(timers) PROVE Queued(timers[i])'
  <2> DEFINE t == timers[i].id
  <2>1. t \in Timers /\ Queued(timers[i])
    BY <1>2 DEF IInv, EntriesInv
  <2>2. age'[t] + timers'[i].left >= Due(t)
    <3>1. age[t] + timers[i].left >= Due(t)
      BY <2>1 DEF Queued
    <3> HIDE DEF t
    <3>2. age[t] \in 0 .. MaxDelay /\ Due(t) \in 0 .. MaxDelay /\ timers[i].left \in Nat
      BY <1>2, <1>6, <1>14, <2>1
    <3>3. timers'[i].left = IF timers[i].left = 0 THEN 0 ELSE timers[i].left - 1
      BY <1>4
    <3>4. age'[t] = IF age[t] = MaxDelay THEN MaxDelay ELSE age[t] + 1
      BY <1>6, <2>1
    <3>5. timers'[i].left \in Nat
      BY <3>2, <3>3
    <3>6. CASE age[t] = MaxDelay
      BY <3>2, <3>4, <3>5, <3>6, TimerAssumption
    <3>7. CASE age[t] # MaxDelay
      BY <3>1, <3>2, <3>3, <3>4, <3>7
    <3> QED BY <3>6, <3>7
  <2> QED BY <1>0, <1>4, <1>14, <2>1, <2>2 DEF Queued
<1>16. ASSUME NEW i \in 1 .. Len(expired) PROVE Batched(i)'
  <2> DEFINE t == expired[i].id
  <2>1. t \in Timers /\ Batched(i)
    BY ElementOfSeq, EntryFields DEF IInv, TypeOK, EntriesInv
  <2>2. Waits(i)' <=> Waits(i)
    BY <1>0 DEF Waits
  <2>3. age[t] >= Due(t) => age'[t] >= Due(t)
    <3> HIDE DEF t
    <3> QED BY <1>6, <1>14, <2>1, TimerAssumption
  <2> QED BY <1>0, <1>14, <2>1, <2>2, <2>3 DEF Batched
<1>17. EntriesInv'
  BY <1>0, <1>3, <1>15, <1>16 DEF EntriesInv
<1>18. TurnInv'
  BY <1>0 DEF IInv, TurnInv
<1>19. timers # <<>> => 1 \in 1 .. Len(timers)
  BY <1>1, EmptySeq
<1>20. timers' # <<>> <=> timers # <<>>
  BY <1>1, <1>3, EmptySeq
<1>21. ASSUME timers # <<>>
       PROVE  /\ timers[1].left \in Nat
              /\ timers'[1].left = IF timers[1].left = 0 THEN 0 ELSE timers[1].left - 1
  BY <1>2, <1>4, <1>19, <1>21
<1>22. AddingInv'
  <2>1. adding # Idle => phase \in {"idle", "callback"} /\ handle[adding.id] = "new"
    BY DEF IInv, AddingInv
  <2>2. adding.step = "inserted" => \E i \in 1 .. Len(timers') : timers'[i].id = adding.id
    BY <1>3, <1>4 DEF IInv, AddingInv
  <2>3. ASSUME adding.step = "measured", ~adding.reset
        PROVE  timers' # <<>> /\ timers'[1].left <= plan[adding.id].delay
    <3>1. timers # <<>> /\ timers[1].left <= plan[adding.id].delay
      BY <2>3 DEF IInv, AddingInv
    <3>2. adding.id \in Timers
      BY <2>3, AddingFields DEF IInv, Call
    <3>3. plan[adding.id].delay \in Nat
      BY <3>2, TimerAssumption DEF IInv, TypeOK
    <3> QED BY <1>20, <1>21, <3>1, <3>3
  <2> QED BY <1>0, <2>1, <2>2, <2>3 DEF AddingInv
<1>23. \A t \in Timers : (InQueue(t)' <=> InQueue(t)) /\ (ToCall(t)' <=> ToCall(t))
  BY <1>0, <1>3, <1>4 DEF InQueue, ToCall
<1>24. HeldInv'
  BY <1>0, <1>23 DEF IInv, HeldInv
<1>25. Covered => Covered'
  <2> SUFFICES ASSUME timers # <<>>, Covered
               PROVE  readable' \/ (alarm' > 0 /\ alarm' <= ToTimespec(timers'[1].left))
    BY <1>20 DEF Covered
  <2>1. CASE readable
    BY <1>0, <2>1
  <2>2. CASE ~readable
    <3>1. alarm > 0 /\ alarm <= ToTimespec(timers[1].left)
      BY <2>2 DEF Covered
    <3>2. CASE alarm = 1
      BY <1>0, <3>2
    <3>3. CASE alarm # 1
      <4>1. timers[1].left > 1 /\ alarm <= timers[1].left
        BY <1>5, <1>21, <3>1, <3>3 DEF ToTimespec
      <4>2. ToTimespec(timers'[1].left) = timers[1].left - 1
        BY <1>21, <4>1 DEF ToTimespec
      <4>3. alarm' = alarm - 1 /\ alarm' > 0
        BY <1>0, <1>5, <3>1, <3>3
      <4>4. alarm' <= ToTimespec(timers'[1].left)
        BY <1>5, <1>21, <4>1, <4>2, <4>3
      <4> QED BY <4>3, <4>4
    <3> QED BY <3>2, <3>3
  <2> QED BY <2>1, <2>2
<1>26. AlarmInv'
  <2>1. ASSUME readable' PROVE alarm' = 0 /\ timers' # <<>> /\ timers'[1].left = 0
    <3>1. CASE readable
      BY <1>0, <1>20, <1>21, <3>1 DEF IInv, AlarmInv
    <3>2. CASE alarm = 1
      <4>1. timers # <<>> /\ timers[1].left <= 1
        BY <3>2 DEF IInv, AlarmInv
      <4> QED BY <1>0, <1>20, <1>21, <3>2, <4>1
    <3> QED BY <1>0, <2>1, <3>1, <3>2
  <2>2. ASSUME alarm' > 0 PROVE timers' # <<>> /\ timers'[1].left <= alarm'
    <3>1. alarm > 0 /\ alarm' = alarm - 1
      BY <1>0, <1>5, <2>2
    <3>2. timers # <<>> /\ timers[1].left <= alarm
      BY <3>1 DEF IInv, AlarmInv
    <3> QED BY <1>5, <1>20, <1>21, <2>2, <3>1, <3>2
  <2>3. due => phase = "idle" /\ readable' /\ (adding # Idle => ~adding.reset)
    BY <1>0 DEF IInv, AlarmInv
  <2>4. phase = "idle" /\ ~(adding.step = "inserted" /\ adding.reset) => Covered'
    BY <1>25 DEF IInv, AlarmInv
  <2> QED BY <1>0, <2>1, <2>2, <2>3, <2>4 DEF AlarmInv
<1> QED BY <1>9, <1>13, <1>17, <1>18, <1>22, <1>24, <1>26 DEF IInv

LEMMA NextInv == IInv /\ [Next]_vars => IInv'
<1> SUFFICES ASSUME IInv, [Next]_vars PROVE IInv'
  OBVIOUS
<1>1. ASSUME NEW t \in Timers, RunAfter(t) PROVE IInv'
  <2>1. PICK delay \in Time : AddTimer(t, delay, 0)
    BY <1>1 DEF RunAfter, Time
  <2>2. 0 \in Time
    BY TimerAssumption DEF Time
  <2> QED BY <2>1, <2>2, AddTimerKeeps
<1>2. ASSUME NEW t \in Timers, RunEvery(t) PROVE IInv'
  <2>1. PICK interval \in 1 .. MaxDelay : AddTimer(t, interval, interval)
    BY <1>2 DEF RunEvery
  <2>2. interval \in Time
    BY TimerAssumption DEF Time
  <2> QED BY <2>1, <2>2, AddTimerKeeps
<1>3. ASSUME NEW t \in Timers, Cancel(t) PROVE IInv'
  BY <1>3, CancelKeeps
<1>4. CASE AddInserts
  BY <1>4, AddInsertsKeeps
<1>5. CASE AddReturns
  BY <1>5, AddReturnsKeeps
<1>6. CASE PollTimer
  BY <1>6, PollTimerKeeps
<1>7. CASE HandleRead
  BY <1>7, HandleReadKeeps
<1>8. CASE SkipCancelled
  BY <1>8, SkipCancelledKeeps
<1>9. CASE CallTimer
  BY <1>9, CallTimerKeeps
<1>10. CASE CallReturns
  BY <1>10, CallReturnsKeeps
<1>11. CASE Reinsert
  BY <1>11, ReinsertKeeps
<1>12. CASE Rearm
  BY <1>12, RearmKeeps
<1>13. CASE Tick
  BY <1>13, TickKeeps
<1>14. CASE UNCHANGED vars
  <2>1. UNCHANGED <<timers, alarm, readable, due, phase, expired, pos, running, adding, handle,
                    plan, fired, age>>
    BY <1>14 DEF vars, queue, batch, history
  <2>2. TypeOK' /\ Disjoint'
    BY <2>1 DEF IInv, TypeOK, Disjoint, Ordered, OnceEach, Apart, Holds
  <2>3. EntriesInv'
    BY <2>1 DEF IInv, EntriesInv, Queued, Batched, Due, Waits
  <2>4. TurnInv' /\ AddingInv' /\ AlarmInv'
    BY <2>1 DEF IInv, TurnInv, AddingInv, AlarmInv, Covered
  <2>5. HeldInv'
    BY <2>1 DEF IInv, HeldInv, InQueue, ToCall
  <2> QED BY <2>2, <2>3, <2>4, <2>5 DEF IInv
<1> QED BY <1>1, <1>2, <1>3, <1>4, <1>5, <1>6, <1>7, <1>8, <1>9, <1>10, <1>11, <1>12,
          <1>13, <1>14 DEF Next, LoopStep, User

LEMMA InductiveInv == Spec => []IInv
BY InitInv, NextInv, PTL DEF Spec

-----------------------------------------------------------------------------
(* What the queue promises                                                 *)

\* Of indices that agree there is at most one.
LEMMA AtMostOne ==
  ASSUME NEW S, \A i, j \in S : i = j
  PROVE  Cardinality(S) = IF S = {} THEN 0 ELSE 1
<1>1. CASE S = {}
  BY <1>1, FS_EmptySet
<1>2. CASE S # {}
  <2>1. PICK i \in S : TRUE
    BY <1>2
  <2>2. S = {i}
    BY <2>1
  <2> QED BY <1>2, <2>2, FS_Singleton
<1> QED BY <1>1, <1>2

LEMMA PlacesCount ==
  ASSUME IInv, NEW t \in Timers
  PROVE  Places(t) = IF InQueue(t) \/ ToCall(t) THEN 1 ELSE 0
<1> DEFINE A == {i \in DOMAIN timers : timers[i].id = t}
           B == {i \in DOMAIN expired : expired[i].id = t /\ (i >= pos \/ expired[i].interval > 0)}
<1>1. DOMAIN timers = 1 .. Len(timers) /\ DOMAIN expired = 1 .. Len(expired)
  BY DEF IInv, TypeOK
<1>2. A # {} <=> InQueue(t)
  BY <1>1 DEF InQueue
<1>3. B # {} <=> ToCall(t)
  BY <1>1 DEF ToCall
<1>4. \A i, j \in A : i = j
  BY <1>1 DEF IInv, Disjoint, OnceEach
<1>5. \A i, j \in B : i = j
  BY <1>1 DEF IInv, Disjoint, OnceEach
<1>6. ~(InQueue(t) /\ ToCall(t))
  <2> SUFFICES ASSUME NEW i \in 1 .. Len(timers), NEW j \in 1 .. Len(expired),
                      timers[i].id = t, expired[j].id = t
               PROVE  FALSE
    BY DEF InQueue, ToCall
  <2>1. Holds(timers, timers[i]) /\ Holds(expired, expired[j])
    BY DEF Holds
  <2> QED BY <2>1 DEF IInv, Disjoint, Apart
<1>7. Places(t) = Cardinality(A) + Cardinality(B)
  BY DEF Places
<1> HIDE DEF A, B
<1>8. Cardinality(A) = IF InQueue(t) THEN 1 ELSE 0
  BY <1>2, <1>4, AtMostOne
<1>9. Cardinality(B) = IF ToCall(t) THEN 1 ELSE 0
  BY <1>3, <1>5, AtMostOne
<1> QED BY <1>6, <1>7, <1>8, <1>9

\* However callbacks add and cancel timers while the clock moves, a timer that is
\* to fire is held exactly once, by the map or by HandleRead's batch, one that is
\* done is held nowhere, and no dispatch of the timerfd is in vain.
THEOREM TimersAreKept == Spec => []TimerInv
<1>1. IInv => TimerInv
  <2> SUFFICES ASSUME IInv PROVE TimerInv
    OBVIOUS
  <2>1. TypeOK
    BY DEF IInv
  <2>2. NoTimerIsLost
    <3> SUFFICES ASSUME NEW t \in Timers, handle[t] = "live"
                 PROVE  Places(t) = IF plan[t].interval > 0 \/ ~fired[t] \/ running = t
                                    THEN 1 ELSE 0
      BY DEF NoTimerIsLost
    <3>1. InQueue(t) \/ ToCall(t) <=> plan[t].interval > 0 \/ ~fired[t] \/ running = t
      BY DEF IInv, HeldInv
    <3> QED BY <3>1, PlacesCount
  <2>3. DispatchFindsExpired
    <3> SUFFICES ASSUME due PROVE readable /\ timers # <<>> /\ IsExpired(Head(timers))
      BY DEF DispatchFindsExpired
    <3>1. readable /\ timers # <<>> /\ timers[1].left = 0
      BY DEF IInv, AlarmInv
    <3>2. Head(timers) = timers[1]
      BY <3>1, HeadIsFirst DEF IInv, TypeOK
    <3> QED BY <3>1, <3>2 DEF IsExpired
  <2> QED BY <2>1, <2>2, <2>3 DEF TimerInv
<1> QED BY <1>1, InductiveInv, PTL

\* Whenever the loop may go to sleep the timerfd wakes it no later than the first
\* entry expires, though AddTimer decides to set it, and HandleRead sets it, from
\* other readings of the clock than those that order the queue.
THEOREM SleepIsBounded == Spec => []AlarmCoversQueue
<1>1. IInv => AlarmCoversQueue
  <2> SUFFICES ASSUME IInv, phase = "idle", adding = Idle, timers # <<>>
               PROVE  readable \/ (alarm > 0 /\ alarm <= ToTimespec(Head(timers).left))
    BY DEF AlarmCoversQueue
  <2>1. Covered
    BY DEF IInv, AlarmInv, Idle
  <2>2. Head(timers) = timers[1]
    BY HeadIsFirst DEF IInv, TypeOK
  <2> QED BY <2>1, <2>2 DEF Covered
<1> QED BY <1>1, InductiveInv, PTL

\* No callback starts before the delay or the interval it was promised is over.
THEOREM TimersAreNeverEarly == Spec => NeverEarly
<1> DEFINE Step ==
      \A t \in Timers :
        running' = t /\ running # t =>
          age[t] >= IF fired[t] THEN plan[t].interval ELSE plan[t].delay
<1>1. IInv /\ [Next]_vars => Step \/ UNCHANGED vars
  <2> SUFFICES ASSUME IInv, Next, NEW t \in Timers, running' = t, running # t
               PROVE  age[t] >= IF fired[t] THEN plan[t].interval ELSE plan[t].delay
    OBVIOUS
  <2>1. CASE CallTimer
    <3>1. phase = "batch" /\ pos \in 1 .. Len(expired) /\ expired[pos].id = t
      BY <2>1 DEF CallTimer, IInv, TypeOK, TurnInv
    <3>2. Batched(pos) /\ Waits(pos)
      BY <3>1 DEF IInv, EntriesInv, Waits
    <3> QED BY <3>1, <3>2 DEF Batched, Due
  <2>2. CASE CallReturns
    BY <2>2, TimerAssumption DEF CallReturns
  <2>3. ASSUME NEW u \in Timers, RunAfter(u) \/ RunEvery(u) \/ Cancel(u) PROVE UNCHANGED running
    BY <2>3 DEF RunAfter, RunEvery, AddTimer, Cancel, batch
  <2>4. CASE AddInserts \/ AddReturns \/ PollTimer \/ HandleRead \/ SkipCancelled
    BY <2>4 DEF AddInserts, AddReturns, PollTimer, HandleRead, SkipCancelled, batch
  <2>5. CASE Reinsert \/ Rearm \/ Tick
    BY <2>5 DEF Reinsert, Rearm, Tick, batch
  <2> QED BY <2>1, <2>2, <2>3, <2>4, <2>5 DEF Next, LoopStep, User
<1> QED BY <1>1, InductiveInv, PTL DEF Spec, NeverEarly

\* Once a timer is cancelled its callback does not start any more, wherever its
\* entry is: in the map, in the batch, or the one whose callback runs.
THEOREM CancellationIsFinal == Spec => CancelIsFinal
<1>1. IInv /\ [Next]_vars =>
        (\A t \in Timers : handle[t] = "cancelled" => running' # t \/ running = t)
  <2> SUFFICES ASSUME IInv, [Next]_vars,
                      NEW t \in Timers, handle[t] = "cancelled", running' = t, running # t
               PROVE  FALSE
    OBVIOUS
  <2>1. CASE CallTimer
    BY <2>1 DEF CallTimer, Cancelled
  <2>2. CASE CallReturns
    BY <2>2, TimerAssumption DEF CallReturns
  <2>3. ASSUME NEW u \in Timers, RunAfter(u) \/ RunEvery(u) \/ Cancel(u) PROVE UNCHANGED running
    BY <2>3 DEF RunAfter, RunEvery, AddTimer, Cancel, batch
  <2>4. CASE AddInserts \/ AddReturns \/ PollTimer \/ HandleRead \/ SkipCancelled
    BY <2>4 DEF AddInserts, AddReturns, PollTimer, HandleRead, SkipCancelled, batch
  <2>5. CASE Reinsert \/ Rearm \/ Tick \/ UNCHANGED vars
    BY <2>5 DEF Reinsert, Rearm, Tick, batch, vars
  <2> QED BY <2>1, <2>2, <2>3, <2>4, <2>5 DEF Next, LoopStep, User
<1> QED BY <1>1, InductiveInv, PTL DEF Spec, CancelIsFinal

-----------------------------------------------------------------------------
(* The loop never sleeps on work                                           *)

\* A wake-up is there or on its way.
WakeIsDue == counter > 0 \/ \E t \in Threads : pc[t] = "wake"

\* The strengthening: a wake-up is due from the push on, not only when the loop
\* sleeps, but for the stretch from HandleWakeup to the swap, where the functors
\* will be taken without one; and for a request to quit once it was not seen.
WorkIsAnnounced ==
  /\ pending # <<>> /\ stage \in {"before", "test", "poll", "run", "call"} => WakeIsDue
  /\ quit /\ stage = "poll" => WakeIsDue

WakeInv == LoopTypeOK /\ WorkIsAnnounced

LEMMA WakeInit == LoopInit => WakeInv
<1> SUFFICES ASSUME LoopInit PROVE WakeInv OBVIOUS
<1>1. <<>> \in Seq(Functors) OBVIOUS
<1>2. 0 \in 0 .. MaxCount /\ 0 \in 0 .. MaxPosts BY LoopAssumption
<1>3. LoopTypeOK BY <1>1, <1>2 DEF LoopInit, LoopTypeOK
<1> QED BY <1>3 DEF LoopInit, WakeInv, WorkIsAnnounced

\* The counter does not fall, and is positive afterwards, full or not.
LEMMA WakeupCounts ==
  ASSUME LoopTypeOK, Wakeup
  PROVE  counter' \in 0 .. MaxCount /\ counter' > 0
BY LoopAssumption DEF LoopTypeOK, Wakeup

LEMMA AgainIsFunctor == Again \in Functors
BY DEF Functors

LEMMA PushKeepsWakeInv ==
  ASSUME WakeInv, NEW t \in Threads, Push(t)
  PROVE  WakeInv'
<1>1. <<t, posted[t] + 1>> \in Functors /\ posted[t] + 1 \in 0 .. MaxPosts
  BY LoopAssumption DEF WakeInv, LoopTypeOK, Push, Functors
<1>2. pending' \in Seq(Functors) BY <1>1, AppendProperties DEF WakeInv, LoopTypeOK, Push
<1>3. LoopTypeOK' BY <1>1, <1>2 DEF WakeInv, LoopTypeOK, Push
<1>4. pc'[t] = "wake" BY DEF WakeInv, LoopTypeOK, Push
<1> QED BY <1>3, <1>4 DEF WakeInv, WorkIsAnnounced, WakeIsDue

LEMMA QuitFromKeepsWakeInv ==
  ASSUME WakeInv, NEW t \in Threads, QuitFrom(t)
  PROVE  WakeInv'
<1>1. LoopTypeOK' BY DEF WakeInv, LoopTypeOK, QuitFrom
<1>2. pc'[t] = "wake" BY DEF WakeInv, LoopTypeOK, QuitFrom
<1> QED BY <1>1, <1>2 DEF WakeInv, WorkIsAnnounced, WakeIsDue

LEMMA WakeKeepsWakeInv ==
  ASSUME WakeInv, NEW t \in Threads, Wake(t)
  PROVE  WakeInv'
<1>1. counter' \in 0 .. MaxCount /\ counter' > 0 BY WakeupCounts DEF WakeInv, Wake
<1>2. LoopTypeOK' BY <1>1 DEF WakeInv, LoopTypeOK, Wake
<1> QED BY <1>1, <1>2 DEF WakeInv, WorkIsAnnounced, WakeIsDue

LEMMA QueueAgainKeepsWakeInv ==
  ASSUME WakeInv, QueueAgain
  PROVE  WakeInv'
<1>1. counter' \in 0 .. MaxCount /\ counter' > 0 BY WakeupCounts DEF WakeInv, QueueAgain
<1>2. pending' \in Seq(Functors)
  BY AgainIsFunctor, AppendProperties DEF WakeInv, LoopTypeOK, QueueAgain
<1>3. LoopTypeOK' BY <1>1, <1>2 DEF WakeInv, LoopTypeOK, QueueAgain
<1> QED BY <1>1, <1>3 DEF WakeInv, WorkIsAnnounced, WakeIsDue

\* The steps of the loop's own thread.
LEMMA LoopThreadKeepsWakeInv ==
  ASSUME WakeInv, Loop \/ PollOther \/ FunctorThrows \/ QuitHere
  PROVE  WakeInv'
<1> USE DEF WakeInv, At, Goto
<1>1. CASE StartLoop
  BY <1>1 DEF StartLoop, LoopTypeOK, WorkIsAnnounced, WakeIsDue
<1>2. CASE Test
  BY <1>2 DEF Test, LoopTypeOK, WorkIsAnnounced, WakeIsDue
<1>3. CASE PollWakeup
  BY <1>3 DEF PollWakeup, LoopTypeOK, WorkIsAnnounced
<1>4. CASE PollOther
  BY <1>4 DEF PollOther, LoopTypeOK, WorkIsAnnounced
<1>5. CASE HandleWakeup
  BY <1>5, LoopAssumption DEF HandleWakeup, LoopTypeOK, WorkIsAnnounced
<1>6. CASE DispatchDone
  BY <1>6 DEF DispatchDone, LoopTypeOK, WorkIsAnnounced
<1>7. CASE SwapPending
  BY <1>7 DEF SwapPending, LoopTypeOK, WorkIsAnnounced
<1>8. CASE CallFunctor
  <2>1. Head(functors) \in Functors /\ Tail(functors) \in Seq(Functors)
    BY <1>8, HeadTailProperties DEF CallFunctor, LoopTypeOK
  <2> QED BY <1>8, <2>1 DEF CallFunctor, LoopTypeOK, WorkIsAnnounced, WakeIsDue
<1>9. CASE FunctorReturns \/ RunDone
  BY <1>9 DEF FunctorReturns, RunDone, LoopTypeOK, WorkIsAnnounced, WakeIsDue
<1>10. CASE FunctorThrows
  BY <1>10 DEF FunctorThrows, LoopTypeOK, WorkIsAnnounced
<1>11. CASE QuitHere
  BY <1>11 DEF QuitHere, InLoopThread, LoopTypeOK, WorkIsAnnounced, WakeIsDue
<1> QED BY <1>1, <1>2, <1>3, <1>4, <1>5, <1>6, <1>7, <1>8, <1>9, <1>10, <1>11
       DEF Loop

LEMMA WakeNext == WakeInv /\ [LoopNext]_loopVars => WakeInv'
<1> SUFFICES ASSUME WakeInv, [LoopNext]_loopVars PROVE WakeInv' OBVIOUS
<1>1. CASE Loop \/ PollOther \/ FunctorThrows \/ QuitHere
  BY <1>1, LoopThreadKeepsWakeInv
<1>2. CASE QueueAgain BY <1>2, QueueAgainKeepsWakeInv
<1>3. CASE \E t \in Threads : Thread(t)
  BY <1>3, PushKeepsWakeInv, QuitFromKeepsWakeInv, WakeKeepsWakeInv DEF Thread
<1>4. CASE UNCHANGED loopVars
  BY <1>4 DEF loopVars, WakeInv, LoopTypeOK, WorkIsAnnounced, WakeIsDue
<1> QED BY <1>1, <1>2, <1>3, <1>4 DEF LoopNext

\* Whatever the threads push and whenever they ask the loop to quit, it does not
\* sleep in epoll_wait on a functor or a request without a wake-up on its way.
THEOREM LoopNeverSleepsOnWork == LoopSpec => []LoopInv
<1>1. ASSUME WakeInv PROVE LoopInv
  <2>1. ASSUME Asleep, pending # <<>> \/ quit PROVE \E t \in Threads : pc[t] = "wake"
    <3>1. WakeIsDue BY <1>1, <2>1 DEF WakeInv, WorkIsAnnounced, Asleep
    <3> QED BY <2>1, <3>1 DEF WakeIsDue, Asleep
  <2> QED BY <1>1, <2>1 DEF LoopInv, WakeInv, NoLostWakeup
<1> QED BY <1>1, WakeInit, WakeNext, PTL DEF LoopSpec

-----------------------------------------------------------------------------
(* Facts about sequences                                                   *)

\* Putting at the end of the second sequence puts at the end of both.
LEMMA AppendToSecond ==
  ASSUME NEW S, NEW s \in Seq(S), NEW t \in Seq(S), NEW e \in S
  PROVE  s \o Append(t, e) = Append(s \o t, e)
<1>1. Append(t, e) \in Seq(S) /\ s \o t \in Seq(S) BY AppendProperties, ConcatProperties
<1>2. s \o Append(t, e) \in Seq(S) /\ Append(s \o t, e) \in Seq(S)
  BY <1>1, AppendProperties, ConcatProperties
<1>3. Len(s \o Append(t, e)) = Len(Append(s \o t, e))
  BY <1>1, AppendProperties, ConcatProperties
<1>4. ASSUME NEW i \in 1 .. Len(s \o Append(t, e))
      PROVE  (s \o Append(t, e))[i] = Append(s \o t, e)[i]
  OBVIOUS
<1> QED BY <1>2, <1>3, <1>4, SeqEqual

\* The first sequence, if there is anything in it, has the head of both.
LEMMA HeadOfFirst ==
  ASSUME NEW S, NEW s \in Seq(S), NEW t \in Seq(S), s # <<>>
  PROVE  /\ s \o t # <<>>
         /\ Head(s \o t) = Head(s)
         /\ Tail(s \o t) = Tail(s) \o t
<1>1. s \o t \in Seq(S) /\ s \o t # <<>> BY ConcatProperties, ConcatEqualIffEmpty
<1>2. Tail(s) \in Seq(S) /\ Tail(s \o t) \in Seq(S) BY <1>1, HeadTailProperties
<1>3. Tail(s) \o t \in Seq(S) BY <1>2, ConcatProperties
<1>4. Len(s) \in Nat \ {0} /\ Len(t) \in Nat BY EmptySeq, LenProperties
<1>5. Len(Tail(s \o t)) = Len(Tail(s) \o t)
  BY <1>1, <1>2, <1>4, HeadTailProperties, ConcatProperties
<1>6. ASSUME NEW i \in 1 .. Len(Tail(s \o t))
      PROVE  Tail(s \o t)[i] = (Tail(s) \o t)[i]
  OBVIOUS
<1>7. Tail(s \o t) = Tail(s) \o t BY <1>2, <1>3, <1>5, <1>6, SeqEqual
<1>8. Head(s \o t) = Head(s) BY <1>1, <1>4, ConcatProperties
<1> QED BY <1>1, <1>7, <1>8

\* The second sequence is what is left of both behind the first.
LEMMA BehindFirst ==
  ASSUME NEW S, NEW s \in Seq(S), NEW t \in Seq(S)
  PROVE  SubSeq(s \o t, Len(s) + 1, Len(s \o t)) = t
<1>1. SubSeq(s \o t, Len(s) + 1, Len(s \o t)) \in Seq(S)
  BY ConcatProperties, SubSeqProperties
<1>2. Len(SubSeq(s \o t, Len(s) + 1, Len(s \o t))) = Len(t) BY ConcatProperties
<1>3. ASSUME NEW i \in 1 .. Len(t)
      PROVE  SubSeq(s \o t, Len(s) + 1, Len(s \o t))[i] = t[i]
  OBVIOUS
<1> QED BY <1>1, <1>2, <1>3, SeqEqual

-----------------------------------------------------------------------------
(* The loop is an Executor                                                 *)

\* A functor that was queued: the loop's own, or one that its thread has counted.
Known(f, count) == f = Again \/ f[2] <= count[f[1]]

AllKnown(list, count) == \A i \in 1 .. Len(list) : Known(list[i], count)

\* What the mapping rests on: functors_ is empty but in RunPendingFunctors, a
\* functor runs just while it is called, and no queued functor is still to come.
QueueInv ==
  /\ functors # <<>> => stage \in {"run", "call"}
  /\ current # NoFunctor <=> stage = "call"
  /\ AllKnown(pending, posted)
  /\ AllKnown(functors, posted)

LEMMA QueueInit == LoopInit => QueueInv
BY DEF LoopInit, QueueInv, AllKnown

\* The functor that thread t queues next.
NextOf(t) == <<t, posted[t] + 1>>

LEMMA NextIsFunctor ==
  ASSUME LoopTypeOK, NEW t \in Threads, posted[t] < MaxPosts
  PROVE  NextOf(t) \in Functors
BY LoopAssumption DEF LoopTypeOK, Functors, NextOf

\* What is posted next was not known.
LEMMA NextIsNew ==
  ASSUME LoopTypeOK, NEW t \in Threads, NEW f \in Functors, Known(f, posted)
  PROVE  f # NextOf(t)
<1>1. posted[t] \in Nat BY LoopAssumption DEF LoopTypeOK
<1>2. t # Self BY LoopAssumption
<1> QED BY <1>1, <1>2 DEF Known, NextOf, Again

LEMMA AppendKeepsKnown ==
  ASSUME NEW list \in Seq(Functors), NEW f \in Functors, NEW count,
         AllKnown(list, count), Known(f, count)
  PROVE  AllKnown(Append(list, f), count)
<1>1. ASSUME NEW i \in 1 .. Len(Append(list, f))
      PROVE  Append(list, f)[i] = f \/ (i \in 1 .. Len(list) /\ Append(list, f)[i] = list[i])
  BY AppendProperties
<1> QED BY <1>1 DEF AllKnown

LEMMA TailKeepsKnown ==
  ASSUME NEW list \in Seq(Functors), list # <<>>, NEW count, AllKnown(list, count)
  PROVE  AllKnown(Tail(list), count)
<1>1. ASSUME NEW i \in 1 .. Len(Tail(list))
      PROVE  i + 1 \in 1 .. Len(list) /\ Tail(list)[i] = list[i + 1]
  BY HeadTailProperties
<1> QED BY <1>1 DEF AllKnown

\* Posting keeps what is known.
LEMMA PostingKeepsKnown ==
  ASSUME LoopTypeOK, NEW t \in Threads, Push(t), NEW list \in Seq(Functors),
         AllKnown(list, posted)
  PROVE  AllKnown(list, posted')
<1> SUFFICES ASSUME NEW f \in Functors, Known(f, posted) PROVE Known(f, posted')
  BY ElementOfSeq DEF AllKnown
<1>1. CASE f = Again BY <1>1 DEF Known
<1>2. CASE f \in Threads \X (1 .. MaxPosts)
  <2>1. f[1] \in Threads /\ f[2] \in Nat BY <1>2, LoopAssumption
  <2>2. f # Again BY <2>1, LoopAssumption DEF Again
  <2>3. posted[f[1]] \in Nat /\ posted'[f[1]] >= posted[f[1]]
    BY <2>1, LoopAssumption DEF LoopTypeOK, Push
  <2>4. posted'[f[1]] \in Nat BY <2>1, LoopAssumption DEF LoopTypeOK, Push
  <2> QED BY <2>1, <2>2, <2>3, <2>4 DEF Known
<1> QED BY <1>1, <1>2 DEF Functors

LEMMA QueueNext == LoopTypeOK /\ QueueInv /\ [LoopNext]_loopVars => QueueInv'
<1> SUFFICES ASSUME LoopTypeOK, QueueInv, [LoopNext]_loopVars PROVE QueueInv' OBVIOUS
<1> USE DEF At, Goto
<1>1. ASSUME NEW t \in Threads, Push(t) PROVE QueueInv'
  <2>1. pending \in Seq(Functors) /\ functors \in Seq(Functors) BY DEF LoopTypeOK
  <2>2. AllKnown(pending, posted') /\ AllKnown(functors, posted')
    BY <1>1, <2>1, PostingKeepsKnown DEF QueueInv
  <2>3. posted[t] < MaxPosts /\ posted' = [posted EXCEPT ![t] = @ + 1] BY <1>1 DEF Push
  <2>4. NextOf(t) \in Functors BY <2>3, NextIsFunctor
  <2>5. Known(NextOf(t), posted')
    <3>1. posted[t] + 1 \in Nat /\ posted'[t] = posted[t] + 1
      BY <2>3, LoopAssumption DEF LoopTypeOK
    <3> QED BY <3>1 DEF Known, NextOf
  <2>6. pending' = Append(pending, NextOf(t)) BY <1>1 DEF Push, NextOf
  <2>7. AllKnown(pending', posted') BY <2>1, <2>2, <2>4, <2>5, <2>6, AppendKeepsKnown
  <2> QED BY <1>1, <2>2, <2>7 DEF QueueInv, Push
<1>2. CASE QueueAgain
  <2>1. AllKnown(pending', posted)
    BY <1>2, AgainIsFunctor, AppendKeepsKnown
    DEF QueueAgain, QueueInv, LoopTypeOK, Known
  <2> QED BY <1>2, <2>1 DEF QueueAgain, QueueInv
<1>3. CASE CallFunctor
  <2>1. AllKnown(functors', posted)
    BY <1>3, TailKeepsKnown DEF CallFunctor, QueueInv, LoopTypeOK
  <2>2. current' # NoFunctor
    BY <1>3, HeadTailProperties, FunctorAssumption DEF CallFunctor, LoopTypeOK
  <2> QED BY <1>3, <2>1, <2>2 DEF CallFunctor, QueueInv
<1>4. CASE SwapPending
  BY <1>4 DEF SwapPending, QueueInv, AllKnown
<1>5. CASE FunctorReturns \/ FunctorThrows \/ RunDone
  BY <1>5 DEF FunctorReturns, FunctorThrows, RunDone, QueueInv, AllKnown
<1>6. CASE StartLoop \/ Test \/ PollWakeup \/ PollOther \/ HandleWakeup \/ DispatchDone
  BY <1>6
  DEF StartLoop, Test, PollWakeup, PollOther, HandleWakeup, DispatchDone, QueueInv
<1>7. ASSUME NEW t \in Threads, QuitFrom(t) \/ Wake(t) PROVE QueueInv'
  BY <1>7 DEF QuitFrom, Wake, QueueInv
<1>8. CASE QuitHere \/ UNCHANGED loopVars
  BY <1>8 DEF QuitHere, loopVars, QueueInv
<1> QED BY <1>1, <1>2, <1>3, <1>4, <1>5, <1>6, <1>7, <1>8 DEF LoopNext, Loop, Thread

\* A functor in neither vector is not in the list that Executor sees.
LEMMA QueueIsNew ==
  ASSUME LoopTypeOK, NEW f,
         \A i \in 1 .. Len(pending) : pending[i] # f,
         \A i \in 1 .. Len(functors) : functors[i] # f
  PROVE  \A i \in DOMAIN (functors \o pending) : (functors \o pending)[i] # f
<1> DEFINE list == functors \o pending
<1>1. pending \in Seq(Functors) /\ functors \in Seq(Functors) BY DEF LoopTypeOK
<1>2. /\ list \in Seq(Functors)
      /\ Len(list) = Len(functors) + Len(pending)
      /\ \A i \in 1 .. Len(functors) + Len(pending) :
           list[i] = IF i <= Len(functors) THEN functors[i] ELSE pending[i - Len(functors)]
  BY <1>1, ConcatProperties
<1>3. DOMAIN list = 1 .. Len(functors) + Len(pending) BY <1>2
<1>4. Len(functors) \in Nat /\ Len(pending) \in Nat BY <1>1
<1> SUFFICES ASSUME NEW i \in 1 .. Len(functors) + Len(pending) PROVE list[i] # f
  BY <1>3
<1>5. CASE i <= Len(functors) BY <1>2, <1>4, <1>5
<1>6. CASE ~(i <= Len(functors))
  <2>1. i - Len(functors) \in 1 .. Len(pending) BY <1>4, <1>6
  <2>2. list[i] = pending[i - Len(functors)] BY <1>2, <1>6
  <2> QED BY <2>1, <2>2
<1> QED BY <1>5, <1>6

\* A functor put at the end of pending_functors_ is put at the end of the list.
LEMMA PushIsQueue ==
  ASSUME LoopTypeOK, NEW f \in Functors,
         \A i \in 1 .. Len(pending) : pending[i] # f,
         \A i \in 1 .. Len(functors) : functors[i] # f,
         pending' = Append(pending, f),
         UNCHANGED <<functors, current, stage>>
  PROVE  Promise!Queue(f)
<1>1. functors' \o pending' = Append(functors \o pending, f)
  BY AppendToSecond DEF LoopTypeOK
<1> QED BY <1>1, QueueIsNew DEF Promise!Queue

LEMMA ExecutorInit == LoopInit => Promise!Init
BY DEF LoopInit, Promise!Init

LEMMA ExecutorStep ==
  LoopTypeOK /\ QueueInv /\ [LoopNext]_loopVars => [Promise!Next]_(Promise!vars)
<1> SUFFICES ASSUME LoopTypeOK, QueueInv, [LoopNext]_loopVars
             PROVE  Promise!Next \/ UNCHANGED Promise!vars
  OBVIOUS
<1> USE DEF At, Goto
<1>1. ASSUME NEW t \in Threads, Push(t) PROVE Promise!Next
  <2>1. NextOf(t) \in Functors /\ pending' = Append(pending, NextOf(t))
    BY <1>1, NextIsFunctor DEF Push, NextOf
  <2>2. /\ \A i \in 1 .. Len(pending) : pending[i] # NextOf(t)
        /\ \A i \in 1 .. Len(functors) : functors[i] # NextOf(t)
    BY NextIsNew, ElementOfSeq DEF QueueInv, AllKnown, LoopTypeOK
  <2>3. Promise!Queue(NextOf(t)) BY <1>1, <2>1, <2>2, PushIsQueue DEF Push
  <2> QED BY <2>1, <2>3 DEF Promise!Next
<1>2. CASE QueueAgain
  <2>1. /\ \A i \in 1 .. Len(pending) : pending[i] # Again
        /\ \A i \in 1 .. Len(functors) : functors[i] # Again
    BY <1>2 DEF QueueAgain, LoopTypeOK
  <2>2. Promise!Queue(Again) BY <1>2, <2>1, AgainIsFunctor, PushIsQueue DEF QueueAgain
  <2> QED BY <2>2, AgainIsFunctor DEF Promise!Next
<1>3. CASE CallFunctor
  <2>1. /\ functors \o pending # <<>>
        /\ Head(functors \o pending) = Head(functors)
        /\ Tail(functors \o pending) = Tail(functors) \o pending
    BY <1>3, HeadOfFirst DEF CallFunctor, LoopTypeOK
  <2>2. Promise!Call BY <1>3, <2>1 DEF CallFunctor, QueueInv, Promise!Call
  <2> QED BY <2>2 DEF Promise!Next
<1>4. CASE SwapPending
  <2>1. functors = <<>> BY <1>4 DEF SwapPending, QueueInv
  <2>2. functors' \o pending' = functors \o pending
    BY <1>4, <2>1, ConcatEmptySeq DEF SwapPending, LoopTypeOK
  <2> QED BY <1>4, <2>2 DEF SwapPending, Promise!vars
<1>5. CASE FunctorReturns
  <2>1. Promise!Return BY <1>5 DEF FunctorReturns, QueueInv, Promise!Return
  <2> QED BY <2>1 DEF Promise!Next
<1>6. CASE FunctorThrows
  <2>1. functors' \o pending' = pending
    BY <1>6, ConcatEmptySeq DEF FunctorThrows, LoopTypeOK
  <2>2. SubSeq(functors \o pending, Len(functors) + 1, Len(functors \o pending)) = pending
    BY BehindFirst DEF LoopTypeOK
  <2>3. Len(functors) \in 0 .. Len(functors \o pending)
    BY ConcatProperties DEF LoopTypeOK
  <2>4. Promise!Throw
    BY <1>6, <2>1, <2>2, <2>3 DEF FunctorThrows, QueueInv, Promise!Throw
  <2> QED BY <2>4 DEF Promise!Next
<1>7. CASE Test
  <2>1. CASE quit
    <3>1. Promise!Stop BY <1>7, <2>1 DEF Test, QueueInv, Promise!Stop
    <3> QED BY <3>1 DEF Promise!Next
  <2>2. CASE ~quit BY <1>7, <2>2 DEF Test, Promise!vars
  <2> QED BY <2>1, <2>2
<1>8. CASE StartLoop \/ PollWakeup \/ PollOther \/ HandleWakeup \/ DispatchDone \/ RunDone
  BY <1>8
  DEF StartLoop, PollWakeup, PollOther, HandleWakeup, DispatchDone, RunDone,
      Promise!vars
<1>9. ASSUME NEW t \in Threads, QuitFrom(t) \/ Wake(t) PROVE UNCHANGED Promise!vars
  BY <1>9 DEF QuitFrom, Wake, Promise!vars
<1>10. CASE QuitHere \/ UNCHANGED loopVars
  BY <1>10 DEF QuitHere, loopVars, Promise!vars
<1> QED BY <1>1, <1>2, <1>3, <1>4, <1>5, <1>6, <1>7, <1>8, <1>9, <1>10
       DEF LoopNext, Loop, Thread

\* Functors are called one at a time, once each and in the order of their pushes,
\* through both vectors, whatever is queued meanwhile, and none after the end.
THEOREM LoopIsExecutor == LoopSpec => Promise!SafeSpec
<1>1. WakeInv /\ QueueInv /\ [LoopNext]_loopVars => QueueInv' BY QueueNext DEF WakeInv
<1>2. WakeInv /\ QueueInv /\ [LoopNext]_loopVars => [Promise!Next]_(Promise!vars)
  BY ExecutorStep DEF WakeInv
<1> QED BY <1>1, <1>2, WakeInit, WakeNext, QueueInit, ExecutorInit, PTL
       DEF LoopSpec, Promise!SafeSpec
=============================================================================
