----------------------------- MODULE SleepProofs ----------------------------
(***************************************************************************)
(* Proofs about Sleep, for every set of CPUs, threads and periods and      *)
(* every length of a tick: the timer of a CPU is set for the first of its  *)
(* sleepers, and none of them wakes early, on every CPU whose list and     *)
(* timer no thread of another CPU has changed.                             *)
(***************************************************************************)
EXTENDS Sleep, SequenceTheorems, FiniteSetTheorems, WellFoundedInduction, TLAPS

Node == [thread : Thread, stamp : Nat, ticks : Nat \ {0}]

PCs == {"run", "called", "spin", "insert", "pause", "asleep", "stopped"}

TypeOK ==
  /\ ticks \in Nat \ {0}
  /\ timer_ticks \in [Cpu -> Nat]
  /\ sleeping \in [Cpu -> Seq(Node)]
  /\ lock \in [Cpu -> Thread \cup {NULL}]
  /\ pc \in [Thread -> PCs]
  /\ slp \in [Thread -> Cpu \cup {NULL}]
  /\ home \in [Thread -> Cpu \cup {NULL}]
  /\ stamp \in [Thread -> Nat]
  /\ until \in [Thread -> Nat]
  /\ crossed \subseteq Cpu

(* sleep keeps the list in the order in which its nodes fall due. *)
OrderedList(s) == \A i, j \in 1 .. Len(s) : i <= j => s[i].ticks <= s[j].ticks

Ordered == \A c \in Cpu : OrderedList(sleeping[c])

(* A thread inside sleep has chosen a list and is on a CPU, the one of the *)
(* list it has changed unless that is a crossed one.                       *)
Chosen ==
  \A t \in Thread :
    /\ InCall(t) => slp[t] \in Cpu /\ home[t] \in Cpu
    /\ pc[t] = "run" => home[t] \in Cpu
    /\ pc[t] = "asleep" => slp[t] \in Cpu
    /\ pc[t] = "pause" => slp[t] = home[t] \/ slp[t] \in crossed

(* A thread that changes the list has its lock. *)
Locked == \A t \in Thread : pc[t] \in {"insert", "pause"} => lock[slp[t]] = t

(* A list has a node n by which t wakes. *)
IsNodeOf(n, t) ==
  /\ n.thread = t /\ n.stamp = stamp[t]
  /\ until[t] < (n.ticks + 1) * TickInterval

HasNode(t, list) == \E i \in 1 .. Len(list) : IsNodeOf(list[i], t)

(* The node of a sleeper is in the list it has chosen. *)
Queued ==
  \A t \in Thread :
    pc[t] \in {"pause", "asleep"} /\ slp[t] \notin crossed =>
      HasNode(t, sleeping[slp[t]])

SleepInv == TypeOK /\ Ordered /\ Chosen /\ Locked /\ Queued /\ TimerArmed
-----------------------------------------------------------------------------
(* Lists *)

IsInsertion(r, s, i, e) ==
  /\ Len(r) = Len(s) + 1
  /\ \A j \in 1 .. Len(s) + 1 :
       r[j] = IF j < i THEN s[j] ELSE IF j = i THEN e ELSE s[j - 1]

LEMMA InsertAtFacts ==
  ASSUME NEW S, NEW s \in Seq(S), NEW i \in 1 .. Len(s) + 1, NEW e \in S,
         NEW r, r = InsertAt(s, i, e)
  PROVE  r \in Seq(S) /\ IsInsertion(r, s, i, e)
<1> PICK k \in 0 .. Len(s) : k = i - 1
  OBVIOUS
<1>0. Len(s) \in Nat /\ k \in Nat /\ k <= Len(s) /\ i - 1 = k /\ i = k + 1
  OBVIOUS
<1>1. PICK left : left = SubSeq(s, 1, k)
  OBVIOUS
<1>2. PICK right : right = SubSeq(s, k + 1, Len(s))
  OBVIOUS
<1>3. PICK one : one = <<e>>
  OBVIOUS
<1>4. left \in Seq(S) /\ right \in Seq(S) /\ one \in Seq(S)
  BY <1>0, <1>1, <1>2, <1>3, SubSeqProperties
<1>5. Len(left) = k /\ Len(right) = Len(s) - k /\ Len(one) = 1 /\ one[1] = e
  BY <1>0, <1>1, <1>2, <1>3, SubSeqProperties
<1>6. \A j \in 1 .. k : left[j] = s[j]
  BY <1>0, <1>1, SubSeqProperties
<1>7. \A j \in 1 .. Len(s) - k : right[j] = s[j + k]
  BY <1>0, <1>2, SubSeqProperties
<1>8. PICK begin : begin = left \o one
  OBVIOUS
<1>9. /\ begin \in Seq(S) /\ Len(begin) = k + 1
      /\ \A j \in 1 .. k + 1 : begin[j] = IF j <= k THEN s[j] ELSE e
  <2>1. begin \in Seq(S) /\ Len(begin) = Len(left) + Len(one)
    BY <1>4, <1>8, ConcatProperties
  <2>2. Len(begin) = k + 1
    BY <1>0, <1>5, <2>1
  <2>3. ASSUME NEW j \in 1 .. k + 1, j <= k PROVE begin[j] = s[j]
    <3>1. begin[j] = left[j]
      BY <1>0, <1>4, <1>5, <1>8, <2>3
    <3> QED
      BY <1>0, <1>6, <2>3, <3>1
  <2>4. ASSUME NEW j \in 1 .. k + 1, ~(j <= k) PROVE begin[j] = e
    <3>1. j = k + 1 /\ j - k = 1
      BY <1>0, <2>4
    <3>2. j \in 1 .. Len(left) + Len(one) /\ ~(j <= Len(left))
      BY <1>0, <1>5, <2>4
    <3>3. begin[j] = one[j - Len(left)]
      BY <1>4, <1>8, <3>2, ConcatProperties
    <3> QED
      BY <1>5, <3>1, <3>3
  <2> QED
    BY <2>1, <2>2, <2>3, <2>4
<1>10. r = begin \o right
  BY <1>0, <1>1, <1>2, <1>3, <1>8 DEF InsertAt
<1>11. begin \o right \in Seq(S) /\ Len(begin \o right) = Len(s) + 1
  <2>1. begin \o right \in Seq(S) /\ Len(begin \o right) = Len(begin) + Len(right)
    BY <1>4, <1>9, ConcatProperties
  <2> QED
    BY <1>0, <1>5, <1>9, <2>1
<1>12. ASSUME NEW j \in 1 .. Len(s) + 1, j <= k + 1
       PROVE  (begin \o right)[j] = IF j <= k THEN s[j] ELSE e
  <2>1. (begin \o right)[j] = begin[j]
    BY <1>0, <1>4, <1>5, <1>9, <1>12
  <2> QED
    BY <1>0, <1>9, <1>12, <2>1
<1>13. ASSUME NEW j \in 1 .. Len(s) + 1, ~(j <= k + 1)
       PROVE  (begin \o right)[j] = s[j - 1]
  <2>1. (begin \o right)[j] = right[j - (k + 1)]
    BY <1>0, <1>4, <1>5, <1>9, <1>13
  <2>2. j - (k + 1) \in 1 .. Len(s) - k /\ (j - (k + 1)) + k = j - 1
    BY <1>0, <1>13
  <2> QED
    BY <1>7, <2>1, <2>2
<1>14. ASSUME NEW j \in 1 .. Len(s) + 1
       PROVE  (begin \o right)[j] =
                IF j < i THEN s[j] ELSE IF j = i THEN e ELSE s[j - 1]
  <2>1. CASE j <= k + 1
    <3>1. (j < i <=> j <= k) /\ (~(j <= k) => j = i)
      BY <1>0, <2>1
    <3> QED
      BY <1>12, <2>1, <3>1
  <2>2. CASE ~(j <= k + 1)
    <3>1. ~(j < i) /\ j # i
      BY <1>0, <2>2
    <3> QED
      BY <1>13, <2>2, <3>1
  <2> QED
    BY <2>1, <2>2
<1>15. \A j \in 1 .. Len(s) + 1 :
         r[j] = IF j < i THEN s[j] ELSE IF j = i THEN e ELSE s[j - 1]
  BY <1>10, <1>14
<1>16. r \in Seq(S) /\ Len(r) = Len(s) + 1
  BY <1>10, <1>11
<1> QED
  BY <1>15, <1>16 DEF IsInsertion

LEMMA NodeTicks ==
  ASSUME NEW s \in Seq(Node)
  PROVE  /\ Len(s) \in Nat /\ DOMAIN s = 1 .. Len(s)
         /\ \A i \in 1 .. Len(s) : s[i] \in Node /\ s[i].ticks \in Nat
<1>1. \A n \in Node : n.ticks \in Nat
  BY DEF Node
<1>2. \A i \in 1 .. Len(s) : s[i] \in Node
  BY ElementOfSeq
<1> QED
  BY <1>1, <1>2

(* In an ordered list the nodes that fall due by x come first. *)
LEMMA CountFacts ==
  ASSUME NEW s \in Seq(Node), OrderedList(s), NEW x \in Nat
  PROVE  \E k \in 0 .. Len(s) :
           /\ Cardinality({i \in DOMAIN s : s[i].ticks <= x}) = k
           /\ \A i \in 1 .. Len(s) : s[i].ticks <= x <=> i <= k
<1>0. /\ Len(s) \in Nat /\ DOMAIN s = 1 .. Len(s)
      /\ \A i \in 1 .. Len(s) : s[i].ticks \in Nat
  BY NodeTicks
<1>1. PICK k \in 0 .. Len(s) : \A i \in 1 .. Len(s) : s[i].ticks <= x <=> i <= k
  <2> DEFINE Late == {i \in 1 .. Len(s) : ~(s[i].ticks <= x)}
  <2>1. CASE Late = {}
    <3>1. Len(s) \in 0 .. Len(s) /\ \A i \in 1 .. Len(s) : s[i].ticks <= x <=> i <= Len(s)
      BY <1>0, <2>1
    <3> QED
      BY <3>1
  <2>2. CASE Late # {}
    <3>1. Late \subseteq Nat
      BY <1>0
    <3>2. PICK m \in Late : \A y \in Late : ~(<<y, m>> \in OpToRel(<, Nat))
      <4> HIDE DEF Late
      <4> QED
        BY <2>2, <3>1, WFMin, NatLessThanWellFounded
    <3>3. ASSUME NEW y \in Late PROVE m <= y
      <4>1. m \in Nat /\ y \in Nat
        BY <3>1
      <4>2. y < m => <<y, m>> \in OpToRel(<, Nat)
        BY <4>1 DEF OpToRel
      <4>3. ~(y < m)
        BY <3>2, <4>2, Zenon
      <4> QED
        BY <4>1, <4>3
    <3>4. m \in 1 .. Len(s) /\ ~(s[m].ticks <= x)
      OBVIOUS
    <3>5. ASSUME NEW i \in 1 .. Len(s) PROVE s[i].ticks <= x <=> i <= m - 1
      <4>1. CASE i < m
        BY <1>0, <3>3, <3>4, <4>1
      <4>2. CASE ~(i < m)
        <5>1. s[m].ticks <= s[i].ticks
          BY <1>0, <3>4, <4>2 DEF OrderedList
        <5> QED
          BY <1>0, <3>4, <4>2, <5>1
      <4> QED
        BY <4>1, <4>2
    <3>6. m - 1 \in 0 .. Len(s)
      BY <1>0, <3>4
    <3> QED
      BY <3>5, <3>6
  <2> QED
    BY <2>1, <2>2
<1>2. {i \in DOMAIN s : s[i].ticks <= x} = 1 .. k
  BY <1>0, <1>1
<1>3. Cardinality(1 .. k) = k
  BY <1>0, FS_Interval
<1> QED
  BY <1>1, <1>2, <1>3

(* The list r is s with the node n at its place. *)
IsPutIn(r, s, n) ==
  /\ r \in Seq(Node) /\ r # <<>> /\ OrderedList(r)
  /\ Head(r) = IF s = <<>> \/ Head(s).ticks > n.ticks THEN n ELSE Head(s)
  /\ \E i \in 1 .. Len(r) : r[i] = n
  /\ \A i \in 1 .. Len(s) : \E j \in 1 .. Len(r) : r[j] = s[i]

(* The loop of sleep that looks for the place of the node *)
LEMMA InsertedFacts ==
  ASSUME NEW s \in Seq(Node), OrderedList(s), NEW n \in Node,
         NEW r, r = Inserted(s, n)
  PROVE  IsPutIn(r, s, n)
<1>0. /\ Len(s) \in Nat /\ n.ticks \in Nat
      /\ \A i \in 1 .. Len(s) : s[i].ticks \in Nat
  BY NodeTicks DEF Node
<1>1. PICK k \in 0 .. Len(s) :
        /\ Cardinality({i \in DOMAIN s : s[i].ticks <= n.ticks}) = k
        /\ \A i \in 1 .. Len(s) : s[i].ticks <= n.ticks <=> i <= k
  BY <1>0, CountFacts
<1>3. PICK p \in 1 .. Len(s) + 1 : p = k + 1 /\ r = InsertAt(s, p, n)
  <2>1. k + 1 \in 1 .. Len(s) + 1
    BY <1>0
  <2>2. r = InsertAt(s, k + 1, n)
    BY <1>1 DEF Inserted
  <2> QED
    BY <2>1, <2>2
<1>4. /\ r \in Seq(Node) /\ Len(r) = Len(s) + 1
      /\ \A j \in 1 .. Len(s) + 1 :
           r[j] = IF j <= k THEN s[j] ELSE IF j = k + 1 THEN n ELSE s[j - 1]
  <2>1. /\ r \in Seq(Node) /\ Len(r) = Len(s) + 1
        /\ \A j \in 1 .. Len(s) + 1 :
             r[j] = IF j < p THEN s[j] ELSE IF j = p THEN n ELSE s[j - 1]
    <3>1. r \in Seq(Node) /\ IsInsertion(r, s, p, n)
      BY <1>3, InsertAtFacts
    <3> QED
      BY <3>1 DEF IsInsertion
  <2>2. \A j \in 1 .. Len(s) + 1 : j < p <=> j <= k
    BY <1>0, <1>3
  <2> QED
    BY <1>3, <2>1, <2>2
<1>5. OrderedList(r)
  <2> SUFFICES ASSUME NEW i \in 1 .. Len(s) + 1, NEW j \in 1 .. Len(s) + 1, i <= j
               PROVE  r[i].ticks <= r[j].ticks
    BY <1>4 DEF OrderedList
  <2>1. CASE j <= k
    <3>1. r[i] = s[i] /\ r[j] = s[j] /\ i \in 1 .. Len(s) /\ j \in 1 .. Len(s)
      BY <1>0, <1>4, <2>1
    <3> QED
      BY <3>1 DEF OrderedList
  <2>2. CASE j = k + 1
    <3>1. r[j] = n
      BY <1>0, <1>4, <2>2
    <3>2. CASE i = j
      BY <1>0, <3>1, <3>2
    <3>3. CASE i # j
      <4>1. i <= k /\ i \in 1 .. Len(s)
        BY <1>0, <2>2, <3>3
      <4>2. r[i] = s[i]
        BY <1>4, <4>1
      <4>3. s[i].ticks <= n.ticks
        BY <1>1, <4>1
      <4> QED
        BY <3>1, <4>2, <4>3
    <3> QED
      BY <3>2, <3>3
  <2>3. CASE j > k + 1
    <3>1. r[j] = s[j - 1] /\ j - 1 \in 1 .. Len(s) /\ ~(s[j - 1].ticks <= n.ticks)
      <4>1. r[j] = s[j - 1]
        BY <1>0, <1>4, <2>3
      <4>2. j - 1 \in 1 .. Len(s) /\ ~(j - 1 <= k)
        BY <1>0, <2>3
      <4> QED
        BY <1>1, <4>1, <4>2
    <3>2. CASE i <= k
      <4>1. r[i] = s[i] /\ i \in 1 .. Len(s) /\ i <= j - 1
        BY <1>0, <1>4, <2>3, <3>2
      <4> QED
        BY <3>1, <4>1 DEF OrderedList
    <3>3. CASE i = k + 1
      <4>1. r[i] = n
        BY <1>0, <1>4, <3>3
      <4>2. s[j - 1].ticks \in Nat /\ n.ticks <= s[j - 1].ticks
        BY <1>0, <3>1
      <4> QED
        BY <3>1, <4>1, <4>2
    <3>4. CASE i > k + 1
      <4>1. r[i] = s[i - 1] /\ i - 1 \in 1 .. Len(s) /\ i - 1 <= j - 1
        BY <1>0, <1>4, <3>4
      <4> QED
        BY <3>1, <4>1 DEF OrderedList
    <3> QED
      BY <1>0, <3>2, <3>3, <3>4
  <2> QED
    BY <1>0, <2>1, <2>2, <2>3
<1>6. r # <<>> /\ Head(r) = r[1]
  BY <1>0, <1>4
<1>7. Head(r) = IF s = <<>> \/ Head(s).ticks > n.ticks THEN n ELSE Head(s)
  <2>1. CASE s = <<>>
    BY <1>4, <1>6, <2>1
  <2>2. CASE s # <<>>
    <3>1. Head(s) = s[1] /\ 1 \in 1 .. Len(s)
      BY <2>2
    <3> QED
      BY <1>0, <1>1, <1>4, <1>6, <3>1
  <2> QED
    BY <2>1, <2>2
<1>8. \E i \in 1 .. Len(r) : r[i] = n
  <2>1. k + 1 \in 1 .. Len(s) + 1 /\ ~(k + 1 <= k)
    BY <1>0
  <2> QED
    BY <1>4, <2>1
<1>9. ASSUME NEW i \in 1 .. Len(s) PROVE \E j \in 1 .. Len(r) : r[j] = s[i]
  <2>1. CASE i <= k
    <3>1. i \in 1 .. Len(s) + 1
      BY <1>0
    <3>2. r[i] = s[i] /\ i \in 1 .. Len(r)
      BY <1>4, <2>1, <3>1
    <3> QED
      BY <3>2
  <2>2. CASE ~(i <= k)
    <3>1. i + 1 \in 1 .. Len(s) + 1 /\ ~(i + 1 <= k) /\ i + 1 # k + 1 /\ (i + 1) - 1 = i
      BY <1>0, <2>2
    <3> QED
      BY <1>4, <3>1
  <2> QED
    BY <2>1, <2>2
<1> QED
  BY <1>4, <1>5, <1>6, <1>7, <1>8, <1>9 DEF IsPutIn

(* sleep_timer_proc takes the first node. *)
LEMMA TailFacts ==
  ASSUME NEW s \in Seq(Node), OrderedList(s), s # <<>>
  PROVE  /\ Head(s) \in Node /\ Tail(s) \in Seq(Node) /\ OrderedList(Tail(s))
         /\ Tail(s) # <<>> => Head(Tail(s)) \in Node
         /\ Head(s) = s[1]
         /\ \A i \in 1 .. Len(s) :
              i = 1 \/ \E j \in 1 .. Len(Tail(s)) : Tail(s)[j] = s[i]
<1>1. PICK r : r = Tail(s)
  OBVIOUS
<1>2. /\ Head(s) \in Node /\ r \in Seq(Node) /\ Len(r) = Len(s) - 1
      /\ \A i \in 1 .. Len(s) - 1 : r[i] = s[i + 1]
      /\ Len(s) \in Nat
  BY <1>1, HeadTailProperties
<1>3. OrderedList(r)
  BY <1>2 DEF OrderedList
<1>4. r # <<>> => Head(r) \in Node
  BY <1>2
<1>5. ASSUME NEW i \in 1 .. Len(s), i # 1 PROVE \E j \in 1 .. Len(r) : r[j] = s[i]
  <2>1. i - 1 \in 1 .. Len(s) - 1 /\ (i - 1) + 1 = i
    BY <1>2, <1>5
  <2> QED
    BY <1>2, <2>1
<1>6. Head(s) = s[1]
  OBVIOUS
<1> QED
  BY <1>1, <1>2, <1>3, <1>4, <1>5, <1>6
-----------------------------------------------------------------------------
(* The tick that sleep computes is the one in which the period ends. *)
LEMMA PeriodFacts ==
  ASSUME NEW at \in Nat, NEW period \in Nat
  PROVE  /\ period \div TickInterval \in Nat
         /\ at * TickInterval + period \in Nat
         /\ at * TickInterval + period
            < (at + period \div TickInterval + 1) * TickInterval
<1> USE SleepAssumption DEF SleepAssumption
<1>1. PICK q : q = period \div TickInterval
  OBVIOUS
<1>2. q \in Nat
  BY <1>1
<1>3. period < q * TickInterval + TickInterval
  BY <1>1, <1>2
<1>4. at * TickInterval \in Nat /\ q * TickInterval \in Nat
  BY <1>2
<1>5. (at + q + 1) * TickInterval = at * TickInterval + q * TickInterval + TickInterval
  BY <1>2
<1>6. at * TickInterval + period
      < at * TickInterval + q * TickInterval + TickInterval
  BY <1>3, <1>4
<1> QED
  BY <1>1, <1>2, <1>4, <1>5, <1>6

(* Later ticks are as good. *)
LEMMA Later ==
  ASSUME NEW n \in Nat, NEW m \in Nat, n <= m
  PROVE  (n + 1) * TickInterval <= (m + 1) * TickInterval
<1>1. TickInterval \in Nat
  BY SleepAssumption DEF SleepAssumption
<1>2. PICK k \in Nat : m = n + k
  <2>1. m - n \in Nat /\ m = n + (m - n)
    OBVIOUS
  <2> QED
    BY <2>1
<1>3. (m + 1) * TickInterval = (n + 1) * TickInterval + k * TickInterval
  BY <1>1, <1>2
<1>4. k * TickInterval \in Nat /\ (n + 1) * TickInterval \in Nat
  BY <1>1
<1> QED
  BY <1>3, <1>4

LEMMA SleepInit == Init => SleepInv
<1> SUFFICES ASSUME Init PROVE SleepInv
  OBVIOUS
<1> USE SleepAssumption DEF Init, SleepAssumption
<1>1. TypeOK
  BY DEF TypeOK, PCs
<1>2. Ordered
  BY DEF Ordered, OrderedList
<1>3. Chosen /\ Locked /\ Queued /\ TimerArmed
  BY DEF Chosen, InCall, Locked, Queued, TimerArmed
<1> QED
  BY <1>1, <1>2, <1>3 DEF SleepInv

(* Only sleep and the timer change the lists. *)
LEMMA ListsStay ==
  ASSUME Ordered, TimerArmed, UNCHANGED <<sleeping, timer_ticks, crossed>>
  PROVE  Ordered' /\ TimerArmed'
BY DEF Ordered, TimerArmed

(* Who sleeps goes on sleeping by the same node. *)
LEMMA QueueStays ==
  ASSUME Queued, UNCHANGED <<sleeping, crossed>>,
         \A t \in Thread : pc'[t] \in {"pause", "asleep"} =>
           /\ pc[t] \in {"pause", "asleep"} /\ slp'[t] = slp[t]
           /\ stamp'[t] = stamp[t] /\ until'[t] = until[t]
  PROVE  Queued'
BY DEF Queued, HasNode, IsNodeOf

LEMMA sleepKeeps ==
  ASSUME SleepInv, NEW t \in Thread, sleep(t) PROVE SleepInv'
<1> USE DEF SleepInv, sleep, Go
<1>1. TypeOK'
  BY DEF TypeOK, PCs
<1>2. Chosen'
  BY DEF Chosen, InCall, TypeOK
<1>3. Locked'
  BY DEF Locked, TypeOK
<1>4. Queued'
  BY QueueStays DEF TypeOK
<1> QED
  BY <1>1, <1>2, <1>3, <1>4, ListsStay

LEMMA DisableKeeps ==
  ASSUME SleepInv, NEW t \in Thread, Disable(t) PROVE SleepInv'
<1> USE DEF SleepInv, Disable, Go
<1>1. TypeOK'
  BY DEF TypeOK, PCs
<1>2. Chosen'
  BY DEF Chosen, InCall, TypeOK
<1>3. Locked'
  BY DEF Locked, TypeOK
<1>4. Queued'
  BY QueueStays DEF TypeOK
<1> QED
  BY <1>1, <1>2, <1>3, <1>4, ListsStay

LEMMA AcquireKeeps ==
  ASSUME SleepInv, NEW t \in Thread, Acquire(t) PROVE SleepInv'
<1> USE SleepAssumption DEF SleepInv, SleepAssumption, Acquire, Go
<1>0. slp[t] \in Cpu
  BY DEF Chosen, InCall
<1>1. TypeOK'
  BY <1>0 DEF TypeOK, PCs
<1>2. Chosen'
  BY DEF Chosen, InCall, TypeOK
<1>3. Locked'
  <2> SUFFICES ASSUME NEW u \in Thread, pc'[u] \in {"insert", "pause"}
               PROVE  lock'[slp'[u]] = u
    BY DEF Locked
  <2>1. CASE u = t
    BY <1>0, <2>1 DEF TypeOK
  <2>2. CASE u # t
    <3>1. pc[u] \in {"insert", "pause"} /\ lock[slp[u]] = u
      BY <2>2 DEF TypeOK, Locked
    <3>2. slp[u] # slp[t]
      BY <3>1
    <3>3. slp[u] \in Cpu
      BY <3>1 DEF Chosen, InCall
    <3> QED
      BY <1>0, <3>1, <3>2, <3>3 DEF TypeOK
  <2> QED
    BY <2>1, <2>2
<1>4. Queued'
  BY QueueStays DEF TypeOK
<1> QED
  BY <1>1, <1>2, <1>3, <1>4, ListsStay

(* A thread that leaves the list releases its own lock. *)
LEMMA ReleaseKeeps ==
  ASSUME SleepInv, NEW t \in Thread, pc[t] \in {"insert", "pause"}, Release(t),
         NEW where \in {"run", "asleep"}, Go(t, where),
         slp' = [slp EXCEPT ![t] = slp'[t]], slp'[t] \in Cpu \cup {NULL},
         home' = [home EXCEPT ![t] = home'[t]], home'[t] \in Cpu \cup {NULL},
         where = "asleep" => pc[t] = "pause" /\ slp'[t] = slp[t],
         where = "run" => home'[t] = home[t],
         UNCHANGED <<ticks, timer_ticks, sleeping, stamp, until, crossed>>
  PROVE  SleepInv'
<1> USE SleepAssumption DEF SleepInv, SleepAssumption, Release, Go
<1>0. slp[t] \in Cpu /\ lock[slp[t]] = t
  BY DEF Chosen, InCall, TypeOK, Locked
<1>1. TypeOK'
  BY <1>0 DEF TypeOK, PCs
<1>2. Chosen'
  BY <1>0 DEF Chosen, InCall, TypeOK
<1>3. Locked'
  <2> SUFFICES ASSUME NEW u \in Thread, pc'[u] \in {"insert", "pause"}
               PROVE  lock'[slp'[u]] = u
    BY DEF Locked
  <2>1. u # t
    BY DEF TypeOK
  <2>2. pc[u] \in {"insert", "pause"} /\ lock[slp[u]] = u /\ slp'[u] = slp[u]
    BY <2>1 DEF TypeOK, Locked
  <2>3. slp[u] # slp[t] /\ slp[u] \in Cpu
    BY <1>0, <2>1, <2>2 DEF Chosen, InCall
  <2> QED
    BY <1>0, <2>2, <2>3 DEF TypeOK
<1>4. Queued'
  BY QueueStays DEF TypeOK
<1> QED
  BY <1>1, <1>2, <1>3, <1>4, ListsStay

LEMMA InsertKeeps ==
  ASSUME SleepInv, NEW t \in Thread, NEW period \in Period, Insert(t, period)
  PROVE  SleepInv'
<1> USE SleepAssumption DEF SleepAssumption, SleepInv, Go
<1>0. PICK c \in Cpu, h \in Cpu : c = slp[t] /\ h = home[t]
  BY DEF Insert, Chosen, InCall
<1>1. PICK node : node = [thread |-> t, stamp |-> stamp[t],
                          ticks |-> ticks + period \div TickInterval]
  OBVIOUS
<1>p. /\ period \div TickInterval \in Nat
      /\ ticks * TickInterval + period \in Nat
      /\ ticks * TickInterval + period
         < (ticks + period \div TickInterval + 1) * TickInterval
  BY PeriodFacts DEF TypeOK
<1>2. node \in Node
  BY <1>1, <1>p DEF Node, TypeOK
<1>3. PICK list : list = sleeping[c]
  OBVIOUS
<1>4. list \in Seq(Node) /\ OrderedList(list)
  BY <1>3 DEF TypeOK, Ordered
<1>5. PICK r : r = Inserted(list, node)
  OBVIOUS
<1>6. /\ r \in Seq(Node) /\ r # <<>> /\ OrderedList(r)
      /\ Head(r) = IF list = <<>> \/ Head(list).ticks > node.ticks THEN node ELSE Head(list)
      /\ \E i \in 1 .. Len(r) : r[i] = node
      /\ \A i \in 1 .. Len(list) : \E j \in 1 .. Len(r) : r[j] = list[i]
  <2>1. IsPutIn(r, list, node)
    BY <1>2, <1>4, <1>5, InsertedFacts
  <2> QED
    BY <2>1 DEF IsPutIn
<1>f. PICK first \in BOOLEAN : first <=> (list = <<>> \/ Head(list).ticks > node.ticks)
  OBVIOUS
<1>7. /\ sleeping' = [sleeping EXCEPT ![c] = r]
      /\ timer_ticks' = IF first THEN [timer_ticks EXCEPT ![h] = node.ticks]
                                 ELSE timer_ticks
      /\ until' = [until EXCEPT ![t] = ticks * TickInterval + period]
      /\ crossed' = IF c = h THEN crossed
                    ELSE crossed \cup {c} \cup (IF first THEN {h} ELSE {})
      /\ pc[t] = "insert" /\ pc' = [pc EXCEPT ![t] = "pause"]
      /\ UNCHANGED <<ticks, lock, slp, home, stamp>>
  BY <1>0, <1>1, <1>3, <1>5, <1>f DEF Insert
<1>8. node.ticks \in Nat \ {0}
  BY <1>2 DEF Node
<1>9. TypeOK'
  <2>1. timer_ticks' \in [Cpu -> Nat] /\ sleeping' \in [Cpu -> Seq(Node)]
    BY <1>6, <1>7, <1>8 DEF TypeOK
  <2>2. until' \in [Thread -> Nat] /\ crossed' \subseteq Cpu
    BY <1>7, <1>p DEF TypeOK
  <2>3. pc' \in [Thread -> PCs]
    BY <1>7 DEF TypeOK, PCs
  <2> QED
    BY <1>7, <2>1, <2>2, <2>3 DEF TypeOK
<1>10. Chosen'
  <2> SUFFICES ASSUME NEW u \in Thread
               PROVE  /\ InCall(u)' => slp'[u] \in Cpu /\ home'[u] \in Cpu
                      /\ pc'[u] = "run" => home'[u] \in Cpu
                      /\ pc'[u] = "asleep" => slp'[u] \in Cpu
                      /\ pc'[u] = "pause" => slp'[u] = home'[u] \/ slp'[u] \in crossed'
    BY DEF Chosen
  <2>1. CASE u = t
    BY <1>0, <1>7, <2>1 DEF TypeOK
  <2>2. CASE u # t
    BY <1>7, <2>2 DEF TypeOK, Chosen, InCall
  <2> QED
    BY <2>1, <2>2
<1>11. Locked'
  BY <1>7 DEF Locked, TypeOK
<1>12. Ordered'
  BY <1>6, <1>7 DEF Ordered, TypeOK
<1>13. Queued'
  <2> SUFFICES ASSUME NEW u \in Thread, pc'[u] \in {"pause", "asleep"},
                      slp'[u] \notin crossed'
               PROVE  HasNode(u, sleeping[slp[u]])'
    BY DEF Queued
  <2>1. CASE u = t
    <3>1. sleeping'[slp'[u]] = r /\ stamp'[u] = stamp[u]
      BY <1>0, <1>7, <2>1 DEF TypeOK
    <3>2. /\ node.thread = u /\ node.stamp = stamp[u]
          /\ node.ticks = ticks + period \div TickInterval
      BY <1>1, <2>1
    <3>3. until'[u] = ticks * TickInterval + period
      BY <1>7, <2>1 DEF TypeOK
    <3>4. until'[u] < (node.ticks + 1) * TickInterval
      BY <1>p, <3>2, <3>3
    <3> QED
      BY <1>6, <3>1, <3>2, <3>4 DEF HasNode, IsNodeOf
  <2>2. CASE u # t
    <3>1. /\ pc[u] \in {"pause", "asleep"} /\ slp[u] \notin crossed
          /\ slp'[u] = slp[u] /\ until'[u] = until[u] /\ stamp'[u] = stamp[u]
      BY <1>7, <2>2 DEF TypeOK
    <3>2. HasNode(u, sleeping[slp[u]]) /\ slp[u] \in Cpu
      BY <3>1 DEF Queued, Chosen, InCall
    <3>3. CASE slp[u] # c
      <4>1. sleeping'[slp'[u]] = sleeping[slp[u]]
        BY <1>7, <3>1, <3>2, <3>3 DEF TypeOK
      <4> QED
        BY <3>1, <3>2, <4>1 DEF HasNode, IsNodeOf
    <3>4. CASE slp[u] = c
      <4>1. PICK i \in 1 .. Len(list) : IsNodeOf(list[i], u)
        BY <1>3, <3>2, <3>4 DEF HasNode
      <4>2. PICK j \in 1 .. Len(r) : r[j] = list[i]
        BY <1>6
      <4>3. sleeping'[slp'[u]] = r
        BY <1>7, <3>1, <3>4 DEF TypeOK
      <4> QED
        BY <3>1, <4>1, <4>2, <4>3 DEF HasNode, IsNodeOf
    <3> QED
      BY <3>3, <3>4
  <2> QED
    BY <2>1, <2>2
<1>14. TimerArmed'
  <2> SUFFICES ASSUME NEW d \in Cpu, d \notin crossed'
               PROVE  IF sleeping'[d] = <<>> THEN timer_ticks'[d] = 0
                      ELSE timer_ticks'[d] = Head(sleeping'[d]).ticks /\ timer_ticks'[d] # 0
    BY DEF TimerArmed
  <2>0. d \notin crossed
    BY <1>7
  <2>1. CASE d # c
    <3>1. sleeping'[d] = sleeping[d]
      BY <1>7, <2>1 DEF TypeOK
    <3>2. timer_ticks'[d] = timer_ticks[d]
      BY <1>7, <2>1 DEF TypeOK
    <3> QED
      BY <2>0, <3>1, <3>2 DEF TimerArmed
  <2>2. CASE d = c
    <3>0. c = h
      BY <1>7, <2>2
    <3>1. sleeping'[d] = r
      BY <1>7, <2>2 DEF TypeOK
    <3>2. CASE first
      <4>1. timer_ticks'[d] = node.ticks
        BY <1>7, <2>2, <3>0, <3>2 DEF TypeOK
      <4> QED
        BY <1>f, <1>6, <1>8, <3>1, <3>2, <4>1
    <3>3. CASE ~first
      <4>1. timer_ticks'[d] = timer_ticks[c] /\ Head(r) = Head(list) /\ list # <<>>
        BY <1>f, <1>6, <1>7, <2>2, <3>3
      <4>2. timer_ticks[c] = Head(list).ticks /\ timer_ticks[c] # 0
        BY <1>3, <2>0, <2>2, <4>1 DEF TimerArmed
      <4> QED
        BY <1>6, <3>1, <4>1, <4>2
    <3> QED
      BY <3>2, <3>3
  <2> QED
    BY <2>1, <2>2
<1> QED
  BY <1>9, <1>10, <1>11, <1>12, <1>13, <1>14

(* What a timer interrupt does to the sleepers of its CPU. *)
LEMMA TimerSteps ==
  ASSUME SleepInv, NEW c \in Cpu, Timer(c)
  PROVE  /\ ticks' \in Nat \ {0} /\ ~Masked(c)
         /\ UNCHANGED <<lock, stamp, crossed>>
         /\ \/ UNCHANGED <<timer_ticks, sleeping, pc, slp, until, home>>
            \/ timer_ticks[c] <= ticks' /\ sleep_timer_proc(c)
<1>1. /\ ticks' \in Nat \ {0} /\ ~Masked(c)
      /\ UNCHANGED <<lock, stamp, crossed>>
  BY DEF Timer, SleepInv, TypeOK
<1>2. CASE timer_ticks[c] # 0 /\ timer_ticks[c] <= ticks'
  BY <1>1, <1>2 DEF Timer
<1>3. CASE ~(timer_ticks[c] # 0 /\ timer_ticks[c] <= ticks')
  BY <1>1, <1>3 DEF Timer
<1> QED
  BY <1>2, <1>3

(* A thread that stops sleeping, or nobody *)
Wakes(t) ==
  /\ pc[t] = "asleep" /\ pc' = [pc EXCEPT ![t] = "run"]
  /\ slp' = [slp EXCEPT ![t] = NULL] /\ until' = [until EXCEPT ![t] = 0]
  /\ \E d \in Cpu : home' = [home EXCEPT ![t] = d]

LEMMA ProcFacts ==
  ASSUME SleepInv, NEW c \in Cpu, sleep_timer_proc(c), sleeping[c] # <<>>
  PROVE  \E node \in Node, rest \in Seq(Node) :
           /\ node = sleeping[c][1] /\ 1 \in 1 .. Len(sleeping[c])
           /\ node = Head(sleeping[c])
           /\ OrderedList(rest)
           /\ \A i \in 1 .. Len(sleeping[c]) :
                i = 1 \/ \E j \in 1 .. Len(rest) : rest[j] = sleeping[c][i]
           /\ sleeping' = [sleeping EXCEPT ![c] = rest]
           /\ \E due \in Nat :
                /\ timer_ticks' = [timer_ticks EXCEPT ![c] = due]
                /\ IF rest = <<>> THEN due = 0 ELSE due = Head(rest).ticks /\ due # 0
           /\ IF pc[node.thread] = "asleep" /\ node.stamp = stamp[node.thread]
              THEN Wakes(node.thread)
              ELSE UNCHANGED <<pc, slp, until, home>>
<1> USE DEF SleepInv
<1>1. PICK list : list = sleeping[c]
  OBVIOUS
<1>2. list \in Seq(Node) /\ OrderedList(list) /\ list # <<>>
  BY <1>1 DEF TypeOK, Ordered
<1>3. PICK node, rest : node = Head(list) /\ rest = Tail(list)
  OBVIOUS
<1>4. /\ node \in Node /\ rest \in Seq(Node) /\ OrderedList(rest)
      /\ rest # <<>> => Head(rest) \in Node
      /\ node = list[1]
      /\ \A i \in 1 .. Len(list) : i = 1 \/ \E j \in 1 .. Len(rest) : rest[j] = list[i]
  BY <1>2, <1>3, TailFacts
<1>5. PICK due : due = IF rest = <<>> THEN 0 ELSE Head(rest).ticks
  OBVIOUS
<1>6. due \in Nat /\ IF rest = <<>> THEN due = 0 ELSE due = Head(rest).ticks /\ due # 0
  BY <1>4, <1>5 DEF Node
<1>7. /\ sleeping' = [sleeping EXCEPT ![c] = rest]
      /\ timer_ticks' = [timer_ticks EXCEPT ![c] = due]
      /\ IF Resumes(node)
         THEN /\ Leave(node.thread, "run")
              /\ \E d \in Cpu : home' = [home EXCEPT ![node.thread] = d]
         ELSE UNCHANGED <<pc, slp, until, home>>
  BY <1>1, <1>3, <1>5 DEF sleep_timer_proc
<1>8. IF pc[node.thread] = "asleep" /\ node.stamp = stamp[node.thread]
      THEN Wakes(node.thread)
      ELSE UNCHANGED <<pc, slp, until, home>>
  BY <1>7 DEF Resumes, Wakes, Leave, Go
<1>9. 1 \in 1 .. Len(list)
  BY <1>2
<1> QED
  BY <1>1, <1>3, <1>4, <1>6, <1>7, <1>8, <1>9

LEMMA TimerKeeps ==
  ASSUME SleepInv, NEW c \in Cpu, Timer(c) PROVE SleepInv'
<1> USE SleepAssumption DEF SleepAssumption, SleepInv
<1>0. ticks' \in Nat \ {0} /\ ~Masked(c) /\ UNCHANGED <<lock, stamp, crossed>>
  BY TimerSteps
<1>1. CASE UNCHANGED <<timer_ticks, sleeping, pc, slp, until, home>>
  <2>1. TypeOK' /\ Chosen' /\ Locked' /\ Queued'
    BY <1>0, <1>1 DEF TypeOK, Chosen, InCall, Locked, Queued, HasNode, IsNodeOf
  <2> QED
    BY <1>0, <1>1, <2>1, ListsStay
<1>2. CASE sleep_timer_proc(c) /\ sleeping[c] = <<>>
  <2>0. /\ timer_ticks' = [timer_ticks EXCEPT ![c] = 0]
        /\ UNCHANGED <<sleeping, pc, slp, until, home>>
    BY <1>2 DEF sleep_timer_proc
  <2>1. TypeOK' /\ Chosen' /\ Locked' /\ Queued' /\ Ordered'
    BY <1>0, <2>0 DEF TypeOK, Chosen, InCall, Locked, Queued, HasNode, IsNodeOf, Ordered
  <2>2. TimerArmed'
    BY <1>0, <1>2, <2>0 DEF TypeOK, TimerArmed
  <2> QED
    BY <2>1, <2>2
<1>3. CASE sleep_timer_proc(c) /\ sleeping[c] # <<>>
  <2>1. PICK node \in Node, rest \in Seq(Node), due \in Nat :
          /\ node = sleeping[c][1] /\ 1 \in 1 .. Len(sleeping[c])
          /\ OrderedList(rest)
          /\ \A i \in 1 .. Len(sleeping[c]) :
               i = 1 \/ \E j \in 1 .. Len(rest) : rest[j] = sleeping[c][i]
          /\ sleeping' = [sleeping EXCEPT ![c] = rest]
          /\ timer_ticks' = [timer_ticks EXCEPT ![c] = due]
          /\ IF rest = <<>> THEN due = 0 ELSE due = Head(rest).ticks /\ due # 0
          /\ IF pc[node.thread] = "asleep" /\ node.stamp = stamp[node.thread]
             THEN Wakes(node.thread)
             ELSE UNCHANGED <<pc, slp, until, home>>
    BY <1>3, ProcFacts
  <2>2. PICK t \in Thread : t = node.thread
    BY <2>1 DEF Node
  <2>3. UNCHANGED <<pc, slp, until, home>> \/ Wakes(t)
    BY <2>1, <2>2
  <2>4. TypeOK'
    <3>1. sleeping' \in [Cpu -> Seq(Node)] /\ timer_ticks' \in [Cpu -> Nat]
      BY <2>1 DEF TypeOK
    <3>2. /\ pc' \in [Thread -> PCs] /\ home' \in [Thread -> Cpu \cup {NULL}]
          /\ slp' \in [Thread -> Cpu \cup {NULL}] /\ until' \in [Thread -> Nat]
      <4>1. CASE UNCHANGED <<pc, slp, until, home>>
        BY <4>1 DEF TypeOK
      <4>2. CASE Wakes(t)
        <5>1. PICK d \in Cpu : home' = [home EXCEPT ![t] = d]
          BY <4>2 DEF Wakes
        <5> QED
          BY <4>2, <5>1 DEF TypeOK, PCs, Wakes
      <4> QED
        BY <2>3, <4>1, <4>2
    <3> QED
      BY <1>0, <3>1, <3>2 DEF TypeOK
  <2>5. \A u \in Thread : pc'[u] # "run" \/ pc[u] = "run" =>
          pc'[u] = pc[u] /\ slp'[u] = slp[u] /\ home'[u] = home[u] /\ until'[u] = until[u]
    BY <2>3 DEF TypeOK, Wakes
  <2>6. Chosen'
    <3>1. ASSUME NEW u \in Thread, pc'[u] = "run" PROVE home'[u] \in Cpu
      <4>1. CASE UNCHANGED <<pc, slp, until, home>>
        BY <3>1, <4>1 DEF Chosen
      <4>2. CASE Wakes(t)
        <5>1. PICK d \in Cpu : home' = [home EXCEPT ![t] = d]
          BY <4>2 DEF Wakes
        <5>2. u # t => pc[u] = "run"
          BY <3>1, <4>2 DEF TypeOK, Wakes
        <5> QED
          BY <5>1, <5>2 DEF TypeOK, Chosen
      <4> QED
        BY <2>3, <4>1, <4>2
    <3> QED
      BY <1>0, <2>5, <3>1 DEF Chosen, InCall
  <2>7. Locked'
    BY <1>0, <2>5 DEF Locked
  <2>8. Ordered'
    BY <2>1 DEF TypeOK, Ordered
  <2>9. Queued'
    <3> SUFFICES ASSUME NEW u \in Thread, pc'[u] \in {"pause", "asleep"},
                        slp'[u] \notin crossed'
                 PROVE  HasNode(u, sleeping[slp[u]])'
      BY DEF Queued
    <3>1. /\ pc[u] = pc'[u] /\ slp'[u] = slp[u] /\ until'[u] = until[u]
          /\ stamp'[u] = stamp[u] /\ slp[u] \notin crossed
      BY <1>0, <2>5
    <3>2. HasNode(u, sleeping[slp[u]]) /\ slp[u] \in Cpu
      BY <3>1 DEF Queued, Chosen, InCall
    <3>3. CASE slp[u] # c
      <4>1. sleeping'[slp'[u]] = sleeping[slp[u]]
        BY <2>1, <3>1, <3>2, <3>3 DEF TypeOK
      <4> QED
        BY <3>1, <3>2, <4>1 DEF HasNode, IsNodeOf
    <3>4. CASE slp[u] = c
      <4>1. PICK i \in 1 .. Len(sleeping[c]) : IsNodeOf(sleeping[c][i], u)
        BY <3>2, <3>4 DEF HasNode
      <4>2. i # 1
        <5>1. SUFFICES ASSUME i = 1 PROVE FALSE
          OBVIOUS
        <5>2. node.thread = u /\ node.stamp = stamp[u]
          BY <2>1, <4>1, <5>1 DEF IsNodeOf
        <5>3. pc[u] = "pause"
          <6>1. pc[u] = "asleep" => Wakes(u)
            BY <2>1, <5>2
          <6> QED
            BY <3>1, <6>1 DEF Wakes, TypeOK
        <5>4. home[u] = c
          BY <3>1, <3>4, <5>3 DEF Chosen
        <5> QED
          BY <1>0, <5>3, <5>4 DEF Masked
      <4>3. PICK j \in 1 .. Len(rest) : rest[j] = sleeping[c][i]
        BY <2>1, <4>2
      <4>4. sleeping'[slp'[u]] = rest
        BY <2>1, <3>1, <3>4 DEF TypeOK
      <4> QED
        BY <3>1, <4>1, <4>3, <4>4 DEF HasNode, IsNodeOf
    <3> QED
      BY <3>3, <3>4
  <2>10. TimerArmed'
    <3> SUFFICES ASSUME NEW d \in Cpu, d \notin crossed'
                 PROVE  IF sleeping'[d] = <<>> THEN timer_ticks'[d] = 0
                        ELSE timer_ticks'[d] = Head(sleeping'[d]).ticks /\ timer_ticks'[d] # 0
      BY DEF TimerArmed
    <3>1. CASE d # c
      BY <1>0, <2>1, <3>1 DEF TypeOK, TimerArmed
    <3>2. CASE d = c
      <4>1. sleeping'[d] = rest /\ timer_ticks'[d] = due
        BY <2>1, <3>2 DEF TypeOK
      <4> QED
        BY <2>1, <4>1
    <3> QED
      BY <3>1, <3>2
  <2> QED
    BY <2>4, <2>6, <2>7, <2>8, <2>9, <2>10
<1> QED
  BY <1>1, <1>2, <1>3, TimerSteps

LEMMA OthersKeep ==
  ASSUME SleepInv, NEW t \in Thread, NEW c \in Cpu,
         Stop(t) \/ Restart(t) \/ Resume(t) \/ Move(t, c)
  PROVE  SleepInv'
<1> USE SleepAssumption DEF SleepAssumption, SleepInv, Go, Leave
<1>1. CASE Stop(t)
  <2>1. TypeOK'
    BY <1>1 DEF Stop, TypeOK, PCs
  <2>2. Chosen' /\ Locked'
    BY <1>1 DEF Stop, TypeOK, Chosen, InCall, Locked
  <2>3. Queued'
    BY <1>1, QueueStays DEF Stop, TypeOK
  <2> QED
    BY <1>1, <2>1, <2>2, <2>3, ListsStay DEF Stop
<1>2. CASE Restart(t)
  <2>1. TypeOK'
    BY <1>2 DEF Restart, TypeOK, PCs
  <2>2. Chosen' /\ Locked'
    BY <1>2 DEF Restart, TypeOK, Chosen, InCall, Locked
  <2>3. Queued'
    BY <1>2, QueueStays DEF Restart, TypeOK
  <2> QED
    BY <1>2, <2>1, <2>2, <2>3, ListsStay DEF Restart
<1>3. CASE Resume(t)
  <2>1. TypeOK'
    BY <1>3 DEF Resume, TypeOK, PCs
  <2>2. Chosen' /\ Locked'
    BY <1>3 DEF Resume, TypeOK, Chosen, InCall, Locked
  <2>3. Queued'
    BY <1>3, QueueStays DEF Resume, TypeOK
  <2> QED
    BY <1>3, <2>1, <2>2, <2>3, ListsStay DEF Resume
<1>4. CASE Move(t, c)
  <2>1. TypeOK'
    BY <1>4 DEF Move, TypeOK
  <2>2. Chosen' /\ Locked'
    BY <1>4 DEF Move, TypeOK, Chosen, InCall, Locked
  <2>3. Queued'
    BY <1>4, QueueStays DEF Move, TypeOK
  <2> QED
    BY <1>4, <2>1, <2>2, <2>3, ListsStay DEF Move
<1> QED
  BY <1>1, <1>2, <1>3, <1>4

LEMMA SleepStep == SleepInv /\ [Next]_vars => SleepInv'
<1> SUFFICES ASSUME SleepInv, [Next]_vars PROVE SleepInv'
  OBVIOUS
<1>1. ASSUME NEW t \in Thread, sleep(t) PROVE SleepInv'
  BY <1>1, sleepKeeps
<1>2. ASSUME NEW t \in Thread, Step(t) PROVE SleepInv'
  <2>1. CASE Disable(t)
    BY <2>1, DisableKeeps
  <2>2. CASE Acquire(t)
    BY <2>2, AcquireKeeps
  <2>3. CASE NoMemory(t)
    <3>1. /\ slp'[t] = NULL /\ home'[t] = home[t] /\ home[t] \in Cpu \cup {NULL}
          /\ home' = [home EXCEPT ![t] = home'[t]]
      BY <2>3 DEF NoMemory, SleepInv, TypeOK
    <3> QED
      BY <2>3, <3>1, ReleaseKeeps DEF NoMemory
  <2>4. ASSUME NEW period \in Period, Insert(t, period) PROVE SleepInv'
    BY <2>4, InsertKeeps
  <2>5. CASE Pause(t)
    <3>1. /\ home'[t] = NULL /\ slp'[t] = slp[t] /\ slp[t] \in Cpu \cup {NULL}
          /\ slp' = [slp EXCEPT ![t] = slp'[t]]
      BY <2>5 DEF Pause, SleepInv, TypeOK
    <3> QED
      BY <2>5, <3>1, ReleaseKeeps DEF Pause
  <2> QED
    BY <1>2, <2>1, <2>2, <2>3, <2>4, <2>5 DEF Step
<1>3. ASSUME NEW t \in Thread, Stop(t) \/ Restart(t) \/ Resume(t) PROVE SleepInv'
  BY <1>3, OthersKeep, SleepAssumption DEF SleepAssumption
<1>4. ASSUME NEW c \in Cpu, NEW t \in Thread, Move(t, c) PROVE SleepInv'
  BY <1>4, OthersKeep
<1>5. ASSUME NEW c \in Cpu, Timer(c) PROVE SleepInv'
  BY <1>5, TimerKeeps
<1>6. CASE UNCHANGED vars
  BY <1>6 DEF vars, SleepInv, TypeOK, Ordered, Chosen, InCall, Locked, Queued,
              HasNode, IsNodeOf, TimerArmed
<1> QED
  BY <1>1, <1>2, <1>3, <1>4, <1>5, <1>6 DEF Next

LEMMA SleepInvariant == Spec => []SleepInv
  BY SleepInit, SleepStep, PTL DEF Spec
-----------------------------------------------------------------------------
(* TimerArmed: the timer of each CPU is set for the first of its sleepers, *)
(* however sleep inserts nodes and sleep_timer_proc takes them away, until *)
(* a thread of another CPU gets at its list or its timer.                  *)
THEOREM TimerIsArmed == Spec => []TimerArmed
  BY SleepInvariant, PTL DEF SleepInv

(* What lets sleep_timer_proc do without the lock of the list: who is      *)
(* about to change a list, or has changed it and not paused yet, finds it  *)
(* as it is, unless it has been moved to another CPU since it chose it.    *)
ListIsPrivate ==
  [][\A t \in Thread :
       /\ pc[t] \in {"insert", "pause"} /\ pc'[t] = pc[t]
       /\ sleeping'[slp[t]] # sleeping[slp[t]]
       => home[t] # slp[t]]_vars

(* ListIsPrivate: neither sleep_timer_proc, which takes no lock, nor       *)
(* another thread changes the list under a thread that is on its own CPU.  *)
THEOREM NobodyElseInTheList == Spec => ListIsPrivate
<1> DEFINE Private ==
      \A t \in Thread :
        /\ pc[t] \in {"insert", "pause"} /\ pc'[t] = pc[t]
        /\ sleeping'[slp[t]] # sleeping[slp[t]]
        => home[t] # slp[t]
<1>1. SleepInv /\ [Next]_vars => [Private]_vars
  <2> SUFFICES ASSUME SleepInv, Next, NEW t \in Thread,
                      pc[t] \in {"insert", "pause"}, pc'[t] = pc[t],
                      sleeping'[slp[t]] # sleeping[slp[t]], home[t] = slp[t]
               PROVE  FALSE
    OBVIOUS
  <2>0. slp[t] \in Cpu /\ Masked(slp[t]) /\ lock[slp[t]] = t
    BY DEF SleepInv, Chosen, InCall, Masked, Locked
  <2>1. ASSUME NEW u \in Thread, NEW period \in Period, Insert(u, period) PROVE FALSE
    <3>1. pc[u] = "insert" /\ pc'[u] = "pause" /\ lock[slp[u]] = u
      BY <2>1 DEF Insert, Go, SleepInv, TypeOK, Locked
    <3>2. slp[u] = slp[t]
      BY <2>0, <2>1 DEF Insert, SleepInv, TypeOK
    <3> QED
      BY <2>0, <3>1, <3>2
  <2>2. ASSUME NEW c \in Cpu, Timer(c) PROVE FALSE
    <3>1. c # slp[t]
      BY <2>0, <2>2, TimerSteps
    <3>2. CASE sleeping[c] = <<>>
      BY <2>2, <3>2, TimerSteps DEF sleep_timer_proc
    <3>3. CASE sleeping[c] # <<>> /\ sleep_timer_proc(c)
      <4>1. \E rest : sleeping' = [sleeping EXCEPT ![c] = rest]
        BY <3>3, ProcFacts
      <4> QED
        BY <2>0, <3>1, <4>1 DEF SleepInv, TypeOK
    <3> QED
      BY <2>2, <3>2, <3>3, TimerSteps
  <2> QED
    BY <2>1, <2>2 DEF Next, sleep, Step, Disable, Acquire, NoMemory, Pause, Stop,
                      Restart, Resume, Move
<1> QED
  BY <1>1, SleepInvariant, PTL DEF Spec, ListIsPrivate

(* NeverEarly: sleep_timer_proc resumes a thread by the node that the      *)
(* thread sleeps by, whose tick has come, or by one left behind.           *)
THEOREM NobodyWakesEarly == Spec => NeverEarly
<1> DEFINE InTime ==
      \A t \in Thread :
        (/\ pc[t] = "asleep" /\ pc'[t] = "run" /\ sleeping' # sleeping
         /\ slp[t] \notin crossed)
        => until[t] < (ticks' + 1) * TickInterval \/ LeftBehind(t)
<1>1. SleepInv /\ [Next]_vars => [InTime]_vars
  <2> SUFFICES ASSUME SleepInv, Next, NEW t \in Thread,
                      pc[t] = "asleep", pc'[t] = "run", sleeping' # sleeping,
                      slp[t] \notin crossed
               PROVE  until[t] < (ticks' + 1) * TickInterval \/ LeftBehind(t)
    OBVIOUS
  <2> USE DEF SleepInv
  <2>1. PICK c \in Cpu : Timer(c)
    <3>1. ASSUME NEW u \in Thread, sleep(u) \/ Step(u) \/ Stop(u) \/ Restart(u) \/ Resume(u)
          PROVE  FALSE
      <4>1. ASSUME NEW period \in Period, Insert(u, period) PROVE FALSE
        BY <4>1 DEF Insert, Go, TypeOK
      <4> QED
        BY <3>1, <4>1 DEF sleep, Step, Disable, Acquire, NoMemory, Pause, Stop, Restart,
                          Resume
    <3>2. ASSUME NEW c \in Cpu, NEW u \in Thread, Move(u, c) PROVE FALSE
      BY <3>2 DEF Move
    <3> QED
      BY <3>1, <3>2 DEF Next
  <2>2. timer_ticks[c] <= ticks' /\ sleep_timer_proc(c) /\ ticks' \in Nat
    BY <2>1, TimerSteps
  <2>3. sleeping[c] # <<>>
    BY <2>2 DEF sleep_timer_proc
  <2>4. PICK node \in Node :
          /\ node = sleeping[c][1] /\ 1 \in 1 .. Len(sleeping[c])
          /\ node = Head(sleeping[c])
          /\ IF pc[node.thread] = "asleep" /\ node.stamp = stamp[node.thread]
             THEN Wakes(node.thread)
             ELSE UNCHANGED <<pc, slp, until, home>>
    BY <2>2, <2>3, ProcFacts
  <2>5. node.thread = t /\ node.stamp = stamp[t]
    BY <2>4 DEF Wakes, TypeOK, Node
  <2>6. slp[t] \in Cpu /\ HasNode(t, sleeping[slp[t]])
    BY DEF Chosen, Queued
  <2>7. PICK i \in 1 .. Len(sleeping[slp[t]]) : IsNodeOf(sleeping[slp[t]][i], t)
    BY <2>6 DEF HasNode
  <2>8. \A d \in Cpu : DOMAIN sleeping[d] = 1 .. Len(sleeping[d])
    BY NodeTicks DEF TypeOK
  <2>9. 1 \in NodesOf(t, c) /\ i \in NodesOf(t, slp[t])
    BY <2>4, <2>5, <2>6, <2>7, <2>8 DEF NodesOf, IsNodeOf
  <2>10. CASE <<c, 1>> # <<slp[t], i>>
    BY <2>6, <2>9, <2>10 DEF LeftBehind
  <2>11. CASE c = slp[t] /\ i = 1
    <3>1. timer_ticks[c] = node.ticks
      BY <2>3, <2>4, <2>11 DEF TimerArmed
    <3>2. node.ticks \in Nat /\ node.ticks <= ticks'
      BY <2>2, <3>1 DEF Node
    <3>3. until[t] < (node.ticks + 1) * TickInterval
      BY <2>4, <2>7, <2>11 DEF IsNodeOf
    <3>4. (node.ticks + 1) * TickInterval <= (ticks' + 1) * TickInterval
      BY <2>2, <3>2, Later
    <3>5. until[t] \in Nat /\ TickInterval \in Nat
      BY SleepAssumption DEF SleepAssumption, TypeOK
    <3>6. PICK x, y : x = (node.ticks + 1) * TickInterval /\ y = (ticks' + 1) * TickInterval
      OBVIOUS
    <3>7. x \in Nat /\ y \in Nat
      <4>1. node.ticks + 1 \in Nat /\ ticks' + 1 \in Nat
        BY <2>2, <3>2
      <4>2. \A a, b \in Nat : a * b \in Nat
        OBVIOUS
      <4> QED
        BY <3>5, <3>6, <4>1, <4>2
    <3> QED
      BY <3>3, <3>4, <3>5, <3>6, <3>7
  <2> QED
    BY <2>10, <2>11
<1> QED
  BY <1>1, SleepInvariant, PTL DEF Spec, NeverEarly
=============================================================================
