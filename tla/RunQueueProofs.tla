--------------------------- MODULE RunQueueProofs ---------------------------
(***************************************************************************)
(* What the operations of RunQueue keep of a queue, and what they do to    *)
(* its threads, for every number of priorities and every set of threads.   *)
(***************************************************************************)
EXTENDS RunQueue, ListProofs

(* The threads of one priority *)
At(k, p) == ToSet(k.active[p]) \cup ToSet(k.expired[p])

(* What the scheduler relies on: a thread is in one list only, the one of  *)
(* its priority; a priority with threads has an active_tail; and           *)
(* current_priority is one of those.                                       *)
Apart(k, p) ==
  /\ Distinct(k.active[p]) /\ Distinct(k.expired[p])
  /\ ToSet(k.active[p]) \cap ToSet(k.expired[p]) = {}
  /\ \A t \in At(k, p) : Priority[t] = p

ListsOK(k, p) == Apart(k, p) /\ (k.active[p] = <<>> => k.expired[p] = <<>>)

WellFormed(k) ==
  /\ k \in Queue
  /\ \A p \in Prio : ListsOK(k, p)
  /\ ~IsIdle(k) => k.active[k.current] # <<>>

(* r is k, but for the lists of priority p *)
SameBut(k, r, p) ==
  /\ k \in Queue /\ r \in Queue
  /\ r.current = k.current /\ r.load = k.load
  /\ \A q \in Prio \ {p} : /\ r.active[q] = k.active[q]
                           /\ r.expired[q] = k.expired[q]
-----------------------------------------------------------------------------
(* Queues *)

LEMMA PrioFacts == Prio \subseteq Nat /\ \A t \in Thread : Priority[t] \in Prio
  BY PriorityAssumption DEF Prio

(* __find_mask_bsf finds the most urgent priority that has threads. *)
LEMMA HighestFacts ==
  ASSUME NEW k, ~IsIdle(k)
  PROVE  Highest(k) \in Mask(k) /\ \A o \in Mask(k) : Highest(k) <= o
<1>1. Mask(k) \subseteq Nat /\ Mask(k) # {}
  BY PrioFacts DEF Mask, IsIdle
<1>2. \E x \in Mask(k) : \A y \in Mask(k) : ~(<<y, x>> \in OpToRel(<, Nat))
  BY <1>1, WFMin, NatLessThanWellFounded
<1>3. PICK x \in Mask(k) : \A y \in Mask(k) : ~(<<y, x>> \in OpToRel(<, Nat))
  BY <1>2
<1>4. ASSUME NEW y \in Mask(k) PROVE x <= y
  <2>1. x \in Nat /\ y \in Nat
    BY <1>1
  <2>2. y < x => <<y, x>> \in OpToRel(<, Nat)
    BY <2>1 DEF OpToRel
  <2>3. ~(y < x)
    BY <1>3, <2>2, Zenon
  <2> QED
    BY <2>1, <2>3
<1> QED
  BY <1>4 DEF Highest

LEMMA MembersFacts ==
  ASSUME NEW k \in Queue
  PROVE  /\ \A t : t \in Members(k) <=> \E p \in Prio : t \in At(k, p)
         /\ Members(k) \subseteq Thread
         /\ \A p \in Prio : At(k, p) \subseteq Thread
         /\ \A p \in Prio : p \in Mask(k) <=> At(k, p) # {}
<1>1. \A t : t \in Members(k) <=> \E p \in Prio : t \in At(k, p)
  <2>1. Members(k) = UNION {At(k, p) : p \in Prio}
    BY DEF Members, At
  <2> QED
    BY <2>1
<1>2. ASSUME NEW p \in Prio
      PROVE  At(k, p) \subseteq Thread /\ (p \in Mask(k) <=> At(k, p) # {})
  <2>1. k.active[p] \in Seq(Thread) /\ k.expired[p] \in Seq(Thread)
    BY DEF Queue
  <2> QED
    BY <2>1, ToSetFacts DEF At, Mask
<1> QED
  BY <1>1, <1>2

(* In a well-formed queue a thread is found by its own priority, and a     *)
(* priority has threads when its active list has.                          *)
LEMMA WellFormedFacts ==
  ASSUME NEW k, WellFormed(k)
  PROVE  /\ \A t : t \in Members(k) <=>
                    t \in Thread /\ t \in At(k, Priority[t])
         /\ \A p \in Prio : p \in Mask(k) <=> k.active[p] # <<>>
         /\ IsIdle(k) <=> Members(k) = {}
         /\ ~IsIdle(k) => /\ k.current \in Mask(k)
                          /\ Current(k) \in Members(k)
                          /\ Current(k) \in ToSet(k.active[k.current])
                          /\ Priority[Current(k)] = k.current
<1>0. /\ \A t : t \in Members(k) <=> \E p \in Prio : t \in At(k, p)
      /\ \A p \in Prio : At(k, p) \subseteq Thread
  BY MembersFacts DEF WellFormed
<1>b. \A p \in Prio : \A t \in At(k, p) : Priority[t] = p
  BY DEF WellFormed, ListsOK, Apart
<1>1. \A t : t \in Members(k) <=> t \in Thread /\ t \in At(k, Priority[t])
  BY <1>0, <1>b, PrioFacts
<1>2. \A p \in Prio : p \in Mask(k) <=> k.active[p] # <<>>
  BY DEF WellFormed, ListsOK, Mask
<1>3. IsIdle(k) <=> Members(k) = {}
  BY MembersFacts DEF WellFormed, IsIdle, Mask
<1>4. ASSUME ~IsIdle(k)
      PROVE  /\ k.current \in Mask(k)
             /\ Current(k) \in Members(k)
             /\ Current(k) \in ToSet(k.active[k.current])
             /\ Priority[Current(k)] = k.current
  <2>1. k.current \in Prio /\ k.active[k.current] # <<>>
    BY <1>4 DEF WellFormed, Queue
  <2>2. k.active[k.current] \in Seq(Thread)
    BY <2>1 DEF WellFormed, Queue
  <2>3. Current(k) \in ToSet(k.active[k.current])
    BY <2>1, <2>2, ToSetFacts DEF Current
  <2> QED
    BY <1>2, <2>1, <2>3, MembersFacts DEF WellFormed, ListsOK, Apart, At
<1> QED
  BY <1>1, <1>2, <1>3, <1>4

(* What changes the lists of one priority changes its threads only. *)
LEMMA OnePriority ==
  ASSUME NEW k, NEW r, NEW p \in Prio, SameBut(k, r, p)
  PROVE  /\ \A t : t \in Members(r) <=>
                    t \in At(r, p) \/ \E q \in Prio \ {p} : t \in At(k, q)
         /\ \A q \in Prio \ {p} : /\ ListsOK(k, q) => ListsOK(r, q)
                                  /\ q \in Mask(r) <=> q \in Mask(k)
<1>1. \A q \in Prio \ {p} : At(r, q) = At(k, q)
  BY DEF SameBut, At
<1>2. \A t : t \in Members(r) <=> t \in At(r, p) \/ \E q \in Prio \ {p} : t \in At(k, q)
  BY <1>1, MembersFacts DEF SameBut
<1>3. ASSUME NEW q \in Prio \ {p}
      PROVE  /\ ListsOK(k, q) => ListsOK(r, q)
             /\ q \in Mask(r) <=> q \in Mask(k)
  <2>1. r.active[q] = k.active[q] /\ r.expired[q] = k.expired[q]
    BY DEF SameBut
  <2> QED
    BY <1>1, <2>1 DEF ListsOK, Apart, Mask
<1> QED
  BY <1>2, <1>3
-----------------------------------------------------------------------------
(* The steps the functions are made of *)

(* [k EXCEPT !.active[p] = a, !.expired[p] = e], field by field *)
WithLists(k, p, a, e) ==
  [active |-> [k.active EXCEPT ![p] = a],
   expired |-> [k.expired EXCEPT ![p] = e],
   current |-> k.current, load |-> k.load]

LEMMA SetLists ==
  ASSUME NEW k \in Queue, NEW p \in Prio,
         NEW a \in Seq(Thread), NEW e \in Seq(Thread)
  PROVE  LET r == WithLists(k, p, a, e)
         IN  SameBut(k, r, p) /\ r.active[p] = a /\ r.expired[p] = e
<1> DEFINE r == WithLists(k, p, a, e)
<1>1. r = [active |-> [k.active EXCEPT ![p] = a],
           expired |-> [k.expired EXCEPT ![p] = e],
           current |-> k.current, load |-> k.load]
  BY DEF WithLists
<1> HIDE DEF r
<1>2. /\ [k.active EXCEPT ![p] = a] \in [Prio -> Seq(Thread)]
      /\ [k.expired EXCEPT ![p] = e] \in [Prio -> Seq(Thread)]
      /\ k.current \in Prio /\ k.load \in BOOLEAN
  BY DEF Queue
<1>3. r \in Queue
  BY <1>1, <1>2 DEF Queue
<1>4. /\ r.active = [k.active EXCEPT ![p] = a]
      /\ r.expired = [k.expired EXCEPT ![p] = e]
      /\ r.current = k.current /\ r.load = k.load
  BY <1>1
<1>5. k.active \in [Prio -> Seq(Thread)] /\ k.expired \in [Prio -> Seq(Thread)]
  BY DEF Queue
<1>6. /\ r.active[p] = a /\ r.expired[p] = e
      /\ \A q \in Prio \ {p} : r.active[q] = k.active[q] /\ r.expired[q] = k.expired[q]
  BY <1>4, <1>5
<1> QED
  BY <1>3, <1>4, <1>6 DEF SameBut, r

(* An update of one of the two lists of a priority *)
LEMMA SetActive ==
  ASSUME NEW k \in Queue, NEW p \in Prio, NEW s \in Seq(Thread)
  PROVE  [k EXCEPT !.active[p] = s] = WithLists(k, p, s, k.expired[p])
<1>1. k.expired \in [Prio -> Seq(Thread)]
  BY DEF Queue
<1>2. [k.expired EXCEPT ![p] = k.expired[p]] = k.expired
  BY <1>1
<1>3. PICK r : r = [k EXCEPT !.active[p] = s]
  OBVIOUS
<1>4. /\ r.active = [k.active EXCEPT ![p] = s] /\ r.expired = k.expired
      /\ r.current = k.current /\ r.load = k.load
  BY <1>3 DEF Queue
<1>5. r = [active |-> r.active, expired |-> r.expired,
           current |-> r.current, load |-> r.load]
  BY <1>3 DEF Queue
<1>6. r = WithLists(k, p, s, k.expired[p])
  BY <1>2, <1>4, <1>5 DEF WithLists
<1> QED
  BY <1>3, <1>6

LEMMA SetExpired ==
  ASSUME NEW k \in Queue, NEW p \in Prio, NEW s \in Seq(Thread)
  PROVE  [k EXCEPT !.expired[p] = s] = WithLists(k, p, k.active[p], s)
<1>1. k.active \in [Prio -> Seq(Thread)]
  BY DEF Queue
<1>2. [k.active EXCEPT ![p] = k.active[p]] = k.active
  BY <1>1
<1>3. PICK r : r = [k EXCEPT !.expired[p] = s]
  OBVIOUS
<1>4. /\ r.expired = [k.expired EXCEPT ![p] = s] /\ r.active = k.active
      /\ r.current = k.current /\ r.load = k.load
  BY <1>3 DEF Queue
<1>5. r = [active |-> r.active, expired |-> r.expired,
           current |-> r.current, load |-> r.load]
  BY <1>3 DEF Queue
<1>6. r = WithLists(k, p, k.active[p], s)
  BY <1>2, <1>4, <1>5 DEF WithLists
<1> QED
  BY <1>3, <1>6

LEMMA AddExpiredFacts ==
  ASSUME NEW k \in Queue, NEW t \in Thread,
         Apart(k, Priority[t]), t \notin At(k, Priority[t])
  PROVE  LET p == Priority[t]
             r == AddExpired(k, t)
         IN  /\ SameBut(k, r, p)
             /\ Apart(r, p)
             /\ At(r, p) = At(k, p) \cup {t}
             /\ p \in Mask(k) => r.active[p] = k.active[p]
             /\ p \notin Mask(k) => r.active[p] = <<t>>
<1> DEFINE p == Priority[t]
           r == AddExpired(k, t)
<1>0. p \in Prio
  BY PrioFacts
<1>1. k.active[p] \in Seq(Thread) /\ k.expired[p] \in Seq(Thread)
  BY <1>0 DEF Queue
<1> HIDE DEF p, r
<1>2. CASE p \in Mask(k)
  <2>1. r = [k EXCEPT !.expired[p] = Append(@, t)]
    BY <1>2 DEF AddExpired, p, r
  <2>2. t \notin ToSet(k.expired[p]) /\ Distinct(k.expired[p])
    BY DEF At, Apart, p
  <2>3. /\ Append(k.expired[p], t) \in Seq(Thread)
        /\ Distinct(Append(k.expired[p], t))
        /\ ToSet(Append(k.expired[p], t)) = ToSet(k.expired[p]) \cup {t}
    BY <1>1, <2>2, AppendFacts
  <2>4. SameBut(k, r, p) /\ r.active[p] = k.active[p]
        /\ r.expired[p] = Append(k.expired[p], t)
    <3>1. PICK e \in Seq(Thread) : e = Append(k.expired[p], t)
      BY <2>3
    <3>2. r = [k EXCEPT !.expired[p] = e]
      BY <2>1, <3>1
    <3>3. r = WithLists(k, p, k.active[p], e)
      <4>1. [k EXCEPT !.expired[p] = e] = WithLists(k, p, k.active[p], e)
        BY <1>0, SetExpired
      <4> QED
        BY <3>2, <4>1, Zenon
    <3>4. PICK a \in Seq(Thread) : a = k.active[p]
      BY <1>1
    <3>5. SameBut(k, r, p) /\ r.active[p] = a /\ r.expired[p] = e
      BY <1>0, <3>3, <3>4, SetLists
    <3> QED
      BY <3>1, <3>4, <3>5
  <2>5. At(r, p) = At(k, p) \cup {t}
    BY <2>3, <2>4 DEF At
  <2>6. Apart(r, p)
    <3>1. /\ Distinct(k.active[p])
          /\ ToSet(k.active[p]) \cap ToSet(k.expired[p]) = {}
          /\ \A u \in At(k, p) : Priority[u] = p
          /\ t \notin ToSet(k.active[p])
      BY DEF Apart, At, p
    <3>2. \A u \in At(r, p) : Priority[u] = p
      BY <2>5, <3>1 DEF p
    <3> QED
      BY <2>3, <2>4, <3>1, <3>2 DEF Apart
  <2> QED
    BY <1>2, <2>4, <2>5, <2>6 DEF p, r
<1>3. CASE p \notin Mask(k)
  <2>1. r = [k EXCEPT !.active[p] = <<t>>]
    BY <1>3 DEF AddExpired, p, r
  <2>2. k.active[p] = <<>> /\ k.expired[p] = <<>>
    BY <1>0, <1>3 DEF Mask
  <2>3. SameBut(k, r, p) /\ r.active[p] = <<t>> /\ r.expired[p] = <<>>
    <3>0. <<t>> \in Seq(Thread)
      OBVIOUS
    <3>1. PICK a \in Seq(Thread) : a = <<t>>
      BY <3>0
    <3>2. PICK e \in Seq(Thread) : e = k.expired[p]
      BY <1>1
    <3>3. r = WithLists(k, p, a, e)
      <4>1. [k EXCEPT !.active[p] = a] = WithLists(k, p, a, k.expired[p])
        BY <1>0, SetActive, Zenon
      <4> QED
        BY <2>1, <3>1, <3>2, <4>1, Zenon
    <3>4. SameBut(k, r, p) /\ r.active[p] = a /\ r.expired[p] = e
      BY <1>0, <3>3, SetLists
    <3> QED
      BY <2>2, <3>1, <3>2, <3>4
  <2>4. ToSet(<<>>) = {} /\ ToSet(<<t>>) = {t}
    BY DEF ToSet
  <2>5. Distinct(<<>>) /\ Distinct(<<t>>)
    BY DEF Distinct
  <2>6. At(r, p) = {t} /\ At(k, p) = {}
    BY <2>2, <2>3, <2>4 DEF At
  <2>7. Apart(r, p)
    BY <2>3, <2>4, <2>5, <2>6 DEF Apart, p
  <2> QED
    BY <1>3, <2>3, <2>6, <2>7 DEF p, r
<1> QED
  BY <1>2, <1>3

LEMMA RefillFacts ==
  ASSUME NEW k \in Queue, NEW p \in Prio, Apart(k, p)
  PROVE  LET r == Refill(k, p)
         IN  /\ SameBut(k, r, p)
             /\ ListsOK(r, p)
             /\ At(r, p) = At(k, p)
             /\ k.active[p] # <<>> => r.active[p] = k.active[p]
<1>1. CASE k.active[p] # <<>>
  <2>1. Refill(k, p) = k
    BY <1>1 DEF Refill
  <2> QED
    BY <1>1, <2>1 DEF SameBut, ListsOK
<1>2. CASE k.active[p] = <<>>
  <2> DEFINE r == Refill(k, p)
  <2>1. r = [k EXCEPT !.active[p] = k.expired[p], !.expired[p] = <<>>]
    BY <1>2 DEF Refill
  <2>2. SameBut(k, r, p) /\ r.active[p] = k.expired[p] /\ r.expired[p] = <<>>
    <3>1. k.expired[p] \in Seq(Thread) /\ <<>> \in Seq(Thread)
      BY DEF Queue
    <3>2. PICK a \in Seq(Thread), e \in Seq(Thread) :
            a = k.expired[p] /\ e = <<>>
      BY <3>1
    <3>3. r = WithLists(k, p, a, e)
      BY <2>1, <3>2 DEF WithLists, Queue
    <3> HIDE DEF r
    <3>4. SameBut(k, r, p) /\ r.active[p] = a /\ r.expired[p] = e
      BY <3>3, SetLists
    <3> QED
      BY <3>2, <3>4
  <2>3. ToSet(<<>>) = {} /\ Distinct(<<>>)
    BY DEF ToSet, Distinct
  <2>4. At(r, p) = At(k, p)
    BY <1>2, <2>2, <2>3 DEF At
  <2>5. ListsOK(r, p)
    BY <2>2, <2>3, <2>4 DEF ListsOK, Apart
  <2> QED
    BY <1>2, <2>2, <2>4, <2>5
<1> QED
  BY <1>1, <1>2

LEMMA UnlinkFacts ==
  ASSUME NEW k, WellFormed(k), NEW t \in Members(k)
  PROVE  LET r == Unlink(k, t)
         IN  /\ SameBut(k, r, Priority[t])
             /\ \A p \in Prio : ListsOK(r, p)
             /\ Members(r) = Members(k) \ {t}
             /\ ~IsCurrent(k, t) => /\ r.active[r.current] # <<>>
                                    /\ Current(r) = Current(k)
<1> DEFINE r == Unlink(k, t)
<1>1. PICK p \in Prio : p = Priority[t] /\ t \in Thread /\ t \in At(k, p)
  BY WellFormedFacts, PrioFacts
<1>2. k \in Queue /\ k.active[p] \in Seq(Thread) /\ k.expired[p] \in Seq(Thread)
  BY DEF WellFormed, Queue
<1>3. Apart(k, p)
  BY DEF WellFormed, ListsOK, Apart
<1>4. PICK a, e : /\ a = RemoveFirst(k.active[p], t)
                  /\ e = RemoveFirst(k.expired[p], t)
  OBVIOUS
<1>5. /\ a \in Seq(Thread) /\ Distinct(a) /\ ToSet(a) = ToSet(k.active[p]) \ {t}
      /\ k.active[p] # <<>> /\ Head(k.active[p]) # t =>
           a # <<>> /\ Head(a) = Head(k.active[p])
  BY <1>2, <1>3, <1>4, RemoveFacts DEF Apart
<1>6. e \in Seq(Thread) /\ Distinct(e) /\ ToSet(e) = ToSet(k.expired[p]) \ {t}
  BY <1>2, <1>3, <1>4, RemoveFacts DEF Apart
<1>a. PICK k1 : k1 = [k EXCEPT !.active[p] = RemoveFirst(@, t),
                               !.expired[p] = RemoveFirst(@, t)]
  OBVIOUS
<1>7. k1 = WithLists(k, p, a, e)
  BY <1>2, <1>4, <1>a DEF WithLists, Queue
<1>8. SameBut(k, k1, p) /\ k1.active[p] = a /\ k1.expired[p] = e
  BY <1>2, <1>5, <1>6, <1>7, SetLists
<1>9. At(k1, p) = At(k, p) \ {t}
  BY <1>5, <1>6, <1>8 DEF At
<1>10. Apart(k1, p)
  BY <1>3, <1>5, <1>6, <1>8, <1>9 DEF Apart
<1>11. r = Refill(k1, p)
  BY <1>1, <1>a DEF Unlink
<1> HIDE DEF r
<1>12. k1 \in Queue
  BY <1>8 DEF SameBut
<1>13. /\ SameBut(k1, r, p) /\ ListsOK(r, p) /\ At(r, p) = At(k1, p)
       /\ k1.active[p] # <<>> => r.active[p] = k1.active[p]
  BY <1>10, <1>11, <1>12, RefillFacts
<1>14. SameBut(k, r, p)
  BY <1>8, <1>13 DEF SameBut
<1>15. \A q \in Prio : ListsOK(r, q)
  BY <1>13, <1>14, OnePriority DEF WellFormed
<1>16. Members(r) = Members(k) \ {t}
  <2>1. \A u : u \in Members(r) <=>
                u \in At(r, p) \/ \E q \in Prio \ {p} : u \in At(k, q)
    BY <1>14, OnePriority
  <2>2. \A u : u \in Members(k) <=> \E q \in Prio : u \in At(k, q)
    BY <1>2, MembersFacts
  <2>3. \A q \in Prio \ {p} : t \notin At(k, q)
    BY <1>1 DEF WellFormed, ListsOK, Apart
  <2> QED
    BY <1>9, <1>13, <2>1, <2>2, <2>3
<1>17. ASSUME ~IsCurrent(k, t)
       PROVE  r.active[r.current] # <<>> /\ Current(r) = Current(k)
  <2>1. ~IsIdle(k)
    BY WellFormedFacts
  <2>2. k.active[k.current] # <<>> /\ k.current \in Prio
    BY <2>1 DEF WellFormed, Queue
  <2>3. Head(k.active[k.current]) # t
    BY <1>17, <2>2 DEF IsCurrent, Current
  <2>4. r.current = k.current
    BY <1>14 DEF SameBut
  <2>5. CASE k.current = p
    BY <1>5, <1>8, <1>13, <2>2, <2>3, <2>4, <2>5 DEF Current
  <2>6. CASE k.current # p
    BY <1>14, <2>2, <2>4, <2>6 DEF SameBut, Current
  <2> QED
    BY <2>5, <2>6
<1> QED
  BY <1>1, <1>14, <1>15, <1>16, <1>17 DEF r

LEMMA RotateFacts ==
  ASSUME NEW k, WellFormed(k), ~IsIdle(k)
  PROVE  LET r == Rotate(k)
         IN  /\ SameBut(k, r, k.current)
             /\ \A p \in Prio : ListsOK(r, p)
             /\ \A p \in Prio : At(r, p) = At(k, p)
<1>1. PICK p \in Prio, t \in Thread :
        /\ p = k.current /\ t = Current(k) /\ p = Priority[t]
        /\ k.active[p] # <<>> /\ t = Head(k.active[p])
        /\ t \in ToSet(k.active[p])
  <2>1. k.current \in Prio /\ Current(k) \in Thread
    BY WellFormedFacts DEF WellFormed, Queue
  <2> QED
    BY <2>1, WellFormedFacts DEF WellFormed, Current
<1>2. k \in Queue /\ k.active[p] \in Seq(Thread) /\ k.expired[p] \in Seq(Thread)
  BY DEF WellFormed, Queue
<1>3. Apart(k, p)
  BY DEF WellFormed, ListsOK, Apart
<1>4. PICK a : a = Tail(k.active[p])
  OBVIOUS
<1>5. /\ a \in Seq(Thread) /\ Distinct(a)
      /\ ToSet(a) = ToSet(k.active[p]) \ {t}
  BY <1>1, <1>2, <1>3, <1>4, TailFacts DEF Apart
<1>6. PICK e : e = k.expired[p]
  OBVIOUS
<1>a. PICK k1 : k1 = [k EXCEPT !.active[k.current] = Tail(@)]
  OBVIOUS
<1>7. k1 = WithLists(k, p, a, e)
  <2>1. k1 = [k EXCEPT !.active[p] = a]
    BY <1>1, <1>2, <1>4, <1>a DEF Queue
  <2>2. /\ k1.active = [k.active EXCEPT ![p] = a]
        /\ k1.expired = k.expired /\ k1.current = k.current /\ k1.load = k.load
    BY <1>2, <2>1 DEF Queue
  <2>3. [k.expired EXCEPT ![p] = e] = k.expired
    BY <1>2, <1>6 DEF Queue
  <2>4. k1 = [active |-> k1.active, expired |-> k1.expired,
              current |-> k1.current, load |-> k1.load]
    BY <1>2, <2>1 DEF Queue
  <2> QED
    BY <2>2, <2>3, <2>4 DEF WithLists
<1>8. SameBut(k, k1, p) /\ k1.active[p] = a /\ k1.expired[p] = e
  BY <1>2, <1>5, <1>6, <1>7, SetLists
<1>9. k1 \in Queue
  BY <1>8 DEF SameBut
<1>10. t \notin ToSet(k.expired[p])
  BY <1>1, <1>3 DEF Apart
<1>11. At(k1, p) = At(k, p) \ {t}
  BY <1>5, <1>6, <1>8, <1>10 DEF At
<1>12. Apart(k1, p)
  BY <1>3, <1>5, <1>6, <1>8, <1>11 DEF Apart
<1>13. PICK k2 : k2 = AddExpired(k1, t)
  OBVIOUS
<1>14. /\ SameBut(k1, k2, p) /\ Apart(k2, p)
       /\ At(k2, p) = At(k1, p) \cup {t}
  <2>1. Apart(k1, Priority[t]) /\ t \notin At(k1, Priority[t])
    BY <1>1, <1>11, <1>12
  <2>2. /\ SameBut(k1, k2, Priority[t]) /\ Apart(k2, Priority[t])
        /\ At(k2, Priority[t]) = At(k1, Priority[t]) \cup {t}
    BY <1>9, <1>13, <2>1, AddExpiredFacts
  <2> QED
    BY <1>1, <2>2
<1>15. k2 \in Queue
  BY <1>14 DEF SameBut
<1>16. PICK r : r = Refill(k2, p)
  OBVIOUS
<1>17. /\ SameBut(k2, r, p) /\ ListsOK(r, p) /\ At(r, p) = At(k2, p)
  BY <1>14, <1>15, <1>16, RefillFacts
<1>18. r = Rotate(k)
  BY <1>1, <1>a, <1>13, <1>16 DEF Rotate
<1>19. SameBut(k, r, p)
  BY <1>8, <1>14, <1>17 DEF SameBut
<1>20. \A q \in Prio : ListsOK(r, q)
  BY <1>17, <1>19, OnePriority DEF WellFormed
<1>21. At(r, p) = At(k, p)
  BY <1>1, <1>11, <1>14, <1>17 DEF At
<1>22. \A q \in Prio : At(r, q) = At(k, q)
  BY <1>19, <1>21 DEF SameBut, At
<1> QED
  BY <1>1, <1>18, <1>19, <1>20, <1>22
-----------------------------------------------------------------------------
(* The functions *)

LEMMA EmptyFacts ==
  WellFormed(EmptyQueue) /\ IsIdle(EmptyQueue) /\ Members(EmptyQueue) = {}
<1>1. ToSet(<<>>) = {} /\ Distinct(<<>>)
  BY DEF ToSet, Distinct
<1>2. EmptyQueue \in Queue
  <2>1. 0 \in Prio /\ <<>> \in Seq(Thread)
    BY PriorityAssumption DEF Prio
  <2> QED
    BY <2>1 DEF EmptyQueue, Queue
<1>3. \A p \in Prio : EmptyQueue.active[p] = <<>> /\ EmptyQueue.expired[p] = <<>>
  BY DEF EmptyQueue
<1>4. \A p \in Prio : At(EmptyQueue, p) = {} /\ ListsOK(EmptyQueue, p)
  BY <1>1, <1>3 DEF At, ListsOK, Apart
<1>5. IsIdle(EmptyQueue)
  BY <1>3 DEF IsIdle, Mask
<1> QED
  BY <1>2, <1>4, <1>5, MembersFacts DEF WellFormed

(* A queue differs from another in the current priority and load_context   *)
(* only.                                                                   *)
LEMMA SameLists ==
  ASSUME NEW k \in Queue, NEW r \in Queue,
         r.active = k.active, r.expired = k.expired
  PROVE  /\ Members(r) = Members(k) /\ Mask(r) = Mask(k)
         /\ IsIdle(r) <=> IsIdle(k)
         /\ \A p \in Prio : ListsOK(k, p) => ListsOK(r, p)
  BY DEF Members, Mask, IsIdle, ListsOK, Apart, At

WithCurrent(k, p, b) ==
  [active |-> k.active, expired |-> k.expired, current |-> p, load |-> b]

LEMMA SetCurrent ==
  ASSUME NEW k \in Queue, NEW p \in Prio, NEW b \in BOOLEAN
  PROVE  LET r == WithCurrent(k, p, b)
         IN  /\ r \in Queue /\ r.active = k.active /\ r.expired = k.expired
             /\ r.current = p /\ r.load = b
  BY DEF WithCurrent, Queue

(* do_resume_task puts the thread into the queue; the current thread stays *)
(* current, and an idle CPU is told to load the new one.                   *)
LEMMA ResumedFacts ==
  ASSUME NEW k, WellFormed(k), NEW t \in Thread, t \notin Members(k)
  PROVE  LET r == Resumed(k, t)
         IN  /\ WellFormed(r)
             /\ Members(r) = Members(k) \cup {t}
             /\ ~IsIdle(r)
             /\ IsIdle(k) => r.load
             /\ ~IsIdle(k) => Current(r) = Current(k) /\ r.load = k.load
<1>1. PICK p \in Prio : p = Priority[t]
  BY PrioFacts
<1>2. k \in Queue /\ Apart(k, p) /\ t \notin At(k, p)
  BY <1>1, WellFormedFacts DEF WellFormed, ListsOK
<1>3. PICK k1 : k1 = AddExpired(k, t)
  OBVIOUS
<1>4. /\ SameBut(k, k1, p) /\ Apart(k1, p) /\ At(k1, p) = At(k, p) \cup {t}
      /\ p \in Mask(k) => k1.active[p] = k.active[p]
      /\ p \notin Mask(k) => k1.active[p] = <<t>>
  BY <1>1, <1>2, <1>3, AddExpiredFacts
<1>5. k1.active[p] # <<>>
  <2>1. <<t>> # <<>>
    OBVIOUS
  <2> QED
    BY <1>4, <2>1, WellFormedFacts
<1>6. \A q \in Prio : ListsOK(k1, q)
  BY <1>4, <1>5, OnePriority DEF WellFormed, ListsOK
<1>7. Members(k1) = Members(k) \cup {t}
  <2>1. \A u : u \in Members(k1) <=>
                u \in At(k1, p) \/ \E q \in Prio \ {p} : u \in At(k, q)
    BY <1>4, OnePriority
  <2>2. \A u : u \in Members(k) <=> \E q \in Prio : u \in At(k, q)
    BY <1>2, MembersFacts
  <2> QED
    BY <1>4, <2>1, <2>2
<1>8. k1 \in Queue /\ ~IsIdle(k1)
  BY <1>4, <1>5 DEF SameBut, IsIdle, Mask
<1>9. CASE IsIdle(k)
  <2>1. PICK r : r = [k1 EXCEPT !.current = p, !.load = TRUE]
    OBVIOUS
  <2>2. r = Resumed(k, t)
    BY <1>1, <1>3, <1>9, <2>1 DEF Resumed
  <2>3. /\ r \in Queue /\ r.active = k1.active /\ r.expired = k1.expired
        /\ r.current = p /\ r.load = TRUE
    <3>1. r = WithCurrent(k1, p, TRUE)
      BY <1>8, <2>1 DEF WithCurrent, Queue
    <3> QED
      BY <1>8, <3>1, SetCurrent
  <2>4. Members(r) = Members(k1) /\ ~IsIdle(r) /\ \A q \in Prio : ListsOK(r, q)
    BY <1>6, <1>8, <2>3, SameLists
  <2>5. WellFormed(r)
    BY <1>5, <2>3, <2>4 DEF WellFormed
  <2> QED
    BY <1>7, <1>9, <2>2, <2>3, <2>4, <2>5
<1>10. CASE ~IsIdle(k)
  <2>1. k1 = Resumed(k, t)
    BY <1>3, <1>10 DEF Resumed
  <2>2. k1.current = k.current /\ k1.load = k.load /\ k.current \in Mask(k)
    BY <1>4, <1>10, WellFormedFacts DEF SameBut
  <2>3. k1.active[k.current] = k.active[k.current]
    <3>1. k.current \in Prio
      BY <1>2 DEF Queue
    <3> QED
      BY <1>4, <2>2, <3>1 DEF SameBut
  <2>4. k1.active[k1.current] # <<>> /\ Current(k1) = Current(k)
    BY <1>10, <2>2, <2>3 DEF Current, WellFormed
  <2>5. WellFormed(k1)
    BY <1>6, <1>8, <2>4 DEF WellFormed
  <2> QED
    BY <1>7, <1>8, <1>10, <2>1, <2>2, <2>4, <2>5
<1> QED
  BY <1>9, <1>10

(* do_pause_task takes the thread out of the queue.  The current thread    *)
(* stays current unless it is the one; then the CPU is left idle or told   *)
(* to load the next one.                                                   *)
LEMMA PausedFacts ==
  ASSUME NEW k, WellFormed(k), NEW t \in Members(k)
  PROVE  LET r == Paused(k, t)
         IN  /\ WellFormed(r)
             /\ Members(r) = Members(k) \ {t}
             /\ IsCurrent(k, t) => IsIdle(r) \/ r.load
             /\ ~IsCurrent(k, t) =>
                  ~IsIdle(r) /\ Current(r) = Current(k) /\ r.load = k.load
<1>1. PICK u : u = Unlink(k, t)
  OBVIOUS
<1>2. /\ SameBut(k, u, Priority[t])
      /\ \A p \in Prio : ListsOK(u, p)
      /\ Members(u) = Members(k) \ {t}
      /\ ~IsCurrent(k, t) => u.active[u.current] # <<>> /\ Current(u) = Current(k)
  BY <1>1, UnlinkFacts
<1>3. u \in Queue /\ u.current \in Prio /\ u.load = k.load
  BY <1>2 DEF SameBut, Queue
<1>4. CASE IsCurrent(k, t) /\ ~IsIdle(u)
  <2>1. PICK r : r = [u EXCEPT !.current = Highest(u), !.load = TRUE]
    OBVIOUS
  <2>2. r = Paused(k, t)
    BY <1>1, <1>4, <2>1 DEF Paused
  <2>3. Highest(u) \in Prio /\ u.active[Highest(u)] # <<>>
    BY <1>2, <1>4, HighestFacts DEF Mask, ListsOK
  <2>4. /\ r \in Queue /\ r.active = u.active /\ r.expired = u.expired
        /\ r.current = Highest(u) /\ r.load = TRUE
    <3>1. r = WithCurrent(u, Highest(u), TRUE)
      BY <1>3, <2>1 DEF WithCurrent, Queue
    <3> QED
      BY <1>3, <2>3, <3>1, SetCurrent
  <2>5. Members(r) = Members(u) /\ \A q \in Prio : ListsOK(r, q)
    BY <1>2, <1>3, <2>4, SameLists
  <2>6. WellFormed(r)
    BY <2>3, <2>4, <2>5 DEF WellFormed
  <2> QED
    BY <1>2, <1>4, <2>2, <2>4, <2>5, <2>6
<1>5. CASE ~(IsCurrent(k, t) /\ ~IsIdle(u))
  <2>1. u = Paused(k, t)
    BY <1>1, <1>5 DEF Paused
  <2>2. WellFormed(u)
    BY <1>2, <1>3, <1>5 DEF WellFormed
  <2>3. ~IsCurrent(k, t) => ~IsIdle(u)
    BY <1>2, <1>3 DEF IsIdle, Mask
  <2> QED
    BY <1>2, <1>3, <1>5, <2>1, <2>2, <2>3
<1> QED
  BY <1>4, <1>5

(* The timer moves the current thread behind the others of its priority,   *)
(* and goes on with the most urgent thread.                                *)
LEMMA SwitchedFacts ==
  ASSUME NEW k, WellFormed(k), ~IsIdle(k)
  PROVE  LET r == Switched(k)
         IN  /\ WellFormed(r)
             /\ Members(r) = Members(k)
             /\ ~IsIdle(r)
             /\ r.load = k.load
<1>1. PICK o : o = Rotate(k)
  OBVIOUS
<1>2. /\ SameBut(k, o, k.current)
      /\ \A p \in Prio : ListsOK(o, p) /\ At(o, p) = At(k, p)
  BY <1>1, RotateFacts
<1>3. k \in Queue /\ o \in Queue /\ o.load = k.load /\ k.load \in BOOLEAN
  BY <1>2 DEF SameBut, Queue
<1>4. Members(o) = Members(k) /\ Mask(o) = Mask(k)
  <2>1. Mask(o) = Mask(k)
    BY <1>2, <1>3, MembersFacts DEF Mask
  <2>2. \A u : u \in Members(o) <=> u \in Members(k)
    BY <1>2, <1>3, MembersFacts
  <2> QED
    BY <2>1, <2>2
<1>5. PICK r : r = [o EXCEPT !.current = Highest(k)]
  OBVIOUS
<1>6. r = Switched(k)
  BY <1>1, <1>5 DEF Switched
<1>7. Highest(k) \in Prio /\ Highest(k) \in Mask(o)
  BY <1>4, HighestFacts DEF Mask
<1>8. o.active[Highest(k)] # <<>>
  BY <1>2, <1>7 DEF Mask, ListsOK
<1>9. r = WithCurrent(o, Highest(k), k.load)
  BY <1>3, <1>5 DEF WithCurrent, Queue
<1>10. /\ r \in Queue /\ r.active = o.active /\ r.expired = o.expired
       /\ r.current = Highest(k) /\ r.load = k.load
  BY <1>3, <1>7, <1>9, SetCurrent
<1>11. /\ Members(r) = Members(o) /\ Mask(r) = Mask(o)
       /\ \A q \in Prio : ListsOK(r, q)
  BY <1>2, <1>3, <1>10, SameLists
<1>12. WellFormed(r) /\ ~IsIdle(r)
  BY <1>7, <1>8, <1>10, <1>11 DEF WellFormed, IsIdle
<1> QED
  BY <1>4, <1>6, <1>10, <1>11, <1>12

(* The timer has loaded the context of the current thread. *)
LEMMA LoadedFacts ==
  ASSUME NEW k, WellFormed(k)
  PROVE  LET r == [k EXCEPT !.load = FALSE]
         IN  /\ WellFormed(r)
             /\ Members(r) = Members(k)
             /\ IsIdle(r) <=> IsIdle(k)
             /\ Current(r) = Current(k)
             /\ r.load = FALSE
<1>1. PICK r : r = [k EXCEPT !.load = FALSE]
  OBVIOUS
<1>2. k \in Queue /\ k.current \in Prio
  BY DEF WellFormed, Queue
<1>3. r = WithCurrent(k, k.current, FALSE)
  BY <1>1, <1>2 DEF WithCurrent, Queue
<1>4. /\ r \in Queue /\ r.active = k.active /\ r.expired = k.expired
      /\ r.current = k.current /\ r.load = FALSE
  BY <1>2, <1>3, SetCurrent
<1>5. /\ Members(r) = Members(k) /\ (IsIdle(r) <=> IsIdle(k))
      /\ \A q \in Prio : ListsOK(r, q)
  BY <1>2, <1>4, SameLists DEF WellFormed
<1>6. WellFormed(r) /\ Current(r) = Current(k)
  BY <1>4, <1>5 DEF WellFormed, Current
<1> QED
  BY <1>1, <1>4, <1>5, <1>6
=============================================================================
