--------------------------- MODULE RunListProofs ----------------------------
(***************************************************************************)
(* Proofs about RunList, for every set of threads, every number of         *)
(* priorities and every quantum: the linked lists of schedule.c stay       *)
(* linked and agree with the counters and the mask kept beside them, and   *)
(* what is done to them is what CpuQueue does to its sequences.            *)
(***************************************************************************)
EXTENDS RunList, ListProofs

OnList(l, s, h) == Linked(Thread, NULL, l.next, l.prev, s, h)

Act(p) == Chain(link.next, prio[p].active_tail)
Exp(p) == Chain(link.next, prio[p].expired_tail)
Idle == Chain(link.next, inactive.tail)
Every == Chain(all_link.next, all.tail)

Running == {t \in Thread : state[t] = "running"}
Inactive == {t \in Thread : state[t] \in {"paused", "stopped"}}
Attached == {t \in Thread : state[t] # "detached"}

PrioRec == [expired_head : Ptr, expired_tail : Ptr,
            active_tail : Ptr, total_threads : Nat]
ListRec == [tail : Ptr, total_threads : Nat]

LinkTypes ==
  /\ link \in Links /\ all_link \in Links
  /\ prio \in [Prio -> PrioRec]
  /\ mask \in SUBSET Prio
  /\ cpu \in [total_threads : Nat, current_priority : Prio, load_context : BOOLEAN]
  /\ inactive \in ListRec /\ all \in ListRec
  /\ state \in [Thread -> {"detached", "paused", "running", "stopped"}]
  /\ quantum \in [Thread -> 0 .. Quantum]
  /\ fs \in Ptr /\ frame \in Ptr /\ ctx \in [Thread -> Ptr]

(* l2 is l, as far as the threads of S are concerned. *)
Keeps(l, l2, S) ==
  \A u \in S : l2.next[u] = l.next[u] /\ l2.prev[u] = l.prev[u]

(* One priority q, whose lists are a and e *)
PrioOK(l, q, a, e) ==
  /\ OnList(l, a, q.active_tail) /\ OnList(l, e, q.expired_tail)
  /\ q.expired_head = NodeAt(e, NULL, Len(e))
  /\ q.total_threads = Len(a) + Len(e)
  /\ a = <<>> => e = <<>>
  /\ ToSet(a) \cap ToSet(e) = {}

QueuesOK ==
  \A p \in Prio :
    /\ PrioOK(link, prio[p], Act(p), Exp(p))
    /\ p \in mask <=> Act(p) # <<>>
    /\ \A t : t \in ToSet(Act(p)) \cup ToSet(Exp(p)) <=> t \in Running /\ Priority[t] = p

(* A thread_list r with the links l, which holds the threads of S *)
ListOK(l, r, s, S) ==
  OnList(l, s, r.tail) /\ ToSet(s) = S /\ r.total_threads = Len(s)

CpuOK ==
  /\ cpu.total_threads = Cardinality(Running)
  /\ cpu.total_threads > 0 => cpu.current_priority \in mask

LinkInv ==
  /\ LinkTypes /\ QueuesOK /\ CpuOK
  /\ ListOK(link, inactive, Idle, Inactive)
  /\ ListOK(all_link, all, Every, Attached)
-----------------------------------------------------------------------------
LEMMA Constants ==
  /\ IsFiniteSet(Thread) /\ NULL \notin Thread /\ Quantum \in Nat
  /\ Prio \subseteq Nat /\ 0 \in Prio /\ \A t \in Thread : Priority[t] \in Prio
  BY RunListAssumption DEF Prio

(* What is linked to a list is what a walk over it finds. *)
LEMMA ChainIs ==
  ASSUME NEW l, NEW s, NEW h, OnList(l, s, h)
  PROVE  Chain(l.next, h) = s
  BY WalkOfLinked, Constants DEF OnList, Chain

LEMMA OnListFacts ==
  ASSUME NEW l, NEW s, NEW h, OnList(l, s, h)
  PROVE  /\ s \in Seq(Thread) /\ Distinct(s) /\ Len(s) \in Nat
         /\ ToSet(s) \subseteq Thread /\ IsFiniteSet(ToSet(s))
         /\ Len(s) = Cardinality(ToSet(s))
         /\ h = NULL <=> s = <<>>
         /\ h # NULL => h = s[1] /\ h = Head(s) /\ h \in ToSet(s)
<1>1. s \in Seq(Thread) /\ Distinct(s) /\ h = NodeAt(s, NULL, 1)
  BY DEF OnList, Linked
<1>2. /\ Len(s) \in Nat /\ ToSet(s) \subseteq Thread /\ IsFiniteSet(ToSet(s))
      /\ Len(s) = Cardinality(ToSet(s))
  BY <1>1, DistinctIsShort, ToSetFacts, Constants
<1>3. CASE s = <<>>
  BY <1>1, <1>2, <1>3 DEF NodeAt
<1>4. CASE s # <<>>
  <2>1. 1 \in 1 .. Len(s) /\ s[1] \in Thread /\ Head(s) = s[1]
    BY <1>1, <1>4
  <2>2. h = s[1] /\ h \in ToSet(s) /\ h # NULL
    BY <1>1, <2>1, Constants DEF NodeAt, ToSet
  <2> QED
    BY <1>1, <1>2, <1>4, <2>1, <2>2
<1> QED
  BY <1>3, <1>4

LEMMA Neighbours ==
  ASSUME NEW l, NEW s, NEW h, OnList(l, s, h), NEW t \in ToSet(s)
  PROVE  /\ l.next[t] = NULL \/ l.next[t] \in ToSet(s) \ {t}
         /\ l.prev[t] = NULL \/ l.prev[t] \in ToSet(s) \ {t}
<1>1. s \in Seq(Thread) /\ Len(s) \in Nat /\ Distinct(s) /\ DOMAIN s = 1 .. Len(s)
  BY OnListFacts
<1>2. PICK k \in 1 .. Len(s) : s[k] = t
  BY <1>1 DEF ToSet
<1>3. l.next[t] = NodeAt(s, NULL, k + 1) /\ l.prev[t] = NodeAt(s, NULL, k - 1)
  BY <1>2 DEF OnList, Linked
<1>4. \A i \in 1 .. Len(s) : i # k => s[i] \in ToSet(s) \ {t}
  BY <1>1, <1>2 DEF ToSet, Distinct
<1>5. k + 1 # k /\ k - 1 # k
  BY <1>1
<1> QED
  BY <1>3, <1>4, <1>5 DEF NodeAt

LEMMA UnlinkIs ==
  ASSUME NEW l \in Links, NEW t \in Thread
  PROVE  /\ Unlink(l, t) \in Links
         /\ \A u \in Thread :
              /\ Unlink(l, t).next[u] = IF u = l.prev[t] THEN l.next[t] ELSE l.next[u]
              /\ Unlink(l, t).prev[u] = IF u = l.next[t] THEN l.prev[t] ELSE l.prev[u]
<1>1. /\ l.next \in [Thread -> Ptr] /\ l.prev \in [Thread -> Ptr]
      /\ l.next[t] \in Ptr /\ l.prev[t] \in Ptr
  BY DEF Links
<1>2. Unlink(l, t) = [next |-> Set(l.next, l.prev[t], l.next[t]),
                      prev |-> Set(l.prev, l.next[t], l.prev[t])]
  BY DEF Unlink
<1>3. PICK n : n = Set(l.next, l.prev[t], l.next[t])
  OBVIOUS
<1>4. PICK p : p = Set(l.prev, l.next[t], l.prev[t])
  OBVIOUS
<1>5. /\ n \in [Thread -> Ptr]
      /\ \A u \in Thread : n[u] = IF u = l.prev[t] THEN l.next[t] ELSE l.next[u]
  BY <1>1, <1>3, Constants DEF Set
<1>6. /\ p \in [Thread -> Ptr]
      /\ \A u \in Thread : p[u] = IF u = l.next[t] THEN l.prev[t] ELSE l.prev[u]
  BY <1>1, <1>4, Constants DEF Set
<1> QED
  BY <1>2, <1>3, <1>4, <1>5, <1>6 DEF Links

LEMMA PushIs ==
  ASSUME NEW l \in Links, NEW t \in Thread, NEW h \in Ptr, h # t
  PROVE  /\ PushLinks(l, h, t) \in Links
         /\ \A u \in Thread :
              /\ PushLinks(l, h, t).next[u] = IF u = t THEN h ELSE l.next[u]
              /\ PushLinks(l, h, t).prev[u] =
                   IF u = t THEN NULL ELSE IF u = h THEN t ELSE l.prev[u]
<1>1. PICK f : f = [l.prev EXCEPT ![t] = NULL]
  OBVIOUS
<1>2. /\ l.next \in [Thread -> Ptr] /\ l.prev \in [Thread -> Ptr]
      /\ f \in [Thread -> Ptr] /\ t \in Ptr
      /\ \A u \in Thread : f[u] = IF u = t THEN NULL ELSE l.prev[u]
  BY <1>1 DEF Links, Ptr
<1>3. PushLinks(l, h, t) = [next |-> [l.next EXCEPT ![t] = h], prev |-> Set(f, h, t)]
  BY <1>1 DEF PushLinks
<1>4. PICK p : p = Set(f, h, t)
  OBVIOUS
<1>5. /\ p \in [Thread -> Ptr]
      /\ \A u \in Thread : p[u] = IF u = h THEN t ELSE f[u]
  BY <1>2, <1>4, Constants DEF Set
<1> QED
  BY <1>2, <1>3, <1>4, <1>5 DEF Links

LEMMA ClearedIs ==
  ASSUME NEW l \in Links, NEW t \in Thread
  PROVE  /\ Cleared(l, t) \in Links
         /\ \A u \in Thread \ {t} : /\ Cleared(l, t).next[u] = l.next[u]
                                    /\ Cleared(l, t).prev[u] = l.prev[u]
  BY DEF Cleared, Links, Ptr
LEMMA ClearedUnlinkIs ==
  ASSUME NEW l \in Links, NEW t \in Thread, NEW l2, l2 = Cleared(Unlink(l, t), t)
  PROVE  /\ l2 \in Links
         /\ \A u \in Thread \ {t} : /\ l2.next[u] = Unlink(l, t).next[u]
                                    /\ l2.prev[u] = Unlink(l, t).prev[u]
<1>1. PICK l1 : l1 = Unlink(l, t)
  OBVIOUS
<1>2. l1 \in Links
  BY <1>1, UnlinkIs
<1> QED
  BY <1>1, <1>2, ClearedIs
-----------------------------------------------------------------------------
(* The operations on a list *)
LEMMA OnListElsewhere ==
  ASSUME NEW l, NEW s, NEW h, OnList(l, s, h), NEW l2,
         NEW S, ToSet(s) \subseteq S, Keeps(l, l2, S)
  PROVE  OnList(l2, s, h)
  BY LinkedElsewhere DEF OnList, Keeps

LEMMA PushList ==
  ASSUME NEW l \in Links, NEW r \in ListRec, NEW s, NEW S, ListOK(l, r, s, S),
         NEW t \in Thread, t \notin S, NEW l2, l2 = PushLinks(l, r.tail, t)
  PROVE  /\ l2 \in Links /\ Pushed(r, t) \in ListRec
         /\ \E s2 : ListOK(l2, Pushed(r, t), s2, S \cup {t})
         /\ \A T \in SUBSET Thread : t \notin T /\ T \cap S = {} => Keeps(l, l2, T)
<1>1. OnList(l, s, r.tail) /\ ToSet(s) = S /\ r.total_threads = Len(s)
      /\ S \subseteq Thread /\ Len(s) \in Nat
  BY OnListFacts DEF ListOK
<1>2. r.tail \in Ptr /\ r.tail # t /\ (r.tail # NULL => r.tail \in S)
  BY <1>1, OnListFacts, Constants DEF ListRec
<1>3. /\ l2 \in Links
      /\ \A u \in Thread :
           /\ l2.next[u] = IF u = t THEN r.tail ELSE l.next[u]
           /\ l2.prev[u] = IF u = t THEN NULL ELSE IF u = r.tail THEN t ELSE l.prev[u]
  BY <1>2, PushIs
<1>4. PICK h, n1, p1, n2, p2 :
        h = r.tail /\ n1 = l.next /\ p1 = l.prev /\ n2 = l2.next /\ p2 = l2.prev
  OBVIOUS
<1>5. /\ n2[t] = h /\ p2[t] = NULL /\ (h # NULL => p2[h] = t)
      /\ \A u \in ToSet(s) : n2[u] = n1[u]
      /\ \A u \in ToSet(s) \ {h} : p2[u] = p1[u]
      /\ t \notin ToSet(s)
  BY <1>1, <1>2, <1>3, <1>4
<1>6. PICK q : q = <<t>> \o s
  OBVIOUS
<1>7. Linked(Thread, NULL, n1, p1, s, h)
  BY <1>1, <1>4 DEF OnList
<1>8. /\ Linked(Thread, NULL, n2, p2, q, t)
      /\ ToSet(q) = ToSet(s) \cup {t} /\ Len(q) = Len(s) + 1
  <2>1. /\ Linked(Thread, NULL, n2, p2, <<t>> \o s, t)
        /\ ToSet(<<t>> \o s) = ToSet(s) \cup {t}
        /\ Len(<<t>> \o s) = Len(s) + 1
    BY <1>5, <1>7, Constants, LinkedPush
  <2> QED
    BY <1>6, <2>1
<1>9. ListOK(l2, Pushed(r, t), q, S \cup {t})
  BY <1>1, <1>4, <1>8 DEF ListOK, OnList, Pushed
<1>10. Pushed(r, t) \in ListRec
  BY <1>1 DEF Pushed, ListRec, Ptr
<1>11. \E s2 : ListOK(l2, Pushed(r, t), s2, S \cup {t})
  BY <1>9, Zenon
<1>12. \A T \in SUBSET Thread : t \notin T /\ T \cap S = {} => Keeps(l, l2, T)
  BY <1>2, <1>3, Constants DEF Keeps
<1> QED
  BY <1>3, <1>10, <1>11, <1>12

(* l2 is l without t, but for the fields of t itself. *)
LEMMA UnlinkFrom ==
  ASSUME NEW l \in Links, NEW s, NEW h, OnList(l, s, h), NEW t \in ToSet(s), NEW l2,
         \A u \in Thread \ {t} : /\ l2.next[u] = Unlink(l, t).next[u]
                                 /\ l2.prev[u] = Unlink(l, t).prev[u],
         NEW q, q = RemoveFirst(s, t)
  PROVE  /\ OnList(l2, q, IF h = t THEN l.next[t] ELSE h)
         /\ ToSet(q) = ToSet(s) \ {t} /\ Len(q) = Len(s) - 1 /\ Len(q) \in Nat
         /\ NodeAt(q, NULL, Len(q)) = IF NodeAt(s, NULL, Len(s)) = t THEN l.prev[t]
                                    ELSE NodeAt(s, NULL, Len(s))
         /\ \A T \in SUBSET Thread : T \cap ToSet(s) = {} => Keeps(l, l2, T)
<1>1. /\ ToSet(s) \subseteq Thread /\ t \in Thread
      /\ Len(s) \in Nat /\ s \in Seq(Thread) /\ Distinct(s)
  BY OnListFacts
<1>2. PICK k \in 1 .. Len(s) : s[k] = t
  BY <1>1 DEF ToSet
<1>3. \A u \in Thread \ {t} :
        /\ l2.next[u] = IF u = l.prev[t] THEN l.next[t] ELSE l.next[u]
        /\ l2.prev[u] = IF u = l.next[t] THEN l.prev[t] ELSE l.prev[u]
  BY <1>1, UnlinkIs
<1>4. PICK n1, p1, n2, p2 :
        n1 = l.next /\ p1 = l.prev /\ n2 = l2.next /\ p2 = l2.prev
  OBVIOUS
<1>5. q = RemoveAt(s, k)
  BY <1>1, <1>2, RemoveFirstAt
<1>6. OnList(l2, q, IF h = t THEN l.next[t] ELSE h)
  <2>1. Linked(Thread, NULL, n1, p1, s, h)
    BY <1>4 DEF OnList
  <2>2. \A u \in ToSet(s) \ {t} :
          /\ n2[u] = IF u = p1[t] THEN n1[t] ELSE n1[u]
          /\ p2[u] = IF u = n1[t] THEN p1[t] ELSE p1[u]
    BY <1>1, <1>3, <1>4
  <2>3. Linked(Thread, NULL, n2, p2, q, IF h = t THEN n1[t] ELSE h)
    BY <1>2, <1>5, <2>1, <2>2, Constants, LinkedRemove
  <2> QED
    BY <1>4, <2>3 DEF OnList
<1>7. ToSet(q) = ToSet(s) \ {t}
  BY <1>1, RemoveFacts
<1>8. /\ Len(q) = Len(s) - 1 /\ Len(q) \in Nat
      /\ \A j \in 1 .. Len(s) - 1 : q[j] = IF j < k THEN s[j] ELSE s[j + 1]
  <2>1. /\ Len(q) = Len(s) - 1
        /\ \A j \in 1 .. Len(s) - 1 : q[j] = IF j < k THEN s[j] ELSE s[j + 1]
    <3>1. PICK v : v = RemoveAt(s, k)
      OBVIOUS
    <3>2. /\ Len(v) = Len(s) - 1
          /\ \A j \in 1 .. Len(s) - 1 : v[j] = IF j < k THEN s[j] ELSE s[j + 1]
      BY <1>1, <3>1, RemoveAtFacts
    <3>3. q = v
      BY <1>5, <3>1
    <3> QED
      BY <3>2, <3>3
  <2>2. Len(s) - 1 \in Nat
    BY <1>1, <1>2
  <2> QED
    BY <2>1, <2>2
<1>9. NodeAt(q, NULL, Len(q)) = IF NodeAt(s, NULL, Len(s)) = t THEN l.prev[t]
                              ELSE NodeAt(s, NULL, Len(s))
  <2>1. l.prev[t] = NodeAt(s, NULL, k - 1) /\ NodeAt(s, NULL, Len(s)) = s[Len(s)]
    BY <1>1, <1>2 DEF OnList, Linked, NodeAt
  <2>2. CASE k = Len(s)
    <3>1. NodeAt(q, NULL, Len(s) - 1) = NodeAt(s, NULL, Len(s) - 1)
      BY <1>1, <1>8, <2>2 DEF NodeAt
    <3> QED
      BY <1>2, <1>8, <2>1, <2>2, <3>1
  <2>3. CASE k # Len(s)
    <3>1. s[Len(s)] # t
      BY <1>1, <1>2, <2>3 DEF Distinct
    <3>2. Len(s) - 1 \in 1 .. Len(s) - 1 /\ ~(Len(s) - 1 < k) /\ Len(s) - 1 + 1 = Len(s)
      BY <1>1, <1>2, <2>3
    <3>3. q[Len(s) - 1] = s[Len(s)]
      BY <1>8, <3>2
    <3>4. NodeAt(q, NULL, Len(s) - 1) = s[Len(s)]
      BY <1>8, <3>2, <3>3 DEF NodeAt
    <3> QED
      BY <1>8, <2>1, <3>1, <3>4
  <2> QED
    BY <2>2, <2>3
<1>10. \A T \in SUBSET Thread : T \cap ToSet(s) = {} => Keeps(l, l2, T)
  <2>1. /\ l.next[t] = NULL \/ l.next[t] \in ToSet(s)
        /\ l.prev[t] = NULL \/ l.prev[t] \in ToSet(s)
    BY Neighbours
  <2> QED
    BY <1>3, <2>1, Constants DEF Keeps
<1> QED
  BY <1>6, <1>7, <1>8, <1>9, <1>10

LEMMA RemoveList ==
  ASSUME NEW l \in Links, NEW r \in ListRec, NEW s, NEW S, ListOK(l, r, s, S),
         NEW t \in S, NEW l2,
         \A u \in Thread \ {t} : /\ l2.next[u] = Unlink(l, t).next[u]
                                 /\ l2.prev[u] = Unlink(l, t).prev[u]
  PROVE  /\ Removed(r, l, t) \in ListRec
         /\ \E s2 : ListOK(l2, Removed(r, l, t), s2, S \ {t})
         /\ \A T \in SUBSET Thread : T \cap S = {} => Keeps(l, l2, T)
<1>1. OnList(l, s, r.tail) /\ ToSet(s) = S /\ r.total_threads = Len(s) /\ S \subseteq Thread
  BY OnListFacts DEF ListOK
<1>2. PICK q, h : q = RemoveFirst(s, t) /\ h = r.tail
  OBVIOUS
<1>3. /\ OnList(l2, q, IF h = t THEN l.next[t] ELSE h)
      /\ ToSet(q) = S \ {t} /\ Len(q) = Len(s) - 1 /\ Len(q) \in Nat
      /\ \A T \in SUBSET Thread : T \cap S = {} => Keeps(l, l2, T)
  BY <1>1, <1>2, UnlinkFrom
<1>4. Removed(r, l, t) \in ListRec
  <2>1. l.next[t] \in Ptr
    BY <1>1 DEF Links
  <2> QED
    BY <1>1, <1>3, <2>1 DEF Removed, ListRec
<1>5. ListOK(l2, Removed(r, l, t), q, S \ {t})
  BY <1>1, <1>2, <1>3 DEF ListOK, Removed
<1> QED
  BY <1>3, <1>4, <1>5
-----------------------------------------------------------------------------
(* The queue is as it was if no runnable thread has been touched. *)
LEMMA KeepQueues ==
  ASSUME LinkInv, prio' = prio, mask' = mask, Running' = Running,
         Keeps(link, link', Running)
  PROVE  /\ QueuesOK'
         /\ \A p \in Prio : Act(p)' = Act(p) /\ Exp(p)' = Exp(p)
<1>1. ASSUME NEW p \in Prio
      PROVE  /\ PrioOK(link', prio[p], Act(p), Exp(p))
             /\ Act(p)' = Act(p) /\ Exp(p)' = Exp(p)
  <2>1. /\ PrioOK(link, prio[p], Act(p), Exp(p))
        /\ \A t : t \in ToSet(Act(p)) \cup ToSet(Exp(p)) <=> t \in Running /\ Priority[t] = p
    BY DEF LinkInv, QueuesOK
  <2>2. ToSet(Act(p)) \subseteq Running /\ ToSet(Exp(p)) \subseteq Running
    BY <2>1
  <2>3. OnList(link', Act(p), prio[p].active_tail) /\ OnList(link', Exp(p), prio[p].expired_tail)
    BY <2>1, <2>2, OnListElsewhere DEF PrioOK
  <2> QED
    BY <2>1, <2>3, ChainIs DEF PrioOK, Act, Exp
<1> QED
  BY <1>1 DEF LinkInv, QueuesOK

LEMMA KeepList ==
  ASSUME NEW l, NEW r, NEW s, NEW S, ListOK(l, r, s, S), NEW l2,
         Keeps(l, l2, S)
  PROVE  ListOK(l2, r, s, S)
  BY OnListElsewhere DEF ListOK

LEMMA ListOKIs ==
  ASSUME NEW l, NEW r, NEW S, \E s : ListOK(l, r, s, S)
  PROVE  ListOK(l, r, Chain(l.next, r.tail), S)
  BY ChainIs DEF ListOK
-----------------------------------------------------------------------------
LEMMA LinkInit == Init => LinkInv
<1> SUFFICES ASSUME Init PROVE LinkInv
  OBVIOUS
<1> USE Constants DEF Init
<1>1. LinkTypes
  BY DEF LinkTypes, Links, NoLinks, PrioRec, ListRec, Ptr
<1>2. \A l : OnList(l, <<>>, NULL)
  BY DEF OnList, Linked, Distinct, NodeAt
<1>3. Idle = <<>> /\ Every = <<>>
  BY <1>2, ChainIs DEF Idle, Every
<1>4. \A p \in Prio : Act(p) = <<>> /\ Exp(p) = <<>>
  BY <1>2, ChainIs DEF Act, Exp
<1>5. Running = {} /\ Inactive = {} /\ Attached = {} /\ ToSet(<<>>) = {}
  BY DEF Running, Inactive, Attached, ToSet
<1>6. QueuesOK
  BY <1>2, <1>4, <1>5 DEF QueuesOK, PrioOK, NodeAt
<1>7. CpuOK
  BY <1>5, FS_EmptySet DEF CpuOK
<1>8. ListOK(link, inactive, Idle, Inactive) /\ ListOK(all_link, all, Every, Attached)
  BY <1>2, <1>3, <1>5 DEF ListOK
<1> QED
  BY <1>1, <1>6, <1>7, <1>8 DEF LinkInv

LEMMA AttachStep ==
  ASSUME LinkInv, NEW t \in Thread, attach_thread(t)
  PROVE  LinkInv' /\ \A p \in Prio : Act(p)' = Act(p) /\ Exp(p)' = Exp(p)
<1> USE DEF LinkInv
<1>1. /\ Running' = Running /\ Inactive' = Inactive \cup {t}
      /\ Attached' = Attached \cup {t} /\ t \notin Inactive /\ t \notin Attached
      /\ Running \subseteq Thread \ (Inactive \cup {t})
  BY DEF attach_thread, Running, Inactive, Attached, LinkTypes
<1>2. /\ link \in Links /\ inactive \in ListRec /\ all_link \in Links /\ all \in ListRec
      /\ link' = PushLinks(link, inactive.tail, t) /\ inactive' = Pushed(inactive, t)
      /\ all_link' = PushLinks(all_link, all.tail, t) /\ all' = Pushed(all, t)
      /\ prio' = prio /\ mask' = mask /\ cpu' = cpu
  BY DEF attach_thread, LinkTypes
<1>3. /\ link' \in Links /\ inactive' \in ListRec
      /\ \E s : ListOK(link', inactive', s, Inactive \cup {t})
      /\ Keeps(link, link', Running)
  <2>1. ListOK(link, inactive, Idle, Inactive)
    OBVIOUS
  <2>2. Running \in SUBSET Thread /\ t \notin Running /\ Running \cap Inactive = {}
    BY <1>1
  <2> QED
    BY <1>1, <1>2, <2>1, <2>2, PushList
<1>4. /\ all_link' \in Links /\ all' \in ListRec
      /\ \E s : ListOK(all_link', all', s, Attached \cup {t})
  BY <1>1, <1>2, PushList
<1>5. /\ ListOK(link', inactive', Idle', Inactive')
      /\ ListOK(all_link', all', Every', Attached')
  BY <1>1, <1>3, <1>4, ListOKIs DEF Idle, Every
<1>6. QueuesOK' /\ \A p \in Prio : Act(p)' = Act(p) /\ Exp(p)' = Exp(p)
  BY <1>1, <1>2, <1>3, KeepQueues
<1>7. LinkTypes'
  BY <1>3, <1>4 DEF LinkTypes, attach_thread
<1>8. CpuOK'
  BY <1>1, <1>2 DEF CpuOK
<1> QED
  BY <1>5, <1>6, <1>7, <1>8

LEMMA DetachStep ==
  ASSUME LinkInv, NEW t \in Thread, detach_thread(t)
  PROVE  LinkInv' /\ \A p \in Prio : Act(p)' = Act(p) /\ Exp(p)' = Exp(p)
<1> USE DEF LinkInv
<1>1. /\ Running' = Running /\ Inactive' = Inactive \ {t}
      /\ Attached' = Attached \ {t} /\ t \in Inactive /\ t \in Attached
      /\ Running \subseteq Thread \ Inactive
  BY DEF detach_thread, Running, Inactive, Attached, LinkTypes
<1>2. /\ link \in Links /\ inactive \in ListRec /\ all_link \in Links /\ all \in ListRec
      /\ link' = Cleared(Unlink(link, t), t) /\ inactive' = Removed(inactive, link, t)
      /\ all_link' = Cleared(Unlink(all_link, t), t) /\ all' = Removed(all, all_link, t)
      /\ prio' = prio /\ mask' = mask /\ cpu' = cpu
  BY DEF detach_thread, LinkTypes
<1>3. /\ link' \in Links
      /\ \A u \in Thread \ {t} : /\ link'.next[u] = Unlink(link, t).next[u]
                                 /\ link'.prev[u] = Unlink(link, t).prev[u]
  BY <1>2, ClearedUnlinkIs
<1>4. /\ all_link' \in Links
      /\ \A u \in Thread \ {t} : /\ all_link'.next[u] = Unlink(all_link, t).next[u]
                                 /\ all_link'.prev[u] = Unlink(all_link, t).prev[u]
  BY <1>2, ClearedUnlinkIs
<1>5. /\ inactive' \in ListRec
      /\ \E s : ListOK(link', inactive', s, Inactive \ {t})
      /\ Keeps(link, link', Running)
  <2>1. ListOK(link, inactive, Idle, Inactive)
    OBVIOUS
  <2>2. Running \in SUBSET Thread /\ Running \cap Inactive = {}
    BY <1>1
  <2> QED
    BY <1>1, <1>2, <1>3, <2>1, <2>2, RemoveList
<1>6. /\ all' \in ListRec
      /\ \E s : ListOK(all_link', all', s, Attached \ {t})
  BY <1>1, <1>2, <1>4, RemoveList
<1>7. /\ ListOK(link', inactive', Idle', Inactive')
      /\ ListOK(all_link', all', Every', Attached')
  BY <1>1, <1>5, <1>6, ListOKIs DEF Idle, Every
<1>8. QueuesOK' /\ \A p \in Prio : Act(p)' = Act(p) /\ Exp(p)' = Exp(p)
  BY <1>1, <1>2, <1>5, KeepQueues
<1>9. LinkTypes'
  BY <1>3, <1>4, <1>5, <1>6 DEF LinkTypes, detach_thread
<1>10. CpuOK'
  BY <1>1, <1>2 DEF CpuOK
<1> QED
  BY <1>7, <1>8, <1>9, <1>10

(* The steps that change no list *)
LEMMA SameListsStep ==
  ASSUME LinkInv, LinkTypes', UNCHANGED <<link, all_link, prio, mask, inactive, all>>,
         Running' = Running, Inactive' = Inactive, Attached' = Attached,
         cpu'.total_threads = cpu.total_threads,
         cpu'.current_priority = cpu.current_priority
  PROVE  LinkInv' /\ \A p \in Prio : Act(p)' = Act(p) /\ Exp(p)' = Exp(p)
<1>1. QueuesOK' /\ \A p \in Prio : Act(p)' = Act(p) /\ Exp(p)' = Exp(p)
  BY KeepQueues DEF Keeps
<1>2. ListOK(link, inactive, Idle, Inactive)' /\ ListOK(all_link, all, Every, Attached)'
  BY DEF LinkInv, Idle, Every
<1>3. CpuOK'
  BY DEF LinkInv, CpuOK
<1> QED
  BY <1>1, <1>2, <1>3 DEF LinkInv
-----------------------------------------------------------------------------
(* r is what add_expired makes of the links l, the priorities P and the    *)
(* mask m: t is appended to the expired list e of its priority p, or put   *)
(* alone on the active list if the priority has no threads.                *)
Added(l, P, m, t, p, q, e, r) ==
  /\ r.link \in Links /\ r.prio \in [Prio -> PrioRec] /\ r.mask = m \cup {p}
  /\ \A o \in Prio \ {p} : r.prio[o] = P[o]
  /\ r.prio[p].total_threads = q.total_threads + 1
  /\ \A T \in SUBSET Thread :
       t \notin T /\ T \cap ToSet(e) = {} => Keeps(l, r.link, T)
  /\ q.total_threads = 0 =>
       /\ OnList(r.link, <<t>>, r.prio[p].active_tail)
       /\ r.prio[p].expired_tail = q.expired_tail
       /\ r.prio[p].expired_head = q.expired_head
  /\ q.total_threads # 0 =>
       /\ OnList(r.link, Append(e, t), r.prio[p].expired_tail)
       /\ r.prio[p].expired_head = t
       /\ r.prio[p].active_tail = q.active_tail

LEMMA AddExpiredIs ==
  ASSUME NEW l \in Links, NEW P \in [Prio -> PrioRec], NEW m, NEW t \in Thread,
         NEW p \in Prio, p = Priority[t], NEW q, q = P[p], NEW e,
         OnList(l, e, q.expired_tail), q.expired_head = NodeAt(e, NULL, Len(e)),
         t \notin ToSet(e),
         NEW r, r = AddExpired([link |-> l, prio |-> P, mask |-> m], t)
  PROVE  Added(l, P, m, t, p, q, e, r)
<1>0. /\ q \in PrioRec /\ t \in Ptr /\ NULL \in Ptr /\ t # NULL
      /\ l.next \in [Thread -> Ptr] /\ l.prev \in [Thread -> Ptr]
  BY Constants DEF Links, Ptr
<1>1. PICK h : h = q.expired_head
  OBVIOUS
<1>2. /\ h \in Ptr /\ (h = NULL <=> e = <<>>) /\ (h # NULL => h \in ToSet(e))
      /\ h # t /\ ToSet(e) \subseteq Thread
  <2>1. e \in Seq(Thread) /\ Len(e) \in Nat /\ ToSet(e) \subseteq Thread
    BY OnListFacts
  <2>2. CASE e = <<>>
    BY <1>0, <1>1, <2>1, <2>2 DEF NodeAt
  <2>3. CASE e # <<>>
    <3>1. Len(e) \in 1 .. Len(e) /\ e[Len(e)] \in Thread /\ e[Len(e)] \in ToSet(e)
      BY <2>1, <2>3 DEF ToSet
    <3> QED
      BY <1>0, <1>1, <2>1, <2>3, <3>1, Constants DEF NodeAt, Ptr
  <2> QED
    BY <2>2, <2>3
<1>3. PICK alone :
        alone = [next |-> [l.next EXCEPT ![t] = NULL], prev |-> [l.prev EXCEPT ![t] = NULL]]
  OBVIOUS
<1> DEFINE k == IF q.total_threads = 0 \/ h = NULL THEN alone
                ELSE [next |-> [alone.next EXCEPT ![h] = t],
                      prev |-> [alone.prev EXCEPT ![t] = h]]
           q2 == IF q.total_threads = 0
                 THEN [q EXCEPT !.active_tail = t, !.total_threads = 1]
                 ELSE [q EXCEPT !.expired_tail = IF h = NULL THEN t ELSE @,
                                !.expired_head = t, !.total_threads = @ + 1]
           M == m \cup {p}
           R == [P EXCEPT ![p] = q2]
<1>4. r = [link |-> k, prio |-> R, mask |-> M]
  BY <1>1, <1>3 DEF AddExpired
<1> HIDE DEF k, q2, M, R
<1>b. r.prio = R
  BY <1>4
<1>c. R = [P EXCEPT ![p] = q2]
  BY Zenon DEF R
<1>5. PICK n, b : n = r.link.next /\ b = r.link.prev
  OBVIOUS
<1>6. /\ r.link \in Links
      /\ q.total_threads = 0 =>
           \A u \in Thread : /\ n[u] = IF u = t THEN NULL ELSE l.next[u]
                             /\ b[u] = IF u = t THEN NULL ELSE l.prev[u]
      /\ q.total_threads # 0 =>
           \A u \in Thread :
             /\ n[u] = IF u = t THEN NULL ELSE IF u = h THEN t ELSE l.next[u]
             /\ b[u] = IF u = t THEN h ELSE l.prev[u]
  <2>1. CASE q.total_threads = 0 \/ h = NULL
    <3>1. r.link = alone
      BY <1>4, <2>1 DEF k
    <3> QED
      BY <1>0, <1>2, <1>3, <1>5, <2>1, <3>1, Constants DEF Links
  <2>2. CASE ~(q.total_threads = 0 \/ h = NULL)
    <3>1. r.link = [next |-> [alone.next EXCEPT ![h] = t],
                    prev |-> [alone.prev EXCEPT ![t] = h]]
      BY <1>4, <2>2 DEF k
    <3>2. h \in Thread
      BY <1>2, <2>2
    <3>3. /\ alone.next \in [Thread -> Ptr] /\ alone.prev \in [Thread -> Ptr]
          /\ \A u \in Thread : /\ alone.next[u] = IF u = t THEN NULL ELSE l.next[u]
                               /\ alone.prev[u] = IF u = t THEN NULL ELSE l.prev[u]
      BY <1>0, <1>3
    <3> QED
      BY <1>0, <1>2, <1>5, <2>2, <3>1, <3>2, <3>3 DEF Links
  <2> QED
    BY <2>1, <2>2
<1>7. \A T \in SUBSET Thread : t \notin T /\ T \cap ToSet(e) = {} => Keeps(l, r.link, T)
  BY <1>2, <1>5, <1>6, Constants DEF Keeps
<1>8. /\ r.prio \in [Prio -> PrioRec]
      /\ \A o \in Prio \ {p} : r.prio[o] = P[o]
  <2>2. q2 \in PrioRec
    <3>1. CASE q.total_threads = 0
      <4>1. q2 = [q EXCEPT !.active_tail = t, !.total_threads = 1]
        BY <3>1 DEF q2
      <4> QED
        BY <1>0, <4>1 DEF PrioRec
    <3>2. CASE q.total_threads # 0
      <4>1. PICK x \in Ptr : x = IF h = NULL THEN t ELSE q.expired_tail
        BY <1>0 DEF PrioRec
      <4>2. q2 = [q EXCEPT !.expired_tail = IF h = NULL THEN t ELSE @,
                           !.expired_head = t, !.total_threads = @ + 1]
        BY <3>2 DEF q2
      <4>3. q2 = [expired_head |-> t, expired_tail |-> x,
                  active_tail |-> q.active_tail, total_threads |-> q.total_threads + 1]
        BY <1>0, <4>1, <4>2 DEF PrioRec
      <4> QED
        BY <1>0, <4>1, <4>3 DEF PrioRec
    <3> QED
      BY <3>1, <3>2
  <2>3. R \in [Prio -> PrioRec] /\ \A o \in Prio \ {p} : R[o] = P[o]
    BY <1>c, <2>2
  <2> QED
    BY <1>b, <2>3
<1>d. r.prio[p] = q2
  <2>1. R[p] = q2
    BY <1>c
  <2> QED
    BY <1>b, <2>1
<1>a. r.mask = m \cup {p}
  BY <1>4 DEF M
<1>9. ASSUME q.total_threads = 0
      PROVE  /\ OnList(r.link, <<t>>, r.prio[p].active_tail)
             /\ r.prio[p].expired_tail = q.expired_tail
             /\ r.prio[p].expired_head = q.expired_head
             /\ r.prio[p].total_threads = 1
  <2>1. r.prio[p] = [q EXCEPT !.active_tail = t, !.total_threads = 1]
    BY <1>d, <1>9 DEF q2
  <2>2. n[t] = NULL /\ b[t] = NULL
    BY <1>6, <1>9
  <2>3. Linked(Thread, NULL, n, b, <<t>>, t)
    BY <1>0, <2>2 DEF Linked, Distinct, NodeAt
  <2> QED
    BY <1>0, <1>5, <2>1, <2>3 DEF OnList, PrioRec
<1>10. ASSUME q.total_threads # 0
       PROVE  /\ OnList(r.link, Append(e, t), r.prio[p].expired_tail)
              /\ r.prio[p].expired_head = t
              /\ r.prio[p].active_tail = q.active_tail
              /\ r.prio[p].total_threads = q.total_threads + 1
  <2>1. r.prio[p] = [q EXCEPT !.expired_tail = IF h = NULL THEN t ELSE @,
                              !.expired_head = t, !.total_threads = @ + 1]
    BY <1>d, <1>10 DEF q2
  <2>2. PICK n1, b1, x :
          n1 = l.next /\ b1 = l.prev /\ x = q.expired_tail
    OBVIOUS
  <2>3. Linked(Thread, NULL, n1, b1, e, x)
    BY <2>2 DEF OnList
  <2>4. /\ n[t] = NULL /\ b[t] = h /\ (h # NULL => n[h] = t)
        /\ \A u \in ToSet(e) : b[u] = b1[u]
        /\ \A u \in ToSet(e) \ {h} : n[u] = n1[u]
    BY <1>2, <1>6, <1>10, <2>2
  <2>5. Linked(Thread, NULL, n, b, Append(e, t), IF e = <<>> THEN t ELSE x)
    BY <1>1, <2>3, <2>4, Constants, LinkedAppend
  <2>6. r.prio[p].expired_tail = IF e = <<>> THEN t ELSE x
    BY <1>0, <1>2, <2>1, <2>2 DEF PrioRec
  <2> QED
    BY <1>0, <1>5, <2>1, <2>5, <2>6 DEF OnList, PrioRec
<1>11. r.prio[p].total_threads = q.total_threads + 1
  BY <1>0, <1>9, <1>10 DEF PrioRec
<1> QED
  BY <1>6, <1>7, <1>8, <1>a, <1>9, <1>10, <1>11 DEF Added
-----------------------------------------------------------------------------
LEMMA KeepPrio ==
  ASSUME NEW l, NEW q, NEW a, NEW e, PrioOK(l, q, a, e), NEW l2,
         Keeps(l, l2, ToSet(a) \cup ToSet(e))
  PROVE  PrioOK(l2, q, a, e)
<1>1. OnList(l, a, q.active_tail) /\ OnList(l, e, q.expired_tail)
  BY DEF PrioOK
<1>2. OnList(l2, a, q.active_tail) /\ OnList(l2, e, q.expired_tail)
  <2>1. ToSet(a) \subseteq ToSet(a) \cup ToSet(e) /\ ToSet(e) \subseteq ToSet(a) \cup ToSet(e)
    OBVIOUS
  <2> QED
    BY <1>1, <2>1, OnListElsewhere
<1> QED
  BY <1>2 DEF PrioOK

LEMMA KeepsFewer ==
  ASSUME NEW l, NEW l2, NEW S, NEW T, T \subseteq S, Keeps(l, l2, S)
  PROVE  Keeps(l, l2, T)
  BY DEF Keeps

LEMMA KeepsThrough ==
  ASSUME NEW l, NEW l1, NEW l2, NEW S, Keeps(l, l1, S), Keeps(l1, l2, S)
  PROVE  Keeps(l, l2, S)
  BY DEF Keeps

(* What the invariant says of one priority *)
LEMMA PrioFacts ==
  ASSUME LinkInv, NEW p \in Prio
  PROVE  /\ PrioOK(link, prio[p], Act(p), Exp(p)) /\ prio[p] \in PrioRec
         /\ Act(p) \in Seq(Thread) /\ Distinct(Act(p)) /\ Len(Act(p)) \in Nat
         /\ Exp(p) \in Seq(Thread) /\ Distinct(Exp(p)) /\ Len(Exp(p)) \in Nat
         /\ ToSet(Act(p)) \subseteq Running /\ ToSet(Exp(p)) \subseteq Running
         /\ p \in mask <=> Act(p) # <<>>
         /\ p \in mask <=> prio[p].total_threads # 0
         /\ Act(p) = <<>> => Exp(p) = <<>>
         /\ ToSet(Act(p)) \cap ToSet(Exp(p)) = {}
         /\ prio[p].active_tail = NULL <=> Act(p) = <<>>
         /\ prio[p].active_tail # NULL =>
              prio[p].active_tail = Act(p)[1] /\ prio[p].active_tail = Head(Act(p))
              /\ prio[p].active_tail \in ToSet(Act(p))
         /\ \A t : t \in ToSet(Act(p)) \cup ToSet(Exp(p)) <=> t \in Running /\ Priority[t] = p
<1>1. /\ PrioOK(link, prio[p], Act(p), Exp(p)) /\ (p \in mask <=> Act(p) # <<>>)
      /\ \A t : t \in ToSet(Act(p)) \cup ToSet(Exp(p)) <=> t \in Running /\ Priority[t] = p
  BY DEF LinkInv, QueuesOK
<1>2. prio[p] \in PrioRec
  BY DEF LinkInv, LinkTypes
<1>3. OnList(link, Act(p), prio[p].active_tail) /\ OnList(link, Exp(p), prio[p].expired_tail)
  BY <1>1 DEF PrioOK
<1>4. /\ Act(p) \in Seq(Thread) /\ Distinct(Act(p)) /\ Len(Act(p)) \in Nat
      /\ Exp(p) \in Seq(Thread) /\ Distinct(Exp(p)) /\ Len(Exp(p)) \in Nat
      /\ prio[p].active_tail = NULL <=> Act(p) = <<>>
      /\ prio[p].active_tail # NULL =>
           prio[p].active_tail = Act(p)[1] /\ prio[p].active_tail = Head(Act(p))
           /\ prio[p].active_tail \in ToSet(Act(p))
  BY <1>3, OnListFacts
<1>5. /\ prio[p].total_threads = Len(Act(p)) + Len(Exp(p))
      /\ Act(p) = <<>> => Exp(p) = <<>>
      /\ ToSet(Act(p)) \cap ToSet(Exp(p)) = {}
  BY <1>1 DEF PrioOK
<1>6. p \in mask <=> prio[p].total_threads # 0
  BY <1>1, <1>4, <1>5
<1>7. ToSet(Act(p)) \subseteq Running /\ ToSet(Exp(p)) \subseteq Running
  BY <1>1
<1> QED
  BY <1>1, <1>2, <1>4, <1>5, <1>6, <1>7

(* Two threads of different priorities are on different lists. *)
LEMMA OtherPrio ==
  ASSUME LinkInv, NEW p \in Prio, NEW o \in Prio \ {p}
  PROVE  /\ (ToSet(Act(o)) \cup ToSet(Exp(o))) \cap (ToSet(Act(p)) \cup ToSet(Exp(p))) = {}
         /\ ToSet(Act(o)) \cup ToSet(Exp(o)) \subseteq Running
         /\ \A t : Priority[t] = p => t \notin ToSet(Act(o)) \cup ToSet(Exp(o))
  BY PrioFacts

LEMMA StateSets ==
  ASSUME LinkInv
  PROVE  /\ Running \subseteq Thread /\ Inactive \subseteq Thread
         /\ Running \cap Inactive = {} /\ IsFiniteSet(Running)
         /\ Cardinality(Running) \in Nat
<1>1. /\ Running \subseteq Thread /\ Inactive \subseteq Thread
      /\ Running \cap Inactive = {}
  BY DEF Running, Inactive
<1>2. IsFiniteSet(Running)
  BY <1>1, Constants, FS_Subset
<1> QED
  BY <1>1, <1>2, FS_CardinalityType

(* The new queue, once its lists are known *)
LEMMA NewQueues ==
  ASSUME NEW a, NEW e,
         \A p \in Prio : PrioOK(link', prio'[p], a[p], e[p]),
         \A p \in Prio : p \in mask' <=> a[p] # <<>>,
         \A p \in Prio : \A t : t \in ToSet(a[p]) \cup ToSet(e[p]) <=>
                                t \in Running' /\ Priority[t] = p
  PROVE  QueuesOK' /\ \A p \in Prio : Act(p)' = a[p] /\ Exp(p)' = e[p]
<1>1. ASSUME NEW p \in Prio
      PROVE  Act(p)' = a[p] /\ Exp(p)' = e[p]
  <2>1. /\ OnList(link', a[p], prio'[p].active_tail)
        /\ OnList(link', e[p], prio'[p].expired_tail)
    BY DEF PrioOK
  <2> QED
    BY <2>1, ChainIs DEF Act, Exp
<1> QED
  BY <1>1 DEF QueuesOK

LEMMA ResumeStep ==
  ASSUME LinkInv, NEW t \in Thread, resume_thread(t), NEW p, p = Priority[t]
  PROVE  /\ LinkInv'
         /\ \A o \in Prio :
              /\ Act(o)' = IF o = p /\ p \notin mask THEN <<t>> ELSE Act(o)
              /\ Exp(o)' = IF o = p /\ p \in mask THEN Append(Exp(o), t) ELSE Exp(o)
<1>1. /\ Running' = Running \cup {t} /\ Inactive' = Inactive \ {t} /\ Attached' = Attached
      /\ t \in Inactive /\ t \notin Running /\ p \in Prio
  BY Constants DEF resume_thread, Running, Inactive, Attached, LinkInv, LinkTypes
<1>2. PICK l : l = Unlink(link, t)
  OBVIOUS
<1>3. PICK r : r = AddExpired([link |-> l, prio |-> prio, mask |-> mask], t)
  OBVIOUS
<1>4. /\ link' = r.link /\ prio' = r.prio /\ mask' = r.mask
      /\ inactive' = Removed(inactive, link, t) /\ all_link' = all_link /\ all' = all
  BY <1>2, <1>3 DEF resume_thread
<1>5. /\ link \in Links /\ prio \in [Prio -> PrioRec] /\ inactive \in ListRec
      /\ ListOK(link, inactive, Idle, Inactive)
      /\ ListOK(all_link, all, Every, Attached)
  BY DEF LinkInv, LinkTypes
<1>6. l \in Links
  BY <1>2, <1>5, UnlinkIs
<1>7. /\ inactive' \in ListRec
      /\ \E s : ListOK(l, inactive', s, Inactive \ {t})
      /\ Keeps(link, l, Running)
  <2>1. \A u \in Thread \ {t} : /\ l.next[u] = Unlink(link, t).next[u]
                                /\ l.prev[u] = Unlink(link, t).prev[u]
    BY <1>2
  <2>2. Running \in SUBSET Thread /\ Running \cap Inactive = {}
    BY StateSets
  <2> QED
    BY <1>1, <1>4, <1>5, <2>1, <2>2, RemoveList
<1>8. ASSUME NEW o \in Prio
      PROVE  PrioOK(l, prio[o], Act(o), Exp(o))
  <2>1. PrioOK(link, prio[o], Act(o), Exp(o)) /\ ToSet(Act(o)) \cup ToSet(Exp(o)) \subseteq Running
    BY PrioFacts
  <2>2. Keeps(link, l, ToSet(Act(o)) \cup ToSet(Exp(o)))
    BY <1>7, <2>1, KeepsFewer
  <2> QED
    BY <2>1, <2>2, KeepPrio
<1>9. PICK q, e : q = prio[p] /\ e = Exp(p)
  OBVIOUS
<1>10. /\ OnList(l, e, q.expired_tail) /\ q.expired_head = NodeAt(e, NULL, Len(e))
       /\ ToSet(e) \subseteq Running /\ t \notin ToSet(e)
  <2>1. PrioOK(l, q, Act(p), e)
    BY <1>1, <1>8, <1>9
  <2> QED
    BY <1>1, <1>9, <2>1, PrioFacts DEF PrioOK
<1>11. /\ r.link \in Links /\ r.prio \in [Prio -> PrioRec] /\ r.mask = mask \cup {p}
       /\ \A o \in Prio \ {p} : r.prio[o] = prio[o]
       /\ r.prio[p].total_threads = q.total_threads + 1
       /\ \A T \in SUBSET Thread :
            t \notin T /\ T \cap ToSet(e) = {} => Keeps(l, r.link, T)
       /\ q.total_threads = 0 =>
            /\ OnList(r.link, <<t>>, r.prio[p].active_tail)
            /\ r.prio[p].expired_tail = q.expired_tail
            /\ r.prio[p].expired_head = q.expired_head
       /\ q.total_threads # 0 =>
            /\ OnList(r.link, Append(e, t), r.prio[p].expired_tail)
            /\ r.prio[p].expired_head = t
            /\ r.prio[p].active_tail = q.active_tail
  <2>1. Added(l, prio, mask, t, p, q, e, r)
    BY <1>1, <1>3, <1>5, <1>6, <1>9, <1>10, AddExpiredIs
  <2> QED
    BY <2>1 DEF Added
<1> DEFINE a2 == [o \in Prio |-> IF o = p /\ p \notin mask THEN <<t>> ELSE Act(o)]
           e2 == [o \in Prio |-> IF o = p /\ p \in mask THEN Append(Exp(o), t) ELSE Exp(o)]
<1>12. /\ \A o \in Prio \ {p} : a2[o] = Act(o) /\ e2[o] = Exp(o)
       /\ p \in mask => a2[p] = Act(p) /\ e2[p] = Append(Exp(p), t)
       /\ p \notin mask => a2[p] = <<t>> /\ e2[p] = Exp(p)
  BY <1>1
<1>13. \A o \in Prio : /\ a2[o] = IF o = p /\ p \notin mask THEN <<t>> ELSE Act(o)
                       /\ e2[o] = IF o = p /\ p \in mask THEN Append(Exp(o), t) ELSE Exp(o)
  OBVIOUS
<1> HIDE DEF a2, e2
<1>14. ASSUME NEW o \in Prio \ {p}
       PROVE  PrioOK(link', prio'[o], a2[o], e2[o])
  <2>1. PrioOK(l, prio[o], Act(o), Exp(o))
    BY <1>8
  <2>2. ToSet(Act(o)) \cup ToSet(Exp(o)) \in SUBSET Thread /\ t \notin ToSet(Act(o)) \cup ToSet(Exp(o))
    BY <1>1, OtherPrio, StateSets
  <2>3. (ToSet(Act(o)) \cup ToSet(Exp(o))) \cap ToSet(e) = {}
    BY <1>1, <1>9, OtherPrio
  <2>4. Keeps(l, r.link, ToSet(Act(o)) \cup ToSet(Exp(o)))
    BY <1>11, <2>2, <2>3
  <2>5. PrioOK(r.link, prio[o], Act(o), Exp(o))
    BY <2>1, <2>4, KeepPrio
  <2> QED
    BY <1>4, <1>11, <1>12, <2>5
<1>15. ASSUME p \in mask
       PROVE  /\ PrioOK(link', prio'[p], a2[p], e2[p])
              /\ ToSet(e2[p]) = ToSet(Exp(p)) \cup {t}
  <2>1. /\ e \in Seq(Thread) /\ Distinct(e) /\ Len(e) \in Nat /\ Act(p) # <<>>
        /\ q.total_threads # 0 /\ ToSet(Act(p)) \subseteq Running
        /\ ToSet(Act(p)) \cap ToSet(e) = {} /\ Len(Act(p)) \in Nat
    BY <1>1, <1>9, <1>15, PrioFacts
  <2>2. /\ ToSet(Append(e, t)) = ToSet(e) \cup {t} /\ Len(Append(e, t)) = Len(e) + 1
        /\ Append(e, t)[Len(e) + 1] = t
    BY <1>10, <2>1, AppendFacts
  <2>3. PICK e3 : e3 = Append(e, t)
    OBVIOUS
  <2>4. PrioOK(l, q, Act(p), e)
    BY <1>1, <1>8, <1>9
  <2>5. OnList(r.link, Act(p), q.active_tail)
    <3>1. ToSet(Act(p)) \in SUBSET Thread /\ t \notin ToSet(Act(p)) /\ ToSet(Act(p)) \cap ToSet(e) = {}
      BY <1>1, <2>1, StateSets
    <3>2. Keeps(l, r.link, ToSet(Act(p)))
      BY <1>11, <3>1
    <3> QED
      BY <2>4, <3>2, OnListElsewhere DEF PrioOK
  <2>6. /\ OnList(r.link, Act(p), r.prio[p].active_tail)
        /\ OnList(r.link, e3, r.prio[p].expired_tail)
        /\ r.prio[p].expired_head = t
        /\ r.prio[p].total_threads = Len(Act(p)) + Len(e) + 1
    BY <1>11, <2>1, <2>3, <2>4, <2>5 DEF PrioOK
  <2>7. t = NodeAt(e3, NULL, Len(e3)) /\ Len(e3) = Len(e) + 1
    BY <2>1, <2>2, <2>3 DEF NodeAt
  <2>8. ToSet(Act(p)) \cap ToSet(e3) = {}
    BY <1>1, <2>1, <2>2, <2>3
  <2>9. PrioOK(r.link, r.prio[p], Act(p), e3)
    BY <2>1, <2>6, <2>7, <2>8 DEF PrioOK
  <2> QED
    BY <1>4, <1>9, <1>12, <1>15, <2>2, <2>3, <2>9
<1>16. ASSUME p \notin mask
       PROVE  PrioOK(link', prio'[p], a2[p], e2[p]) /\ Act(p) = <<>> /\ Exp(p) = <<>>
  <2>1. Act(p) = <<>> /\ e = <<>> /\ q.total_threads = 0
    BY <1>1, <1>9, <1>16, PrioFacts
  <2>2. /\ OnList(r.link, <<t>>, r.prio[p].active_tail)
        /\ r.prio[p].expired_tail = NULL /\ r.prio[p].expired_head = NULL
        /\ r.prio[p].total_threads = 1
    <3>1. q.expired_tail = NULL
      BY <1>10, <2>1, OnListFacts
    <3>2. q.expired_head = NULL
      BY <1>10, <2>1 DEF NodeAt
    <3> QED
      BY <1>11, <2>1, <3>1, <3>2
  <2>3. OnList(r.link, <<>>, NULL)
    BY DEF OnList, Linked, Distinct, NodeAt
  <2>4. ToSet(<<>>) = {}
    BY DEF ToSet
  <2>5. PrioOK(r.link, r.prio[p], <<t>>, <<>>)
    BY <2>2, <2>3, <2>4 DEF PrioOK, NodeAt
  <2> QED
    BY <1>4, <1>9, <1>12, <1>16, <2>1, <2>5
<1>17. \A o \in Prio : PrioOK(link', prio'[o], a2[o], e2[o])
  BY <1>14, <1>15, <1>16
<1>18. mask' = mask \cup {p} /\ \A o \in Prio : o \in mask' <=> a2[o] # <<>>
  <2>1. mask' = mask \cup {p} /\ \A o \in Prio : o \in mask <=> Act(o) # <<>>
    BY <1>4, <1>11, PrioFacts
  <2>2. a2[p] # <<>>
    BY <1>1, <1>12, <2>1
  <2> QED
    BY <1>12, <2>1, <2>2
<1>19. \A o \in Prio : \A u : u \in ToSet(a2[o]) \cup ToSet(e2[o]) <=>
                              u \in Running' /\ Priority[u] = o
  <2>1. ToSet(<<t>>) = {t} /\ ToSet(<<>>) = {}
    BY DEF ToSet
  <2>2. \A u : u \in ToSet(a2[p]) \cup ToSet(e2[p]) <=>
                u \in ToSet(Act(p)) \cup ToSet(Exp(p)) \cup {t}
    BY <1>12, <1>15, <1>16, <2>1
  <2> QED
    BY <1>1, <1>12, <2>2, PrioFacts
<1>20. QueuesOK' /\ \A o \in Prio : Act(o)' = a2[o] /\ Exp(o)' = e2[o]
  BY <1>17, <1>18, <1>19, NewQueues
<1>21. ListOK(link', inactive', Idle', Inactive')
  <2>1. Keeps(l, link', Inactive \ {t})
    <3>1. Inactive \ {t} \in SUBSET Thread /\ t \notin Inactive \ {t}
          /\ (Inactive \ {t}) \cap ToSet(e) = {}
      BY <1>10, StateSets
    <3> QED
      BY <1>4, <1>11, <3>1
  <2>2. \E s : ListOK(link', inactive', s, Inactive \ {t})
    BY <1>7, <2>1, KeepList
  <2> QED
    BY <1>1, <2>2, ListOKIs DEF Idle
<1>22. ListOK(all_link', all', Every', Attached')
  BY <1>1, <1>4, <1>5 DEF Every
<1>23. CpuOK' /\ cpu' \in [total_threads : Nat, current_priority : Prio, load_context : BOOLEAN]
  <2>1. Cardinality(Running') = Cardinality(Running) + 1 /\ Cardinality(Running) \in Nat
    BY <1>1, StateSets, FS_AddElement
  <2>2. /\ cpu.total_threads = Cardinality(Running)
        /\ cpu.total_threads > 0 => cpu.current_priority \in mask
        /\ cpu \in [total_threads : Nat, current_priority : Prio, load_context : BOOLEAN]
    BY DEF LinkInv, CpuOK, LinkTypes
  <2>3. cpu' = IF cpu.total_threads = 0
               THEN [total_threads |-> 1, current_priority |-> p, load_context |-> TRUE]
               ELSE [cpu EXCEPT !.total_threads = @ + 1]
    BY DEF resume_thread
  <2>4. CASE cpu.total_threads = 0
    BY <1>1, <1>18, <2>1, <2>2, <2>3, <2>4 DEF CpuOK
  <2>5. CASE cpu.total_threads # 0
    BY <1>1, <1>18, <2>1, <2>2, <2>3, <2>5 DEF CpuOK
  <2> QED
    BY <2>4, <2>5
<1>24. LinkTypes'
  <2>1. /\ mask' \in SUBSET Prio /\ state' \in [Thread -> {"detached", "paused", "running", "stopped"}]
        /\ quantum' \in [Thread -> 0 .. Quantum] /\ fs' = fs /\ frame' = frame /\ ctx' = ctx
    BY <1>1, <1>18, Constants DEF LinkInv, LinkTypes, resume_thread
  <2> QED
    BY <1>4, <1>7, <1>11, <1>23, <2>1 DEF LinkInv, LinkTypes
<1> QED
  BY <1>13, <1>20, <1>21, <1>22, <1>23, <1>24 DEF LinkInv
-----------------------------------------------------------------------------
(* Taking t off the lists of a priority *)
LEMMA UnlinkPrio ==
  ASSUME NEW l \in Links, NEW q, NEW a, NEW e, PrioOK(l, q, a, e),
         NEW t \in ToSet(a) \cup ToSet(e), NEW l2, l2 = Unlink(l, t),
         NEW a1, a1 = RemoveFirst(a, t), NEW e1, e1 = RemoveFirst(e, t)
  PROVE  /\ OnList(l2, a1, IF q.active_tail = t THEN l.next[t] ELSE q.active_tail)
         /\ OnList(l2, e1, IF q.expired_tail = t THEN l.next[t] ELSE q.expired_tail)
         /\ NodeAt(e1, NULL, Len(e1)) =
              IF q.expired_head = t THEN l.prev[t] ELSE q.expired_head
         /\ Len(a1) + Len(e1) = q.total_threads - 1 /\ Len(a1) \in Nat /\ Len(e1) \in Nat
         /\ ToSet(a1) = ToSet(a) \ {t} /\ ToSet(e1) = ToSet(e) \ {t}
         /\ q.active_tail # t => a1 # <<>>
         /\ q.active_tail = t => q.expired_tail # t /\ q.expired_head # t /\ e1 = e
         /\ \A T \in SUBSET Thread :
              T \cap (ToSet(a) \cup ToSet(e)) = {} => Keeps(l, l2, T)
<1>1. /\ OnList(l, a, q.active_tail) /\ OnList(l, e, q.expired_tail)
      /\ q.expired_head = NodeAt(e, NULL, Len(e)) /\ q.total_threads = Len(a) + Len(e)
      /\ a = <<>> => e = <<>>
      /\ ToSet(a) \cap ToSet(e) = {}
  BY DEF PrioOK
<1>2. /\ a \in Seq(Thread) /\ Distinct(a) /\ Len(a) \in Nat /\ ToSet(a) \subseteq Thread
      /\ e \in Seq(Thread) /\ Distinct(e) /\ Len(e) \in Nat /\ ToSet(e) \subseteq Thread
      /\ t \in Thread /\ t # NULL
      /\ q.active_tail = NULL <=> a = <<>>
      /\ q.active_tail # NULL => q.active_tail = Head(a) /\ q.active_tail \in ToSet(a)
      /\ q.expired_tail # NULL => q.expired_tail \in ToSet(e)
  BY <1>1, OnListFacts, Constants
<1>3. q.expired_head # NULL => q.expired_head \in ToSet(e)
  BY <1>1, <1>2 DEF NodeAt, ToSet
<1>4. /\ ToSet(a1) = ToSet(a) \ {t} /\ ToSet(e1) = ToSet(e) \ {t}
      /\ t \notin ToSet(a) => a1 = a
      /\ t \notin ToSet(e) => e1 = e
      /\ a # <<>> /\ Head(a) # t => a1 # <<>>
  BY <1>2, RemoveFacts
<1>5. q.active_tail # t => a1 # <<>>
  <2>1. ToSet(<<>>) = {}
    BY DEF ToSet
  <2>2. a # <<>>
    BY <1>1, <2>1
  <2> QED
    BY <1>2, <1>4, <2>2
<1>6. q.active_tail = t => q.expired_tail # t /\ q.expired_head # t /\ e1 = e
  BY <1>1, <1>2, <1>3, <1>4
<1>7. \A u \in Thread \ {t} : /\ l2.next[u] = Unlink(l, t).next[u]
                              /\ l2.prev[u] = Unlink(l, t).prev[u]
  OBVIOUS
<1>8. PICK ha, he : ha = q.active_tail /\ he = q.expired_tail
  OBVIOUS
<1>9. CASE t \in ToSet(a)
  <2>1. t \notin ToSet(e) /\ e1 = e /\ he # t /\ q.expired_head # t
    BY <1>1, <1>2, <1>3, <1>4, <1>8, <1>9
  <2>2. /\ OnList(l2, a1, IF ha = t THEN l.next[t] ELSE ha)
        /\ Len(a1) = Len(a) - 1 /\ Len(a1) \in Nat
        /\ \A T \in SUBSET Thread : T \cap ToSet(a) = {} => Keeps(l, l2, T)
    BY <1>1, <1>7, <1>8, <1>9, UnlinkFrom
  <2>3. ToSet(e) \in SUBSET Thread /\ ToSet(e) \cap ToSet(a) = {}
    BY <1>1, <1>2
  <2>4. Keeps(l, l2, ToSet(e))
    BY <2>2, <2>3
  <2>5. OnList(l2, e1, he)
    BY <1>1, <1>8, <2>1, <2>4, OnListElsewhere
  <2>6. Len(a1) + Len(e1) = q.total_threads - 1
    BY <1>1, <1>2, <2>1, <2>2
  <2>7. \A T \in SUBSET Thread : T \cap (ToSet(a) \cup ToSet(e)) = {} => Keeps(l, l2, T)
    BY <2>2
  <2> QED
    BY <1>1, <1>2, <1>4, <1>5, <1>6, <1>8, <2>1, <2>2, <2>5, <2>6, <2>7
<1>10. CASE t \in ToSet(e)
  <2>1. t \notin ToSet(a) /\ a1 = a /\ ha # t
    BY <1>1, <1>2, <1>4, <1>8, <1>10
  <2>2. /\ OnList(l2, e1, IF he = t THEN l.next[t] ELSE he)
        /\ Len(e1) = Len(e) - 1 /\ Len(e1) \in Nat
        /\ NodeAt(e1, NULL, Len(e1)) = IF NodeAt(e, NULL, Len(e)) = t THEN l.prev[t]
                                     ELSE NodeAt(e, NULL, Len(e))
        /\ \A T \in SUBSET Thread : T \cap ToSet(e) = {} => Keeps(l, l2, T)
    BY <1>1, <1>7, <1>8, <1>10, UnlinkFrom
  <2>3. ToSet(a) \in SUBSET Thread /\ ToSet(a) \cap ToSet(e) = {}
    BY <1>1, <1>2
  <2>4. Keeps(l, l2, ToSet(a))
    BY <2>2, <2>3
  <2>5. OnList(l2, a1, ha)
    BY <1>1, <1>8, <2>1, <2>4, OnListElsewhere
  <2>6. Len(a1) + Len(e1) = q.total_threads - 1
    BY <1>1, <1>2, <2>1, <2>2
  <2>7. \A T \in SUBSET Thread : T \cap (ToSet(a) \cup ToSet(e)) = {} => Keeps(l, l2, T)
    BY <2>2
  <2> QED
    BY <1>1, <1>2, <1>4, <1>5, <1>6, <1>8, <2>1, <2>2, <2>5, <2>6, <2>7
<1> QED
  BY <1>9, <1>10

(* The lists of a priority after its active list may have run out *)
LEMMA RefilledIs ==
  ASSUME NEW l, NEW x \in PrioRec, NEW a, NEW e,
         OnList(l, a, x.active_tail), OnList(l, e, x.expired_tail),
         x.expired_head = NodeAt(e, NULL, Len(e)),
         x.total_threads = Len(a) + Len(e), ToSet(a) \cap ToSet(e) = {}
  PROVE  /\ Refilled(x) \in PrioRec
         /\ PrioOK(l, Refilled(x), IF a = <<>> THEN e ELSE a, IF a = <<>> THEN <<>> ELSE e)
<1>1. x.active_tail = NULL <=> a = <<>>
  BY OnListFacts
<1>2. CASE a # <<>>
  <2>1. Refilled(x) = x
    BY <1>1, <1>2 DEF Refilled
  <2> QED
    BY <1>2, <2>1 DEF PrioOK
<1>3. CASE a = <<>>
  <2>1. Refilled(x) = [x EXCEPT !.active_tail = x.expired_tail,
                                !.expired_tail = NULL, !.expired_head = NULL]
    BY <1>1, <1>3 DEF Refilled
  <2>2. PICK y : y = Refilled(x)
    OBVIOUS
  <2>3. /\ y \in PrioRec /\ y.active_tail = x.expired_tail
        /\ y.expired_tail = NULL /\ y.expired_head = NULL
        /\ y.total_threads = x.total_threads
    BY <2>1, <2>2 DEF PrioRec, Ptr
  <2>4. OnList(l, <<>>, NULL) /\ ToSet(<<>>) = {}
    BY DEF OnList, Linked, Distinct, NodeAt, ToSet
  <2>5. y.total_threads = Len(e) + Len(<<>>) /\ Len(e) \in Nat
    BY <1>3, <2>3, OnListFacts
  <2>6. PrioOK(l, y, e, <<>>)
    BY <2>3, <2>4, <2>5 DEF PrioOK, NodeAt
  <2> QED
    BY <1>3, <2>2, <2>3, <2>6
<1> QED
  BY <1>2, <1>3

LEMMA PrioWithoutIs ==
  ASSUME LinkInv, NEW t \in Running, NEW p \in Prio, p = Priority[t],
         NEW l, l = Unlink(link, t), NEW a1, a1 = RemoveFirst(Act(p), t),
         NEW e1, e1 = RemoveFirst(Exp(p), t)
  PROVE  /\ PrioWithout(t) \in PrioRec
         /\ PrioOK(l, PrioWithout(t), IF a1 = <<>> THEN e1 ELSE a1,
                   IF a1 = <<>> THEN <<>> ELSE e1)
         /\ ToSet(a1) = ToSet(Act(p)) \ {t} /\ ToSet(e1) = ToSet(Exp(p)) \ {t}
         /\ prio[p].active_tail # t => a1 # <<>>
         /\ \A T \in SUBSET Thread :
              T \cap (ToSet(Act(p)) \cup ToSet(Exp(p))) = {} => Keeps(link, l, T)
<1>1. PICK q, a, e : q = prio[p] /\ a = Act(p) /\ e = Exp(p)
  OBVIOUS
<1>2. /\ link \in Links /\ PrioOK(link, q, a, e) /\ t \in ToSet(a) \cup ToSet(e)
      /\ ToSet(a) \cap ToSet(e) = {} /\ q \in PrioRec
  BY <1>1, PrioFacts DEF LinkInv, LinkTypes
<1>3. /\ OnList(l, a1, IF q.active_tail = t THEN link.next[t] ELSE q.active_tail)
      /\ OnList(l, e1, IF q.expired_tail = t THEN link.next[t] ELSE q.expired_tail)
      /\ NodeAt(e1, NULL, Len(e1)) =
           IF q.expired_head = t THEN link.prev[t] ELSE q.expired_head
      /\ Len(a1) + Len(e1) = q.total_threads - 1 /\ Len(a1) \in Nat /\ Len(e1) \in Nat
      /\ ToSet(a1) = ToSet(a) \ {t} /\ ToSet(e1) = ToSet(e) \ {t}
      /\ q.active_tail # t => a1 # <<>>
      /\ q.active_tail = t => q.expired_tail # t /\ q.expired_head # t /\ e1 = e
      /\ \A T \in SUBSET Thread :
           T \cap (ToSet(a) \cup ToSet(e)) = {} => Keeps(link, l, T)
  BY <1>1, <1>2, UnlinkPrio
<1>4. t \in Thread /\ link.next[t] \in Ptr /\ link.prev[t] \in Ptr
  BY <1>2 DEF Running, Links
<1>5. ToSet(a1) \cap ToSet(e1) = {}
  BY <1>2, <1>3
<1>6. q.total_threads - 1 \in Nat
  BY <1>3
<1>a. PICK f : f = [q EXCEPT !.total_threads = @ - 1]
  OBVIOUS
<1>b. f = [expired_head |-> q.expired_head, expired_tail |-> q.expired_tail,
           active_tail |-> q.active_tail, total_threads |-> q.total_threads - 1]
  BY <1>2, <1>a DEF PrioRec
<1>7. CASE q.active_tail = t
  <2>1. PICK x : x = [expired_head |-> q.expired_head, expired_tail |-> q.expired_tail,
                      active_tail |-> link.next[t], total_threads |-> q.total_threads - 1]
    OBVIOUS
  <2>2. /\ x \in PrioRec /\ x.active_tail = link.next[t] /\ x.expired_tail = q.expired_tail
        /\ x.expired_head = q.expired_head /\ x.total_threads = q.total_threads - 1
    BY <1>2, <1>4, <1>6, <2>1 DEF PrioRec
  <2>3. PrioWithout(t) = Refilled(x)
    <3>1. [f EXCEPT !.active_tail = link.next[t]] = x
      BY <1>b, <2>1
    <3> QED
      BY <1>1, <1>7, <1>a, <3>1, Zenon DEF PrioWithout
  <2>4. /\ OnList(l, a1, x.active_tail) /\ OnList(l, e1, x.expired_tail)
        /\ x.expired_head = NodeAt(e1, NULL, Len(e1)) /\ x.total_threads = Len(a1) + Len(e1)
    BY <1>3, <1>7, <2>2
  <2>5. /\ Refilled(x) \in PrioRec
        /\ PrioOK(l, Refilled(x), IF a1 = <<>> THEN e1 ELSE a1, IF a1 = <<>> THEN <<>> ELSE e1)
    BY <1>5, <2>2, <2>4, RefilledIs
  <2> QED
    BY <1>1, <1>3, <2>3, <2>5
<1>8. CASE q.active_tail # t
  <2>1. PICK hd, tl : /\ hd = IF q.expired_head = t THEN link.prev[t] ELSE q.expired_head
                      /\ tl = IF q.expired_tail = t THEN link.next[t] ELSE q.expired_tail
    OBVIOUS
  <2>2. PICK x : x = [expired_head |-> hd, expired_tail |-> tl,
                      active_tail |-> q.active_tail, total_threads |-> q.total_threads - 1]
    OBVIOUS
  <2>3. hd \in Ptr /\ tl \in Ptr
    BY <1>2, <1>4, <2>1 DEF PrioRec
  <2>4. /\ x \in PrioRec /\ x.active_tail = q.active_tail /\ x.expired_tail = tl
        /\ x.expired_head = hd /\ x.total_threads = q.total_threads - 1
    BY <1>2, <1>6, <2>2, <2>3 DEF PrioRec
  <2>5. PrioWithout(t) = x
    <3>2. f.expired_head = q.expired_head /\ f.expired_tail = q.expired_tail
      BY <1>b
    <3>3. PICK n, b : n = link.next[t] /\ b = link.prev[t]
      OBVIOUS
    <3>4. /\ hd = IF f.expired_head = t THEN b ELSE f.expired_head
          /\ tl = IF f.expired_tail = t THEN n ELSE f.expired_tail
      BY <2>1, <3>2, <3>3
    <3>5. [f EXCEPT !.expired_head = IF @ = t THEN b ELSE @,
                    !.expired_tail = IF @ = t THEN n ELSE @] = x
      <4>1. [f EXCEPT !.expired_head = hd, !.expired_tail = tl] = x
        <5>1. PICK g : g = [f EXCEPT !.expired_head = hd]
          OBVIOUS
        <5>2. g = [expired_head |-> hd, expired_tail |-> q.expired_tail,
                   active_tail |-> q.active_tail, total_threads |-> q.total_threads - 1]
          BY <1>b, <5>1
        <5>3. [g EXCEPT !.expired_tail = tl] = x
          BY <2>2, <5>2
        <5> QED
          BY <5>1, <5>3
      <4>2. [f EXCEPT !.expired_head = IF f.expired_head = t THEN b ELSE f.expired_head,
                      !.expired_tail = IF f.expired_tail = t THEN n ELSE f.expired_tail] = x
        BY <3>4, <4>1, Zenon
      <4> QED
        BY <4>2, Zenon
    <3>1. [f EXCEPT !.expired_head = IF @ = t THEN link.prev[t] ELSE @,
                    !.expired_tail = IF @ = t THEN link.next[t] ELSE @] = x
      BY <3>3, <3>5
    <3> QED
      BY <1>1, <1>8, <1>a, <3>1, Zenon DEF PrioWithout
  <2>6. PrioOK(l, x, a1, e1)
    BY <1>3, <1>5, <1>8, <2>1, <2>4 DEF PrioOK
  <2> QED
    BY <1>1, <1>3, <1>8, <2>4, <2>5, <2>6
<1> QED
  BY <1>7, <1>8

LEMMA LowestBitIs ==
  ASSUME NEW m \in SUBSET Prio, m # {}
  PROVE  LowestBit(m) \in m /\ \A o \in m : LowestBit(m) <= o
<1>1. m \in SUBSET Nat
  BY Constants
<1>2. \E b \in m : \A o \in m : b <= o
  BY <1>1, LeastExists
<1> QED
  BY <1>2 DEF LowestBit

LEMMA DeactivateStep ==
  ASSUME LinkInv, NEW t \in Thread, NEW to \in {"paused", "stopped"},
         deactivate_running(t, to), NEW p, p = Priority[t],
         NEW a1, a1 = RemoveFirst(Act(p), t), NEW e1, e1 = RemoveFirst(Exp(p), t)
  PROVE  /\ LinkInv' /\ p \in Prio
         /\ \A o \in Prio :
              /\ Act(o)' = IF o # p THEN Act(o) ELSE IF a1 = <<>> THEN e1 ELSE a1
              /\ Exp(o)' = IF o # p THEN Exp(o) ELSE IF a1 = <<>> THEN <<>> ELSE e1
         /\ cpu.total_threads > 1 => mask' # {}
<1>1. /\ Running' = Running \ {t} /\ Inactive' = Inactive \cup {t} /\ Attached' = Attached
      /\ t \in Running /\ t \notin Inactive /\ p \in Prio
  BY Constants DEF deactivate_running, Running, Inactive, Attached, LinkInv, LinkTypes
<1>2. PICK l, q1 : l = Unlink(link, t) /\ q1 = PrioWithout(t)
  OBVIOUS
<1>3. /\ link' = PushLinks(l, inactive.tail, t) /\ prio' = [prio EXCEPT ![p] = q1]
      /\ mask' = IF q1.total_threads = 0 THEN mask \ {p} ELSE mask
      /\ inactive' = Pushed(inactive, t) /\ all_link' = all_link /\ all' = all
      /\ quantum' = quantum
  BY <1>2 DEF deactivate_running
<1>4. /\ link \in Links /\ prio \in [Prio -> PrioRec] /\ inactive \in ListRec
      /\ ListOK(link, inactive, Idle, Inactive)
      /\ ListOK(all_link, all, Every, Attached)
  BY DEF LinkInv, LinkTypes
<1>5. l \in Links
  BY <1>2, <1>4, UnlinkIs
<1>6. PICK a2, e2 : /\ a2 = IF a1 = <<>> THEN e1 ELSE a1
                    /\ e2 = IF a1 = <<>> THEN <<>> ELSE e1
  OBVIOUS
<1>7. /\ q1 \in PrioRec /\ PrioOK(l, q1, a2, e2)
      /\ ToSet(a1) = ToSet(Act(p)) \ {t} /\ ToSet(e1) = ToSet(Exp(p)) \ {t}
      /\ prio[p].active_tail # t => a1 # <<>>
      /\ \A T \in SUBSET Thread :
           T \cap (ToSet(Act(p)) \cup ToSet(Exp(p))) = {} => Keeps(link, l, T)
  BY <1>1, <1>2, <1>6, PrioWithoutIs
<1>8. ToSet(a2) \cup ToSet(e2) = (ToSet(Act(p)) \cup ToSet(Exp(p))) \ {t}
  <2>1. ToSet(<<>>) = {}
    BY DEF ToSet
  <2> QED
    BY <1>6, <1>7, <2>1
<1>9. /\ link' \in Links /\ inactive' \in ListRec
      /\ \E s : ListOK(link', inactive', s, Inactive \cup {t})
      /\ \A T \in SUBSET Thread : t \notin T /\ T \cap Inactive = {} => Keeps(l, link', T)
  <2>1. Inactive \in SUBSET Thread /\ Inactive \cap (ToSet(Act(p)) \cup ToSet(Exp(p))) = {}
    BY <1>1, StateSets, PrioFacts
  <2>2. ListOK(l, inactive, Idle, Inactive)
    BY <1>4, <1>7, <2>1, KeepList
  <2> QED
    BY <1>1, <1>3, <1>4, <1>5, <2>2, PushList
<1> DEFINE A2 == [o \in Prio |-> IF o # p THEN Act(o) ELSE a2]
           E2 == [o \in Prio |-> IF o # p THEN Exp(o) ELSE e2]
<1>10. /\ \A o \in Prio \ {p} : A2[o] = Act(o) /\ E2[o] = Exp(o)
       /\ A2[p] = a2 /\ E2[p] = e2
  BY <1>1
<1> HIDE DEF A2, E2
<1>11. /\ \A o \in Prio \ {p} : prio'[o] = prio[o]
       /\ prio'[p] = q1 /\ prio' \in [Prio -> PrioRec]
  BY <1>1, <1>3, <1>4, <1>7
<1>12. ASSUME NEW o \in Prio \ {p}
       PROVE  PrioOK(link', prio'[o], A2[o], E2[o])
  <2>1. PrioOK(link, prio[o], Act(o), Exp(o))
    BY PrioFacts
  <2>2. PICK S : S = ToSet(Act(o)) \cup ToSet(Exp(o))
    OBVIOUS
  <2>3. /\ S \in SUBSET Thread /\ t \notin S /\ S \cap Inactive = {}
        /\ S \cap (ToSet(Act(p)) \cup ToSet(Exp(p))) = {}
    BY <1>1, <2>2, OtherPrio, StateSets
  <2>4. Keeps(link, l, S) /\ Keeps(l, link', S)
    BY <1>7, <1>9, <2>3
  <2>5. PrioOK(link', prio[o], Act(o), Exp(o))
    BY <2>1, <2>2, <2>4, KeepsThrough, KeepPrio
  <2> QED
    BY <1>10, <1>11, <2>5
<1>13. PrioOK(link', prio'[p], A2[p], E2[p])
  <2>1. PICK S : S = ToSet(a2) \cup ToSet(e2)
    OBVIOUS
  <2>2. S \in SUBSET Thread /\ t \notin S /\ S \cap Inactive = {}
    BY <1>1, <1>8, <2>1, PrioFacts, StateSets
  <2>3. Keeps(l, link', S)
    BY <1>9, <2>2
  <2>4. PrioOK(link', q1, a2, e2)
    BY <1>7, <2>1, <2>3, KeepPrio
  <2> QED
    BY <1>10, <1>11, <2>4
<1>14. \A o \in Prio : PrioOK(link', prio'[o], A2[o], E2[o])
  BY <1>12, <1>13
<1>15. p \in mask' <=> a2 # <<>>
  <2>1. /\ OnList(l, a2, q1.active_tail) /\ OnList(l, e2, q1.expired_tail)
        /\ q1.total_threads = Len(a2) + Len(e2) /\ (a2 = <<>> => e2 = <<>>)
    BY <1>7 DEF PrioOK
  <2>2. a2 \in Seq(Thread) /\ Len(a2) \in Nat /\ e2 \in Seq(Thread) /\ Len(e2) \in Nat
    BY <2>1, OnListFacts
  <2>3. q1.total_threads = 0 <=> a2 = <<>>
    BY <2>1, <2>2
  <2>4. p \in mask
    <3>1. t \in ToSet(Act(p)) \cup ToSet(Exp(p))
      BY <1>1, PrioFacts
    <3>2. ToSet(<<>>) = {}
      BY DEF ToSet
    <3> QED
      BY <1>1, <3>1, <3>2, PrioFacts
  <2> QED
    BY <1>3, <2>3, <2>4
<1>16. \A o \in Prio : o \in mask' <=> A2[o] # <<>>
  <2>1. ASSUME NEW o \in Prio \ {p} PROVE o \in mask' <=> A2[o] # <<>>
    BY <1>3, <1>10, PrioFacts
  <2> QED
    BY <1>10, <1>15, <2>1
<1>17. \A o \in Prio : \A u : u \in ToSet(A2[o]) \cup ToSet(E2[o]) <=>
                              u \in Running' /\ Priority[u] = o
  <2>1. ASSUME NEW o \in Prio \ {p}, NEW u
        PROVE  u \in ToSet(A2[o]) \cup ToSet(E2[o]) <=> u \in Running' /\ Priority[u] = o
    BY <1>1, <1>10, PrioFacts
  <2>2. ASSUME NEW u
        PROVE  u \in ToSet(A2[p]) \cup ToSet(E2[p]) <=> u \in Running' /\ Priority[u] = p
    <3>1. ToSet(A2[p]) \cup ToSet(E2[p]) = (ToSet(Act(p)) \cup ToSet(Exp(p))) \ {t}
      BY <1>8, <1>10
    <3> QED
      BY <1>1, <3>1, PrioFacts
  <2> QED
    BY <2>1, <2>2
<1>18. QueuesOK' /\ \A o \in Prio : Act(o)' = A2[o] /\ Exp(o)' = E2[o]
  BY <1>14, <1>16, <1>17, NewQueues
<1>19. ListOK(link', inactive', Idle', Inactive')
  BY <1>1, <1>9, ListOKIs DEF Idle
<1>20. ListOK(all_link', all', Every', Attached')
  BY <1>1, <1>3, <1>4 DEF Every
<1>21. /\ Cardinality(Running') = Cardinality(Running) - 1 /\ Cardinality(Running') \in Nat
       /\ Cardinality(Running) \in Nat /\ (Cardinality(Running') > 0 => Running' # {})
  <2>1. /\ Cardinality(Running \ {t}) = Cardinality(Running) - 1
        /\ IsFiniteSet(Running \ {t}) /\ Cardinality(Running) \in Nat
    BY <1>1, StateSets, FS_RemoveElement
  <2> QED
    BY <1>1, <2>1, FS_CardinalityType, FS_EmptySet
<1>22. mask' \in SUBSET Prio /\ (Running' # {} => mask' # {})
  <2>1. mask' \in SUBSET Prio
    BY <1>3 DEF LinkInv, LinkTypes
  <2>2. ASSUME NEW u \in Running' PROVE Priority[u] \in mask'
    <3>1. Priority[u] \in Prio
      BY <1>1, StateSets, Constants
    <3>2. u \in ToSet(A2[Priority[u]]) \cup ToSet(E2[Priority[u]])
      BY <1>17, <3>1
    <3>3. A2[Priority[u]] = <<>> => E2[Priority[u]] = <<>>
      BY <1>14, <3>1 DEF PrioOK
    <3>4. ToSet(<<>>) = {}
      BY DEF ToSet
    <3> QED
      BY <1>16, <3>1, <3>2, <3>3, <3>4
  <2> QED
    BY <2>1, <2>2
<1>23. CpuOK' /\ cpu' \in [total_threads : Nat, current_priority : Prio, load_context : BOOLEAN]
       /\ (cpu.total_threads > 1 => mask' # {})
  <2>1. /\ cpu.total_threads = Cardinality(Running)
        /\ cpu.total_threads > 0 => cpu.current_priority \in mask
        /\ cpu \in [total_threads : Nat, current_priority : Prio, load_context : BOOLEAN]
    BY DEF LinkInv, CpuOK, LinkTypes
  <2>2. cpu' = IF Current = t /\ cpu.total_threads > 1
               THEN [total_threads |-> cpu.total_threads - 1,
                     current_priority |-> LowestBit(mask'), load_context |-> TRUE]
               ELSE [cpu EXCEPT !.total_threads = @ - 1]
    BY DEF deactivate_running
  <2>3. cpu.total_threads > 1 => mask' # {}
    BY <1>21, <1>22, <2>1
  <2>4. CASE Current = t /\ cpu.total_threads > 1
    <3>1. LowestBit(mask') \in mask'
      BY <1>22, <2>3, <2>4, LowestBitIs
    <3>2. PICK b \in mask' : b = LowestBit(mask')
      BY <3>1
    <3>3. cpu' = [total_threads |-> cpu.total_threads - 1,
                  current_priority |-> b, load_context |-> TRUE]
      BY <2>2, <2>4, <3>2
    <3> QED
      BY <1>21, <1>22, <2>1, <2>3, <3>3 DEF CpuOK
  <2>5. CASE ~(Current = t /\ cpu.total_threads > 1)
    <3>1. cpu' = [cpu EXCEPT !.total_threads = @ - 1]
      BY <2>2, <2>5
    <3>2. /\ cpu'.total_threads = Cardinality(Running')
          /\ cpu'.current_priority = cpu.current_priority
          /\ cpu' \in [total_threads : Nat, current_priority : Prio, load_context : BOOLEAN]
      BY <1>21, <2>1, <3>1
    <3>3. ASSUME cpu'.total_threads > 0 PROVE cpu.current_priority \in mask'
      <4>1. cpu.current_priority \in mask /\ Current # t
        BY <1>21, <2>1, <2>5, <3>2, <3>3
      <4>2. CASE cpu.current_priority = p
        <5>1. a1 # <<>>
          BY <1>7, <4>1, <4>2 DEF Current
        <5> QED
          BY <1>6, <1>15, <4>2, <5>1
      <4>3. CASE cpu.current_priority # p
        BY <1>3, <4>1, <4>3
      <4> QED
        BY <4>2, <4>3
    <3> QED
      BY <2>3, <3>2, <3>3 DEF CpuOK
  <2> QED
    BY <2>4, <2>5
<1>24. LinkTypes'
  <2>1. /\ state' \in [Thread -> {"detached", "paused", "running", "stopped"}]
        /\ fs' \in Ptr /\ frame' \in Ptr /\ ctx' \in [Thread -> Ptr]
        /\ quantum' \in [Thread -> 0 .. Quantum] /\ all_link' \in Links /\ all' \in ListRec
    <3>1. /\ state \in [Thread -> {"detached", "paused", "running", "stopped"}]
          /\ fs \in Ptr /\ frame \in Ptr /\ ctx \in [Thread -> Ptr] /\ NULL \in Ptr
          /\ quantum \in [Thread -> 0 .. Quantum] /\ all_link \in Links /\ all \in ListRec
      BY DEF LinkInv, LinkTypes, Ptr
    <3>2. /\ state' = [state EXCEPT ![t] = to]
          /\ IF Current = t
             THEN fs' = NULL /\ frame' = NULL /\ ctx' = [ctx EXCEPT ![t] = frame]
             ELSE fs' = fs /\ frame' = frame /\ ctx' = ctx
      BY DEF deactivate_running
    <3> QED
      BY <1>3, <3>1, <3>2
  <2> QED
    BY <1>9, <1>11, <1>22, <1>23, <2>1 DEF LinkTypes
<1>25. \A o \in Prio :
         /\ Act(o)' = IF o # p THEN Act(o) ELSE IF a1 = <<>> THEN e1 ELSE a1
         /\ Exp(o)' = IF o # p THEN Exp(o) ELSE IF a1 = <<>> THEN <<>> ELSE e1
  BY <1>6, <1>10, <1>18
<1> QED
  BY <1>1, <1>18, <1>19, <1>20, <1>23, <1>24, <1>25 DEF LinkInv
-----------------------------------------------------------------------------
LEMMA CurrentIs ==
  ASSUME LinkInv, cpu.total_threads > 0, NEW c, c = cpu.current_priority
  PROVE  /\ c \in Prio /\ c \in mask /\ Act(c) # <<>> /\ Current = Head(Act(c))
         /\ Current \in ToSet(Act(c)) /\ Current \in Running /\ Current \in Thread
         /\ Priority[Current] = c /\ prio[c].active_tail = Current
<1>1. c \in Prio /\ c \in mask /\ prio[c].active_tail = Current
  BY DEF LinkInv, CpuOK, LinkTypes, Current
<1> QED
  BY <1>1, PrioFacts, StateSets

(* TimerSwitch's assignment through the new active_tail *)
WithoutPrev(l, h) == [l EXCEPT !.prev = Set(@, h, NULL)]

(* The lists of the current priority after a switch, link' being l2 *)
SwitchedTo(c, r, x, l2, a1, e1) ==
  /\ l2 \in Links /\ r.prio \in [Prio -> PrioRec] /\ r.mask = mask
  /\ \A o \in Prio \ {c} : r.prio[o] = prio[o]
  /\ \A T \in SUBSET Thread :
       T \cap (ToSet(Act(c)) \cup ToSet(Exp(c))) = {} => Keeps(link, l2, T)
  /\ e1 # <<>>
  /\ Refilled(x) \in PrioRec
  /\ PrioOK(l2, Refilled(x), IF a1 = <<>> THEN e1 ELSE a1, IF a1 = <<>> THEN <<>> ELSE e1)
  /\ ToSet(a1) \cup ToSet(e1) = ToSet(Act(c)) \cup ToSet(Exp(c))

LEMMA SwitchPrio ==
  ASSUME LinkInv, cpu.total_threads > 0, NEW c, c = cpu.current_priority,
         NEW t, t = Current, NEW r, r = Requeued, NEW x, x = r.prio[c],
         NEW l2, l2 = WithoutPrev(r.link, x.active_tail),
         NEW a1, a1 = Tail(Act(c)), NEW e1, e1 = Append(Exp(c), t)
  PROVE  SwitchedTo(c, r, x, l2, a1, e1)
<1>1. /\ c \in Prio /\ c \in mask /\ Act(c) # <<>> /\ t = Head(Act(c))
      /\ t \in ToSet(Act(c)) /\ t \in Running /\ t \in Thread
      /\ Priority[t] = c /\ prio[c].active_tail = t
  BY CurrentIs
<1>2. PICK a, e, q0 : a = Act(c) /\ e = Exp(c) /\ q0 = prio[c]
  OBVIOUS
<1>3. /\ PrioOK(link, q0, a, e) /\ q0 \in PrioRec
      /\ a \in Seq(Thread) /\ Distinct(a) /\ Len(a) \in Nat /\ a # <<>> /\ t = a[1]
      /\ e \in Seq(Thread) /\ Distinct(e) /\ Len(e) \in Nat
      /\ ToSet(a) \cap ToSet(e) = {} /\ ToSet(a) \subseteq Thread /\ ToSet(e) \subseteq Thread
      /\ t \in ToSet(a) /\ t \notin ToSet(e) /\ t # NULL
  BY <1>1, <1>2, PrioFacts, StateSets, Constants
<1>4. /\ OnList(link, a, t) /\ OnList(link, e, q0.expired_tail)
      /\ q0.expired_head = NodeAt(e, NULL, Len(e))
      /\ q0.total_threads = Len(a) + Len(e)
  BY <1>1, <1>2, <1>3 DEF PrioOK
<1>5. link \in Links /\ prio \in [Prio -> PrioRec] /\ mask \in SUBSET Prio
  BY DEF LinkInv, LinkTypes
<1>6. PICK h \in Ptr : h = link.next[t]
  BY <1>1, <1>5 DEF Links
<1>7. Len(a) + Len(e) - 1 \in Nat /\ Len(a) >= 1 /\ 1 \in 1 .. Len(a)
  BY <1>3
<1> DEFINE q == [q0 EXCEPT !.active_tail = h, !.total_threads = @ - 1]
           P == [prio EXCEPT ![c] = q]
           m == IF q.total_threads = 0 THEN mask \ {c} ELSE mask
<1>8. r = AddExpired([link |-> link, prio |-> P, mask |-> m], t)
  BY <1>2, <1>6 DEF Requeued
<1>9. /\ q \in PrioRec /\ q.active_tail = h /\ q.total_threads = Len(a) + Len(e) - 1
      /\ q.expired_tail = q0.expired_tail /\ q.expired_head = q0.expired_head
  <2>1. PICK f : f = [q0 EXCEPT !.active_tail = h]
    OBVIOUS
  <2>2. /\ f \in PrioRec /\ f.active_tail = h /\ f.total_threads = Len(a) + Len(e)
        /\ f.expired_tail = q0.expired_tail /\ f.expired_head = q0.expired_head
    BY <1>3, <1>4, <1>6, <2>1 DEF PrioRec
  <2>3. q = [f EXCEPT !.total_threads = @ - 1]
    BY <2>1
  <2>4. PICK z : z = [f EXCEPT !.total_threads = @ - 1]
    OBVIOUS
  <2>5. /\ z \in PrioRec /\ z.active_tail = h /\ z.total_threads = Len(a) + Len(e) - 1
        /\ z.expired_tail = q0.expired_tail /\ z.expired_head = q0.expired_head
    BY <1>7, <2>2, <2>4 DEF PrioRec
  <2> QED
    BY <2>3, <2>4, <2>5
<1> HIDE DEF q
<1>10. /\ P \in [Prio -> PrioRec] /\ P[c] = q /\ \A o \in Prio \ {c} : P[o] = prio[o]
       /\ m \cup {c} = mask
  BY <1>1, <1>5, <1>9
<1> HIDE DEF P, m
<1>11. /\ r.link \in Links /\ r.prio \in [Prio -> PrioRec] /\ r.mask = m \cup {c}
       /\ \A o \in Prio \ {c} : r.prio[o] = P[o]
       /\ r.prio[c].total_threads = q.total_threads + 1
       /\ \A T \in SUBSET Thread :
            t \notin T /\ T \cap ToSet(e) = {} => Keeps(link, r.link, T)
       /\ q.total_threads = 0 =>
            /\ OnList(r.link, <<t>>, r.prio[c].active_tail)
            /\ r.prio[c].expired_tail = q.expired_tail
            /\ r.prio[c].expired_head = q.expired_head
       /\ q.total_threads # 0 =>
            /\ OnList(r.link, Append(e, t), r.prio[c].expired_tail)
            /\ r.prio[c].expired_head = t
            /\ r.prio[c].active_tail = q.active_tail
  <2>1. OnList(link, e, q.expired_tail) /\ q.expired_head = NodeAt(e, NULL, Len(e))
    BY <1>4, <1>9
  <2>2. /\ q = P[c] /\ c = Priority[t] /\ P \in [Prio -> PrioRec] /\ link \in Links
        /\ t \in Thread /\ c \in Prio /\ t \notin ToSet(e)
    BY <1>1, <1>3, <1>5, <1>10
  <2>3. Added(link, P, m, t, c, q, e, r)
    BY <1>8, <2>1, <2>2, AddExpiredIs
  <2> QED
    BY <2>3 DEF Added
<1>12. PICK y, k : y = x.active_tail /\ k = r.link
  OBVIOUS
<1>13. /\ l2 \in Links
       /\ \A u \in Thread : /\ l2.next[u] = k.next[u]
                            /\ l2.prev[u] = IF u = y THEN NULL ELSE k.prev[u]
  <2>1. /\ k \in Links /\ y \in Ptr /\ l2 = [k EXCEPT !.prev = Set(@, y, NULL)]
    BY <1>1, <1>11, <1>12 DEF PrioRec, WithoutPrev
  <2>2. k.next \in [Thread -> Ptr] /\ k.prev \in [Thread -> Ptr]
    BY <2>1 DEF Links
  <2>3. PICK b : b = Set(k.prev, y, NULL)
    OBVIOUS
  <2>4. /\ b \in [Thread -> Ptr]
        /\ \A u \in Thread : b[u] = IF u = y THEN NULL ELSE k.prev[u]
    BY <2>1, <2>2, <2>3, Constants DEF Set, Ptr
  <2>5. l2 = [next |-> k.next, prev |-> b]
    BY <2>1, <2>3 DEF Links
  <2> QED
    BY <2>2, <2>4, <2>5 DEF Links
<1>14. /\ a1 \in Seq(Thread) /\ Distinct(a1) /\ ToSet(a1) = ToSet(a) \ {t}
       /\ Len(a1) = Len(a) - 1
  BY <1>1, <1>2, <1>3, TailFacts
<1>15. /\ e1 \in Seq(Thread) /\ e1 # <<>> /\ ToSet(e1) = ToSet(e) \cup {t}
       /\ Len(e1) = Len(e) + 1 /\ NodeAt(e1, NULL, Len(e1)) = t
  <2>1. /\ Append(e, t) \in Seq(Thread) /\ Append(e, t) # <<>>
        /\ ToSet(Append(e, t)) = ToSet(e) \cup {t}
    BY <1>1, <1>3, AppendFacts
  <2>2. /\ Len(Append(e, t)) = Len(e) + 1 /\ Append(e, t)[Len(e) + 1] = t
    BY <1>1, <1>3
  <2>3. Len(e) + 1 \in 1 .. Len(e) + 1
    BY <1>3
  <2> QED
    BY <1>2, <2>1, <2>2, <2>3 DEF NodeAt
<1>16. h = NULL \/ h \in ToSet(a) \ {t}
  BY <1>3, <1>4, <1>6, Neighbours
<1>17. y = t \/ y = h
  <2>1. CASE q.total_threads = 0
    <3>1. OnList(r.link, <<t>>, y)
      BY <1>11, <1>12, <2>1
    <3> QED
      BY <3>1, OnListFacts
  <2>2. CASE q.total_threads # 0
    BY <1>9, <1>11, <1>12, <2>2
  <2> QED
    BY <2>1, <2>2
<1>18. \A T \in SUBSET Thread :
         T \cap (ToSet(a) \cup ToSet(e)) = {} => Keeps(link, l2, T)
  <2> SUFFICES ASSUME NEW T \in SUBSET Thread, T \cap (ToSet(a) \cup ToSet(e)) = {}
               PROVE  Keeps(link, l2, T)
    OBVIOUS
  <2>1. t \notin T /\ T \cap ToSet(e) = {} /\ (h = NULL \/ h \notin T)
    BY <1>3, <1>16
  <2>2. Keeps(link, k, T)
    BY <1>11, <1>12, <2>1
  <2>3. y \notin T
    BY <1>3, <1>17, <2>1, Constants
  <2> QED
    BY <1>13, <2>2, <2>3 DEF Keeps
<1>z. /\ l2 \in Links /\ r.prio \in [Prio -> PrioRec] /\ r.mask = mask
      /\ \A o \in Prio \ {c} : r.prio[o] = prio[o]
      /\ \A T \in SUBSET Thread :
           T \cap (ToSet(Act(c)) \cup ToSet(Exp(c))) = {} => Keeps(link, l2, T)
      /\ e1 # <<>>
  BY <1>2, <1>10, <1>11, <1>13, <1>15, <1>18
<1>19. CASE q.total_threads = 0
  <2>1. a1 = <<>> /\ e = <<>> /\ e1 = <<t>> /\ Len(a) = 1
    <3>1. Len(a) = 1 /\ Len(e) = 0
      <4>1. PICK i \in Nat, j \in Nat : i = Len(a) /\ j = Len(e)
        BY <1>3
      <4>2. i + j - 1 = 0 /\ i >= 1
        BY <1>7, <1>9, <1>19, <4>1
      <4>3. i = 1 /\ j = 0
        BY <4>2
      <4> QED
        BY <4>1, <4>3
    <3>2. e = <<>> /\ a1 = <<>>
      BY <1>3, <1>14, <3>1
    <3> QED
      BY <1>2, <3>1, <3>2
  <2>2. OnList(k, <<t>>, y) /\ y = t
    <3>1. OnList(k, <<t>>, y)
      BY <1>11, <1>12, <1>19
    <3> QED
      BY <3>1, OnListFacts
  <2>3. OnList(l2, <<t>>, y)
    <3>1. PICK n, b, n2, b2 : n = k.next /\ b = k.prev /\ n2 = l2.next /\ b2 = l2.prev
      OBVIOUS
    <3>2. Linked(Thread, NULL, n, b, <<t>>, y)
      BY <2>2, <3>1 DEF OnList
    <3>3. n[t] = NULL /\ n2[t] = NULL /\ b2[t] = NULL
      BY <1>1, <1>13, <2>2, <3>1, <3>2 DEF Linked, NodeAt
    <3>4. Linked(Thread, NULL, n2, b2, <<t>>, y)
      BY <1>1, <2>2, <3>3 DEF Linked, Distinct, NodeAt
    <3> QED
      BY <3>1, <3>4 DEF OnList
  <2>4. /\ x \in PrioRec /\ x.expired_tail = NULL /\ x.expired_head = NULL
        /\ x.total_threads = 1 /\ x.active_tail = y
    <3>1. q.expired_tail = NULL /\ q.expired_head = NULL
      BY <1>4, <1>9, <2>1, OnListFacts DEF NodeAt
    <3> QED
      BY <1>1, <1>11, <1>12, <1>19, <3>1
  <2>5. OnList(l2, <<>>, NULL) /\ ToSet(<<>>) = {}
    BY DEF OnList, Linked, Distinct, NodeAt, ToSet
  <2>6. Refilled(x) = x
    BY <1>3, <2>2, <2>4 DEF Refilled
  <2>7. PrioOK(l2, x, <<t>>, <<>>)
    BY <2>3, <2>4, <2>5 DEF PrioOK, NodeAt
  <2>8. PrioOK(l2, Refilled(x), IF a1 = <<>> THEN e1 ELSE a1, IF a1 = <<>> THEN <<>> ELSE e1)
    BY <2>1, <2>6, <2>7
  <2>9. ToSet(a1) \cup ToSet(e1) = ToSet(Act(c)) \cup ToSet(Exp(c))
    BY <1>2, <1>3, <1>14, <1>15
  <2> QED
    BY <1>z, <2>4, <2>6, <2>8, <2>9, Zenon DEF SwitchedTo
<1>20. CASE q.total_threads # 0
  <2>1. /\ x \in PrioRec /\ x.active_tail = h /\ y = h /\ x.expired_head = t
        /\ x.total_threads = Len(a1) + Len(e1) /\ OnList(k, e1, x.expired_tail)
    BY <1>1, <1>2, <1>3, <1>9, <1>11, <1>12, <1>14, <1>15, <1>20
  <2>2. OnList(l2, a1, h)
    <3>1. PICK n, b, n2, b2 : n = link.next /\ b = link.prev /\ n2 = l2.next /\ b2 = l2.prev
      OBVIOUS
    <3>2. Linked(Thread, NULL, n, b, a, t) /\ h = n[t]
      BY <1>4, <1>6, <3>1 DEF OnList
    <3>3. b[t] = NULL
      BY <1>3, <1>7, <3>2 DEF Linked, NodeAt
    <3>4. Keeps(link, k, ToSet(a) \ {t})
      <4>1. ToSet(a) \ {t} \in SUBSET Thread /\ (ToSet(a) \ {t}) \cap ToSet(e) = {}
            /\ t \notin ToSet(a) \ {t}
        BY <1>3
      <4> QED
        BY <1>11, <1>12, <4>1
    <3>5. \A u \in ToSet(a) \ {t} : n2[u] = n[u] /\ b2[u] = IF u = h THEN NULL ELSE b[u]
      BY <1>3, <1>13, <2>1, <3>1, <3>4 DEF Keeps
    <3>6. \A u \in ToSet(a) \ {t} : /\ n2[u] = IF u = b[t] THEN n[t] ELSE n[u]
                                    /\ b2[u] = IF u = n[t] THEN b[t] ELSE b[u]
      BY <1>3, <3>2, <3>3, <3>5, Constants
    <3>7. Linked(Thread, NULL, n2, b2, RemoveAt(a, 1), n[t])
      <4>1. PICK z : z = t
        OBVIOUS
      <4>2. Linked(Thread, NULL, n, b, a, z) /\ 1 \in 1 .. Len(a) /\ t = a[1] /\ NULL \notin Thread
        BY <1>3, <1>7, <3>2, <4>1, Constants
      <4>3. Linked(Thread, NULL, n2, b2, RemoveAt(a, 1), IF z = t THEN n[t] ELSE z)
        BY <3>6, <4>2, LinkedRemove
      <4> QED
        BY <4>1, <4>3
    <3>8. RemoveAt(a, 1) = a1
      BY <1>2, <1>3, RemoveAtHead
    <3> QED
      BY <3>1, <3>2, <3>7, <3>8 DEF OnList
  <2>3. OnList(l2, e1, x.expired_tail)
    <3>1. y \notin ToSet(e1) /\ ToSet(e1) \subseteq Thread
      BY <1>1, <1>3, <1>15, <1>16, <2>1, Constants
    <3>2. Keeps(k, l2, ToSet(e1))
      BY <1>13, <3>1 DEF Keeps
    <3> QED
      BY <2>1, <3>2, OnListElsewhere
  <2>4. ToSet(a1) \cap ToSet(e1) = {}
    BY <1>3, <1>14, <1>15
  <2>5. /\ Refilled(x) \in PrioRec
        /\ PrioOK(l2, Refilled(x), IF a1 = <<>> THEN e1 ELSE a1, IF a1 = <<>> THEN <<>> ELSE e1)
    BY <1>15, <2>1, <2>2, <2>3, <2>4, RefilledIs
  <2>6. ToSet(a1) \cup ToSet(e1) = ToSet(Act(c)) \cup ToSet(Exp(c))
    BY <1>2, <1>3, <1>14, <1>15
  <2> QED
    BY <1>z, <2>5, <2>6, Zenon DEF SwitchedTo
<1> QED
  BY <1>19, <1>20

LEMMA SwitchStep ==
  ASSUME LinkInv, TimerSwitch
  PROVE  /\ LinkInv' /\ mask' = mask
         /\ LET c == cpu.current_priority
                a1 == Tail(Act(c))
                e1 == Append(Exp(c), Current)
            IN  \A o \in Prio :
                  /\ Act(o)' = IF o # c THEN Act(o) ELSE IF a1 = <<>> THEN e1 ELSE a1
                  /\ Exp(o)' = IF o # c THEN Exp(o) ELSE IF a1 = <<>> THEN <<>> ELSE e1
<1>0. PICK c, a1, e1 : /\ c = cpu.current_priority /\ a1 = Tail(Act(c))
                       /\ e1 = Append(Exp(c), Current)
  OBVIOUS
<1>1. cpu.total_threads > 0
  BY DEF TimerSwitch
<1>2. /\ c \in Prio /\ c \in mask /\ Act(c) # <<>> /\ Current \in Thread
  BY <1>0, <1>1, CurrentIs
<1>3. PICK r, x, t : r = Requeued /\ x = r.prio[c] /\ t = Current
  OBVIOUS
<1>4. /\ prio' = [r.prio EXCEPT ![c] = Refilled(@)] /\ mask' = r.mask
      /\ link' = [r.link EXCEPT !.prev = Set(@, r.prio[c].active_tail, NULL)]
      /\ cpu' = [cpu EXCEPT !.current_priority = LowestBit(mask)]
      /\ all_link' = all_link /\ inactive' = inactive /\ all' = all /\ state' = state
      /\ quantum' = [quantum EXCEPT ![t] = Quantum] /\ ctx' = [ctx EXCEPT ![t] = frame]
  BY <1>0, <1>3 DEF TimerSwitch
<1>5. /\ link' \in Links /\ r.prio \in [Prio -> PrioRec] /\ r.mask = mask
      /\ \A o \in Prio \ {c} : r.prio[o] = prio[o]
      /\ Refilled(x) \in PrioRec
      /\ PrioOK(link', Refilled(x), IF a1 = <<>> THEN e1 ELSE a1,
                IF a1 = <<>> THEN <<>> ELSE e1)
      /\ ToSet(a1) \cup ToSet(e1) = ToSet(Act(c)) \cup ToSet(Exp(c))
      /\ \A T \in SUBSET Thread :
           T \cap (ToSet(Act(c)) \cup ToSet(Exp(c))) = {} => Keeps(link, link', T)
      /\ e1 # <<>>
  <2>1. PICK l2 : l2 = link'
    OBVIOUS
  <2>2. l2 = WithoutPrev(r.link, x.active_tail) /\ e1 = Append(Exp(c), t)
    BY <1>0, <1>3, <1>4, <2>1 DEF WithoutPrev
  <2>3. SwitchedTo(c, r, x, l2, a1, e1)
    BY <1>0, <1>1, <1>3, <2>2, SwitchPrio
  <2> QED
    BY <2>1, <2>3 DEF SwitchedTo
<1>6. PICK a2, e2 : /\ a2 = IF a1 = <<>> THEN e1 ELSE a1
                    /\ e2 = IF a1 = <<>> THEN <<>> ELSE e1
  OBVIOUS
<1>7. /\ a2 # <<>> /\ PrioOK(link', Refilled(x), a2, e2)
      /\ ToSet(a2) \cup ToSet(e2) = ToSet(Act(c)) \cup ToSet(Exp(c))
  <2>1. ToSet(<<>>) = {}
    BY DEF ToSet
  <2> QED
    BY <1>5, <1>6, <2>1
<1>8. /\ prio'[c] = Refilled(x) /\ prio' \in [Prio -> PrioRec]
      /\ \A o \in Prio \ {c} : prio'[o] = prio[o]
  BY <1>2, <1>3, <1>4, <1>5
<1> DEFINE A2 == [o \in Prio |-> IF o # c THEN Act(o) ELSE a2]
           E2 == [o \in Prio |-> IF o # c THEN Exp(o) ELSE e2]
<1>9. /\ \A o \in Prio \ {c} : A2[o] = Act(o) /\ E2[o] = Exp(o)
      /\ A2[c] = a2 /\ E2[c] = e2
  BY <1>2
<1> HIDE DEF A2, E2
<1>10. Running' = Running /\ Inactive' = Inactive /\ Attached' = Attached
  BY <1>4 DEF Running, Inactive, Attached
<1>11. ASSUME NEW o \in Prio \ {c}
       PROVE  PrioOK(link', prio'[o], A2[o], E2[o])
  <2>1. PrioOK(link, prio[o], Act(o), Exp(o))
    BY PrioFacts
  <2>2. PICK S : S = ToSet(Act(o)) \cup ToSet(Exp(o))
    OBVIOUS
  <2>3. S \in SUBSET Thread /\ S \cap (ToSet(Act(c)) \cup ToSet(Exp(c))) = {}
    BY <1>2, <2>2, OtherPrio, StateSets
  <2>4. Keeps(link, link', S)
    BY <1>5, <2>3
  <2>5. PrioOK(link', prio[o], Act(o), Exp(o))
    BY <2>1, <2>2, <2>4, KeepPrio
  <2> QED
    BY <1>8, <1>9, <2>5
<1>12. \A o \in Prio : PrioOK(link', prio'[o], A2[o], E2[o])
  BY <1>7, <1>8, <1>9, <1>11
<1>13. \A o \in Prio : o \in mask' <=> A2[o] # <<>>
  <2>1. ASSUME NEW o \in Prio \ {c} PROVE o \in mask' <=> A2[o] # <<>>
    BY <1>4, <1>5, <1>9, PrioFacts
  <2>2. c \in mask' <=> A2[c] # <<>>
    BY <1>2, <1>4, <1>5, <1>7, <1>9
  <2> QED
    BY <2>1, <2>2
<1>14. \A o \in Prio : \A u : u \in ToSet(A2[o]) \cup ToSet(E2[o]) <=>
                              u \in Running' /\ Priority[u] = o
  <2>1. ASSUME NEW o \in Prio
        PROVE  ToSet(A2[o]) \cup ToSet(E2[o]) = ToSet(Act(o)) \cup ToSet(Exp(o))
    BY <1>7, <1>9
  <2> QED
    BY <1>10, <2>1, PrioFacts
<1>15. QueuesOK' /\ \A o \in Prio : Act(o)' = A2[o] /\ Exp(o)' = E2[o]
  BY <1>12, <1>13, <1>14, NewQueues
<1>16. ListOK(link', inactive', Idle', Inactive')
  <2>1. Inactive \in SUBSET Thread /\ Inactive \cap (ToSet(Act(c)) \cup ToSet(Exp(c))) = {}
    BY <1>2, StateSets, PrioFacts
  <2>2. ListOK(link, inactive, Idle, Inactive)
    BY DEF LinkInv
  <2>3. ListOK(link', inactive', Idle, Inactive')
    BY <1>4, <1>5, <1>10, <2>1, <2>2, KeepList
  <2> QED
    BY <2>3, ListOKIs DEF Idle
<1>17. ListOK(all_link', all', Every', Attached')
  BY <1>4, <1>10 DEF LinkInv, Every
<1>18. CpuOK' /\ cpu' \in [total_threads : Nat, current_priority : Prio, load_context : BOOLEAN]
  <2>1. /\ cpu.total_threads = Cardinality(Running) /\ mask \in SUBSET Prio
        /\ cpu \in [total_threads : Nat, current_priority : Prio, load_context : BOOLEAN]
    BY DEF LinkInv, CpuOK, LinkTypes
  <2>2. PICK b \in mask : b = LowestBit(mask)
    BY <1>2, <2>1, LowestBitIs
  <2>3. cpu' = [cpu EXCEPT !.current_priority = b]
    BY <1>4, <2>2
  <2> QED
    BY <1>4, <1>5, <1>10, <2>1, <2>2, <2>3 DEF CpuOK
<1>19. LinkTypes'
  <2>1. /\ quantum' \in [Thread -> 0 .. Quantum] /\ ctx' \in [Thread -> Ptr]
    BY <1>2, <1>3, <1>4, Constants DEF LinkInv, LinkTypes
  <2>2. fs' \in Ptr /\ frame' \in Ptr
    <3>1. PICK y : y = prio'[LowestBit(mask)].active_tail
      OBVIOUS
    <3>2. IF y # Current THEN fs' = y /\ frame' = ctx[y] ELSE fs' = fs /\ frame' = frame
      BY <3>1 DEF TimerSwitch
    <3>3. LowestBit(mask) \in mask /\ mask \in SUBSET Prio
      BY <1>2, LowestBitIs DEF LinkInv, LinkTypes
    <3>4. PICK b \in Prio : b = LowestBit(mask) /\ b \in mask'
      BY <1>4, <1>5, <3>3
    <3>5. A2[b] # <<>> /\ OnList(link', A2[b], y)
      BY <1>12, <1>13, <3>1, <3>4 DEF PrioOK
    <3>6. y \in Thread
      BY <3>5, OnListFacts
    <3> QED
      BY <3>2, <3>6 DEF LinkInv, LinkTypes, Ptr
  <2> QED
    BY <1>4, <1>5, <1>8, <1>18, <2>1, <2>2 DEF LinkInv, LinkTypes
<1>20. \A o \in Prio :
         /\ Act(o)' = IF o # c THEN Act(o) ELSE IF a1 = <<>> THEN e1 ELSE a1
         /\ Exp(o)' = IF o # c THEN Exp(o) ELSE IF a1 = <<>> THEN <<>> ELSE e1
  BY <1>6, <1>9, <1>15
<1> QED
  <2>1. LinkInv' /\ mask' = mask
    BY <1>4, <1>5, <1>15, <1>16, <1>17, <1>18, <1>19 DEF LinkInv
  <2> QED
    BY <1>0, <1>20, <2>1, Zenon

LEMMA LoadStep ==
  ASSUME LinkInv, TimerLoad
  PROVE  LinkInv' /\ \A p \in Prio : Act(p)' = Act(p) /\ Exp(p)' = Exp(p)
<1>1. Current \in Thread
  BY CurrentIs DEF TimerLoad
<1>2. /\ cpu' \in [total_threads : Nat, current_priority : Prio, load_context : BOOLEAN]
      /\ cpu'.total_threads = cpu.total_threads
      /\ cpu'.current_priority = cpu.current_priority
  BY DEF TimerLoad, LinkInv, LinkTypes
<1>3. fs' \in Ptr /\ frame' \in Ptr
  BY <1>1 DEF TimerLoad, LinkInv, LinkTypes, Ptr
<1>4. LinkTypes'
  BY <1>2, <1>3 DEF TimerLoad, LinkInv, LinkTypes
<1>5. Running' = Running /\ Inactive' = Inactive /\ Attached' = Attached
  BY DEF TimerLoad, Running, Inactive, Attached
<1> QED
  BY <1>2, <1>4, <1>5, SameListsStep DEF TimerLoad

LEMMA CountStep ==
  ASSUME LinkInv, TimerCount
  PROVE  LinkInv' /\ \A p \in Prio : Act(p)' = Act(p) /\ Exp(p)' = Exp(p)
<1>1. Current \in Thread
  BY CurrentIs DEF TimerCount
<1>2. PICK c \in Thread : c = Current
  BY <1>1
<1>3. quantum[c] \in 0 .. Quantum /\ quantum[c] > 0 /\ Quantum \in Nat
  BY <1>2, Constants DEF TimerCount, KeepsRunning, LinkInv, LinkTypes
<1>4. quantum' = [quantum EXCEPT ![c] = @ - 1]
  BY <1>2 DEF TimerCount
<1>5. quantum' \in [Thread -> 0 .. Quantum]
  BY <1>3, <1>4 DEF LinkInv, LinkTypes
<1>6. LinkTypes'
  BY <1>5 DEF TimerCount, LinkInv, LinkTypes, lists
<1>7. Running' = Running /\ Inactive' = Inactive /\ Attached' = Attached
  BY DEF TimerCount, Running, Inactive, Attached
<1> QED
  BY <1>6, <1>7, SameListsStep DEF TimerCount, lists

LEMMA ContextStep ==
  ASSUME LinkInv, NEW t \in Thread, SetContext(t)
  PROVE  LinkInv' /\ \A p \in Prio : Act(p)' = Act(p) /\ Exp(p)' = Exp(p)
<1>1. LinkTypes'
  BY DEF SetContext, LinkInv, LinkTypes, lists, Ptr
<1>2. Running' = Running /\ Inactive' = Inactive /\ Attached' = Attached
  BY DEF SetContext, Running, Inactive, Attached
<1> QED
  BY <1>1, <1>2, SameListsStep DEF SetContext, lists

LEMMA StopStep ==
  ASSUME LinkInv, NEW t \in Thread, StopPaused(t)
  PROVE  LinkInv' /\ \A p \in Prio : Act(p)' = Act(p) /\ Exp(p)' = Exp(p)
<1>1. LinkTypes'
  BY DEF StopPaused, LinkInv, LinkTypes, lists
<1>2. Running' = Running /\ Inactive' = Inactive /\ Attached' = Attached
  BY DEF StopPaused, Running, Inactive, Attached, LinkInv, LinkTypes
<1> QED
  BY <1>1, <1>2, SameListsStep DEF StopPaused, lists

LEMMA StutterStep ==
  ASSUME LinkInv, UNCHANGED vars
  PROVE  LinkInv' /\ \A p \in Prio : Act(p)' = Act(p) /\ Exp(p)' = Exp(p)
<1>1. LinkTypes'
  BY DEF vars, LinkInv, LinkTypes
<1>2. Running' = Running /\ Inactive' = Inactive /\ Attached' = Attached
  BY DEF vars, Running, Inactive, Attached
<1> QED
  BY <1>1, <1>2, SameListsStep DEF vars
-----------------------------------------------------------------------------
LEMMA LinkInvStep ==
  ASSUME LinkInv, [Next]_vars
  PROVE  LinkInv'
<1>1. ASSUME NEW t \in Thread, SetContext(t) PROVE LinkInv'
  BY <1>1, ContextStep
<1>2. ASSUME NEW t \in Thread, attach_thread(t) PROVE LinkInv'
  BY <1>2, AttachStep
<1>3. ASSUME NEW t \in Thread, detach_thread(t) PROVE LinkInv'
  BY <1>3, DetachStep
<1>4. ASSUME NEW t \in Thread, resume_thread(t) PROVE LinkInv'
  BY <1>4, ResumeStep
<1>5. ASSUME NEW t \in Thread, NEW to \in {"paused", "stopped"}, deactivate_running(t, to)
      PROVE  LinkInv'
  BY <1>5, DeactivateStep
<1>6. ASSUME NEW t \in Thread, StopPaused(t) PROVE LinkInv'
  BY <1>6, StopStep
<1>7. CASE TimerLoad
  BY <1>7, LoadStep
<1>8. CASE TimerCount
  BY <1>8, CountStep
<1>9. CASE TimerSwitch
  BY <1>9, SwitchStep
<1>10. CASE UNCHANGED vars
  BY <1>10, StutterStep
<1> QED
  BY <1>1, <1>2, <1>3, <1>4, <1>5, <1>6, <1>7, <1>8, <1>9, <1>10 DEF Next, Timer

LEMMA WellLinkedIs ==
  ASSUME NEW l, NEW s, NEW h, OnList(l, s, h)
  PROVE  WellLinked(l, h) /\ Elements(l, h) = ToSet(s) /\ Chain(l.next, h) = s
<1>1. /\ s \in Seq(Thread) /\ Len(s) \in Nat /\ Len(s) <= Cardinality(Thread)
      /\ DOMAIN s = 1 .. Len(s)
  BY Constants, DistinctIsShort DEF OnList, Linked
<1>2. Chain(l.next, h) = s
  BY ChainIs
<1>3. \A i \in 1 .. Len(s) : l.prev[s[i]] = NodeAt(s, NULL, i - 1)
  BY DEF OnList, Linked
<1>4. \A i \in 1 .. Len(s) : l.prev[s[i]] = IF i = 1 THEN NULL ELSE s[i - 1]
  BY <1>1, <1>3 DEF NodeAt
<1>5. Elements(l, h) = ToSet(s)
  BY <1>1, <1>2 DEF Elements, ToSet
<1> QED
  BY <1>1, <1>2, <1>4, <1>5 DEF WellLinked

LEMMA LinkInvIsEnough ==
  ASSUME LinkInv
  PROVE  ListsAreLinked
<1>1. /\ OnList(link, Idle, inactive.tail) /\ ToSet(Idle) = Inactive
      /\ inactive.total_threads = Len(Idle)
      /\ OnList(all_link, Every, all.tail) /\ ToSet(Every) = Attached
      /\ all.total_threads = Len(Every)
  BY DEF LinkInv, ListOK
<1>2. /\ WellLinked(link, inactive.tail) /\ Elements(link, inactive.tail) = Inactive
      /\ inactive.total_threads = Len(Chain(link.next, inactive.tail))
  BY <1>1, WellLinkedIs
<1>3. /\ WellLinked(all_link, all.tail) /\ Elements(all_link, all.tail) = Attached
      /\ all.total_threads = Len(Chain(all_link.next, all.tail))
  BY <1>1, WellLinkedIs
<1>4. ASSUME NEW p \in Prio
      PROVE  /\ WellLinked(link, prio[p].active_tail)
             /\ WellLinked(link, prio[p].expired_tail)
             /\ prio[p].expired_head = IF Exp(p) = <<>> THEN NULL ELSE Exp(p)[Len(Exp(p))]
             /\ prio[p].total_threads = Len(Act(p)) + Len(Exp(p))
             /\ p \in mask <=> prio[p].total_threads > 0
  <2>1. PrioOK(link, prio[p], Act(p), Exp(p))
    BY PrioFacts
  <2>2. /\ OnList(link, Act(p), prio[p].active_tail)
        /\ OnList(link, Exp(p), prio[p].expired_tail)
        /\ prio[p].expired_head = NodeAt(Exp(p), NULL, Len(Exp(p)))
        /\ prio[p].total_threads = Len(Act(p)) + Len(Exp(p))
    BY <2>1 DEF PrioOK
  <2>3. WellLinked(link, prio[p].active_tail) /\ WellLinked(link, prio[p].expired_tail)
    BY <2>2, WellLinkedIs
  <2>4. PICK e : e = Exp(p)
    OBVIOUS
  <2>5. e \in Seq(Thread) /\ Len(e) \in Nat
    BY <2>4, PrioFacts
  <2>6. NodeAt(e, NULL, Len(e)) = IF e = <<>> THEN NULL ELSE e[Len(e)]
    BY <2>5 DEF NodeAt
  <2>7. /\ p \in mask <=> prio[p].total_threads # 0
        /\ prio[p].total_threads \in Nat
    BY PrioFacts DEF PrioRec
  <2>8. p \in mask <=> prio[p].total_threads > 0
    BY <2>7
  <2> QED
    BY <2>2, <2>3, <2>4, <2>6, <2>8
<1>5. cpu.total_threads = Cardinality({t \in Thread : state[t] = "running"})
  BY DEF LinkInv, CpuOK, Running
<1>6. /\ Elements(link, inactive.tail) = {t \in Thread : state[t] \in {"paused", "stopped"}}
      /\ Elements(all_link, all.tail) = {t \in Thread : state[t] # "detached"}
  BY <1>2, <1>3 DEF Inactive, Attached
<1> QED
  BY <1>2, <1>3, <1>4, <1>5, <1>6, Zenon DEF ListsAreLinked, Act, Exp

(* The lists of schedule.c stay linked, in both directions and without a   *)
(* cycle, and the tails, the head, the counters and the mask that are kept *)
(* beside them agree with them, whatever sequence of attachments,          *)
(* resumptions, pauses, stops, detachments and timer interrupts.           *)
THEOREM ListsStayLinked == Spec => []ListsAreLinked
<1>1. Init => LinkInv
  BY LinkInit
<1>2. LinkInv /\ [Next]_vars => LinkInv'
  BY LinkInvStep
<1>3. LinkInv => ListsAreLinked
  BY LinkInvIsEnough
<1> QED
  BY <1>1, <1>2, <1>3, PTL DEF Spec
-----------------------------------------------------------------------------
(* The queue and the quanta that CpuQueue sees *)
AbsQueue ==
  [active |-> [p \in Prio |-> Act(p)], expired |-> [p \in Prio |-> Exp(p)],
   current |-> cpu.current_priority, load |-> cpu.load_context]

AbsQuantum == [t \in Thread |-> IF state[t] = "running" THEN quantum[t] ELSE 0]

LEMMA AbsQueueIs ==
  ASSUME NEW k, k = AbsQueue
  PROVE  /\ k = [active |-> k.active, expired |-> k.expired,
                 current |-> k.current, load |-> k.load]
         /\ k.active = [p \in Prio |-> Act(p)] /\ k.expired = [p \in Prio |-> Exp(p)]
         /\ k.current = cpu.current_priority /\ k.load = cpu.load_context
         /\ \A p \in Prio : k.active[p] = Act(p) /\ k.expired[p] = Exp(p)
  BY DEF AbsQueue

LEMMA NewQueueIs ==
  ASSUME NEW k2, NEW a, NEW e, NEW c, NEW l,
         k2 = [active |-> a, expired |-> e, current |-> c, load |-> l],
         a = [p \in Prio |-> a[p]], e = [p \in Prio |-> e[p]],
         \A p \in Prio : Act(p)' = a[p] /\ Exp(p)' = e[p],
         c = cpu'.current_priority, l = cpu'.load_context
  PROVE  AbsQueue' = k2
<1>1. [p \in Prio |-> Act(p)'] = a /\ [p \in Prio |-> Exp(p)'] = e
  OBVIOUS
<1> QED
  BY <1>1 DEF AbsQueue

LEMMA AbsFacts ==
  ASSUME LinkInv, NEW k, k = AbsQueue
  PROVE  /\ Abstract!Mask(k) = mask
         /\ Abstract!IsIdle(k) <=> cpu.total_threads = 0
         /\ \A t \in Thread : Abstract!IsCurrent(k, t) <=> Current = t
         /\ cpu.total_threads > 0 => Abstract!Current(k) = Current
         /\ Abstract!Highest(k) = LowestBit(mask)
<1>1. /\ \A p \in Prio : k.active[p] = Act(p) /\ k.expired[p] = Exp(p)
      /\ k.current = cpu.current_priority
  BY AbsQueueIs
<1>2. Abstract!Prio = Prio
  BY DEF Abstract!Prio, Prio
<1>3. \A p \in Prio : p \in mask <=> (k.active[p] # <<>> \/ k.expired[p] # <<>>)
  BY <1>1, PrioFacts
<1>4. mask \in SUBSET Prio /\ cpu.current_priority \in Prio
  BY DEF LinkInv, LinkTypes
<1>5. Abstract!Mask(k) = mask
  BY <1>2, <1>3, <1>4 DEF Abstract!Mask
<1>6. mask = {} <=> cpu.total_threads = 0
  <2>1. cpu.total_threads = Cardinality(Running) /\ IsFiniteSet(Running)
        /\ (cpu.total_threads > 0 => cpu.current_priority \in mask)
        /\ cpu.total_threads \in Nat
    BY StateSets DEF LinkInv, CpuOK, LinkTypes
  <2>2. ASSUME cpu.total_threads = 0, NEW p \in mask PROVE FALSE
    <3>1. Running = {}
      BY <2>1, <2>2, FS_EmptySet
    <3>2. p \in Prio /\ Act(p) # <<>> /\ Act(p) \in Seq(Thread) /\ ToSet(Act(p)) \subseteq Running
      BY <1>4, <2>2, PrioFacts
    <3> QED
      BY <3>1, <3>2, ToSetFacts
  <2> QED
    BY <2>1, <2>2
<1>7. Abstract!IsIdle(k) <=> cpu.total_threads = 0
  BY <1>5, <1>6 DEF Abstract!IsIdle
<1>8. \A t \in Thread : Abstract!IsCurrent(k, t) <=> Current = t
  <2>1. PICK c \in Prio : c = cpu.current_priority
    BY <1>4
  <2>2. Current = prio[c].active_tail /\ k.active[k.current] = Act(c)
    BY <1>1, <2>1 DEF Current
  <2>3. /\ Current = NULL <=> Act(c) = <<>>
        /\ Current # NULL => Current = Head(Act(c))
    BY <2>2, PrioFacts
  <2> QED
    BY <2>2, <2>3, Constants DEF Abstract!IsCurrent, Abstract!Current
<1>9. cpu.total_threads > 0 => Abstract!Current(k) = Current
  BY <1>1, <1>4, CurrentIs DEF Abstract!Current
<1>10. Abstract!Highest(k) = LowestBit(mask)
  BY <1>5 DEF Abstract!Highest, LowestBit
<1> QED
  BY <1>5, <1>7, <1>8, <1>9, <1>10

LEMMA SameCardinality ==
  ASSUME NEW S
  PROVE  Abstract!Cardinality(S) = Cardinality(S)
  BY DEF Abstract!Cardinality, Cardinality, Abstract!IsFiniteSet, IsFiniteSet

(* How often a thread is in a list without repetitions *)
LEMMA OccurrencesFacts ==
  ASSUME NEW s \in Seq(Thread), NEW t, Distinct(s)
  PROVE  Abstract!Occurrences(t, s) = IF t \in ToSet(s) THEN 1 ELSE 0
<1> DEFINE I == {n \in DOMAIN s : s[n] = t}
<1>1. CASE t \in ToSet(s)
  <2>1. PICK n \in DOMAIN s : s[n] = t
    BY <1>1 DEF ToSet
  <2>2. I = {n}
    BY <2>1 DEF Distinct
  <2>3. Cardinality({n}) = 1
    BY FS_Singleton
  <2> QED
    BY <1>1, <2>2, <2>3, SameCardinality DEF Abstract!Occurrences
<1>2. CASE t \notin ToSet(s)
  <2>1. I = {}
    BY <1>2 DEF ToSet
  <2>2. Cardinality({}) = 0
    BY FS_EmptySet
  <2> QED
    BY <1>2, <2>1, <2>2, SameCardinality DEF Abstract!Occurrences
<1> QED
  BY <1>1, <1>2

(* QueueIsExact: what is linked to the lists of a CPU are the threads in   *)
(* THREAD_STATE_RUNNING, each once and under its own priority.             *)
THEOREM ListsHoldTheRunnable == Spec => []QueueIsExact
<1>1. LinkInv => QueueIsExact
  <2> SUFFICES ASSUME LinkInv PROVE QueueIsExact
    OBVIOUS
  <2>1. ASSUME NEW t \in Thread, NEW p \in Prio
        PROVE  Abstract!Occurrences(t, Act(p)) + Abstract!Occurrences(t, Exp(p))
                 = IF state[t] = "running" /\ Priority[t] = p THEN 1 ELSE 0
    <3>1. /\ OnList(link, Act(p), prio[p].active_tail)
          /\ OnList(link, Exp(p), prio[p].expired_tail)
          /\ ToSet(Act(p)) \cap ToSet(Exp(p)) = {}
          /\ t \in ToSet(Act(p)) \cup ToSet(Exp(p)) <=> t \in Running /\ Priority[t] = p
      BY <2>1 DEF LinkInv, QueuesOK, PrioOK
    <3>2. /\ Act(p) \in Seq(Thread) /\ Distinct(Act(p))
          /\ Exp(p) \in Seq(Thread) /\ Distinct(Exp(p))
      BY <3>1, OnListFacts
    <3>3. /\ Abstract!Occurrences(t, Act(p)) = IF t \in ToSet(Act(p)) THEN 1 ELSE 0
          /\ Abstract!Occurrences(t, Exp(p)) = IF t \in ToSet(Exp(p)) THEN 1 ELSE 0
      BY <3>2, OccurrencesFacts
    <3> QED
      BY <3>1, <3>3 DEF Running
  <2>2. Abstract!Prio = Prio
    BY DEF Abstract!Prio, Prio
  <2>3. \A p \in Prio : AbsQueue.active[p] = Act(p) /\ AbsQueue.expired[p] = Exp(p)
    BY AbsQueueIs
  <2>4. \A t \in Thread, p \in Prio :
          Abstract!Occurrences(t, AbsQueue.active[p])
            + Abstract!Occurrences(t, AbsQueue.expired[p])
              = IF state[t] = "running" /\ Priority[t] = p THEN 1 ELSE 0
    BY <2>1, <2>3
  <2> QED
    BY <2>2, <2>4, Zenon DEF QueueIsExact, Abstract!QueueIsExact, AbsQueue, Act, Exp
<1> QED
  BY LinkInit, LinkInvStep, <1>1, PTL DEF Spec

(* NextThreadExists: the timer handler finds a thread linked wherever it   *)
(* dereferences active_tail without a test.                                *)
THEOREM TailIsAThread == Spec => []NextThreadExists
<1>1. LinkInv => NextThreadExists
  <2> SUFFICES ASSUME LinkInv PROVE NextThreadExists
    OBVIOUS
  <2>1. PICK k : k = AbsQueue
    OBVIOUS
  <2>2. /\ Abstract!Mask(k) = mask
        /\ Abstract!IsIdle(k) <=> cpu.total_threads = 0
    BY <2>1, AbsFacts
  <2>3. /\ \A p \in mask : k.active[p] # <<>>
        /\ cpu.total_threads # 0 => k.current \in mask
    <3>1. mask \in SUBSET Prio /\ cpu.total_threads \in Nat
      BY DEF LinkInv, LinkTypes
    <3>2. \A p \in Prio : k.active[p] = Act(p)
      BY <2>1, AbsQueueIs
    <3>3. k.current = cpu.current_priority
      BY <2>1, AbsQueueIs
    <3>4. \A p \in Prio : p \in mask => Act(p) # <<>>
      BY PrioFacts
    <3> QED
      BY <3>1, <3>2, <3>3, <3>4 DEF LinkInv, CpuOK
  <2>4. /\ \A p \in Abstract!Mask(AbsQueue) : AbsQueue.active[p] # <<>>
        /\ ~Abstract!IsIdle(AbsQueue) => AbsQueue.current \in Abstract!Mask(AbsQueue)
    BY <2>1, <2>2, <2>3
  <2> QED
    BY <2>4, Zenon DEF NextThreadExists, Abstract!NextThreadExists, AbsQueue, Act, Exp
<1> QED
  BY LinkInit, LinkInvStep, <1>1, PTL DEF Spec

(* CpuQueue's queue stays as it is when the lists and the CPU do. *)
LEMMA SameQueue ==
  ASSUME LinkInv, \A p \in Prio : Act(p)' = Act(p) /\ Exp(p)' = Exp(p), cpu' = cpu
  PROVE  AbsQueue' = AbsQueue
  BY DEF AbsQueue
-----------------------------------------------------------------------------
(* Every action is the action of CpuQueue with the same meaning. *)
LEMMA ContextRefines ==
  ASSUME LinkInv, NEW t \in Thread, SetContext(t)
  PROVE  Abstract!SetContext(t)
<1>1. AbsQueue' = AbsQueue
  BY ContextStep, SameQueue DEF SetContext, lists
<1>2. AbsQuantum' = AbsQuantum
  BY DEF AbsQuantum, SetContext
<1> QED
  BY <1>1, <1>2 DEF Abstract!SetContext, AbsQueue, AbsQuantum, Act, Exp, SetContext

LEMMA AttachRefines ==
  ASSUME LinkInv, NEW t \in Thread, attach_thread(t)
  PROVE  Abstract!Attach(t)
<1>1. AbsQueue' = AbsQueue
  BY AttachStep, SameQueue DEF attach_thread
<1>2. AbsQuantum' = AbsQuantum
  BY DEF AbsQuantum, attach_thread, LinkInv, LinkTypes
<1> QED
  BY <1>1, <1>2 DEF Abstract!Attach, AbsQueue, AbsQuantum, Act, Exp, attach_thread

LEMMA DetachRefines ==
  ASSUME LinkInv, NEW t \in Thread, detach_thread(t)
  PROVE  Abstract!Detach(t)
<1>1. AbsQueue' = AbsQueue
  BY DetachStep, SameQueue DEF detach_thread
<1>2. AbsQuantum' = AbsQuantum
  BY DEF AbsQuantum, detach_thread, LinkInv, LinkTypes
<1> QED
  BY <1>1, <1>2 DEF Abstract!Detach, AbsQueue, AbsQuantum, Act, Exp, detach_thread

LEMMA StopRefines ==
  ASSUME LinkInv, NEW t \in Thread, StopPaused(t)
  PROVE  Abstract!StopPaused(t)
<1>1. AbsQueue' = AbsQueue
  BY StopStep, SameQueue DEF StopPaused, lists
<1>2. AbsQuantum' = AbsQuantum
  BY DEF AbsQuantum, StopPaused, LinkInv, LinkTypes
<1> QED
  BY <1>1, <1>2 DEF Abstract!StopPaused, AbsQueue, AbsQuantum, Act, Exp, StopPaused

LEMMA ResumeRefines ==
  ASSUME LinkInv, NEW t \in Thread, resume_thread(t)
  PROVE  Abstract!Resume(t)
<1>1. PICK k, p : k = AbsQueue /\ p = Priority[t]
  OBVIOUS
<1>2. /\ \A o \in Prio :
           /\ Act(o)' = IF o = p /\ p \notin mask THEN <<t>> ELSE Act(o)
           /\ Exp(o)' = IF o = p /\ p \in mask THEN Append(Exp(o), t) ELSE Exp(o)
      /\ p \in Prio
  BY <1>1, ResumeStep, Constants
<1>3. /\ k = [active |-> k.active, expired |-> k.expired,
              current |-> k.current, load |-> k.load]
      /\ k.active = [o \in Prio |-> Act(o)] /\ k.expired = [o \in Prio |-> Exp(o)]
      /\ k.current = cpu.current_priority /\ k.load = cpu.load_context
  BY <1>1, AbsQueueIs
<1>4. Abstract!Mask(k) = mask /\ (Abstract!IsIdle(k) <=> cpu.total_threads = 0)
  BY <1>1, AbsFacts
<1>5. PICK a, e : /\ a = IF p \in mask THEN k.active ELSE [k.active EXCEPT ![p] = <<t>>]
                  /\ e = IF p \in mask THEN [k.expired EXCEPT ![p] = Append(@, t)] ELSE k.expired
  OBVIOUS
<1>6. /\ a = [o \in Prio |-> a[o]] /\ e = [o \in Prio |-> e[o]]
      /\ \A o \in Prio : Act(o)' = a[o] /\ Exp(o)' = e[o]
  BY <1>2, <1>3, <1>5
<1>7. PICK k1 : k1 = Abstract!AddExpired(k, t)
  OBVIOUS
<1>8. k1 = [active |-> a, expired |-> e, current |-> k.current, load |-> k.load]
  BY <1>1, <1>3, <1>4, <1>5, <1>7 DEF Abstract!AddExpired
<1>9. AbsQueue' = Abstract!Resumed(k, t)
  <2>1. cpu \in [total_threads : Nat, current_priority : Prio, load_context : BOOLEAN]
    BY DEF LinkInv, LinkTypes
  <2>2. CASE cpu.total_threads = 0
    <3>1. PICK b, k2 : b = TRUE /\ k2 = [k1 EXCEPT !.current = p]
      OBVIOUS
    <3>2. k2 = [active |-> a, expired |-> e, current |-> p, load |-> k.load]
      BY <1>8, <3>1
    <3>3. [k2 EXCEPT !.load = b] = [active |-> a, expired |-> e, current |-> p, load |-> b]
      BY <3>2
    <3>4. Abstract!Resumed(k, t) = [k2 EXCEPT !.load = b]
      BY <1>1, <1>4, <1>7, <2>2, <3>1, Zenon DEF Abstract!Resumed
    <3>5. cpu'.current_priority = p /\ cpu'.load_context = b
      BY <1>1, <2>2, <3>1 DEF resume_thread
    <3> QED
      BY <1>6, <3>3, <3>4, <3>5, NewQueueIs
  <2>3. CASE cpu.total_threads # 0
    <3>1. Abstract!Resumed(k, t) = k1
      BY <1>4, <1>7, <2>3 DEF Abstract!Resumed
    <3>2. cpu'.current_priority = k.current /\ cpu'.load_context = k.load
      BY <1>3, <2>1, <2>3 DEF resume_thread
    <3> QED
      BY <1>6, <1>8, <3>1, <3>2, NewQueueIs
  <2> QED
    BY <2>2, <2>3
<1>10. AbsQuantum' = [AbsQuantum EXCEPT ![t] = Quantum]
  BY DEF AbsQuantum, resume_thread, LinkInv, LinkTypes
<1>11. AbsQueue' = Abstract!Resumed(AbsQueue, t)
  BY <1>1, <1>9
<1> QED
  BY <1>10, <1>11, Zenon DEF Abstract!Resume, AbsQueue, AbsQuantum, Act, Exp, resume_thread

LEMMA MaskOf ==
  ASSUME NEW k, NEW m \in SUBSET Prio,
         \A p \in Prio : p \in m <=> k.active[p] # <<>>,
         \A p \in Prio : k.active[p] = <<>> => k.expired[p] = <<>>
  PROVE  /\ Abstract!Mask(k) = m /\ Abstract!Highest(k) = LowestBit(m)
         /\ Abstract!IsIdle(k) <=> m = {}
<1>1. Abstract!Prio = Prio
  BY DEF Abstract!Prio, Prio
<1>2. Abstract!Mask(k) = m
  BY <1>1 DEF Abstract!Mask
<1>3. Abstract!Highest(k) = LowestBit(m)
  BY <1>2 DEF Abstract!Highest, LowestBit
<1> QED
  BY <1>2, <1>3 DEF Abstract!IsIdle

LEMMA SameRemoveFirst ==
  ASSUME NEW s, NEW t
  PROVE  Abstract!RemoveFirst(s, t) = RemoveFirst(s, t)
  BY DEF Abstract!RemoveFirst, RemoveFirst, Abstract!RemoveAt, RemoveAt,
         Abstract!SelectInSeq, SelectInSeq, Abstract!Min, Min

(* Unlink of RunQueue, on the lists *)
LEMMA AbsUnlinkIs ==
  ASSUME NEW k, k = AbsQueue, NEW t \in Thread, NEW p \in Prio, p = Priority[t],
         NEW a1, a1 = RemoveFirst(Act(p), t), NEW e1, e1 = RemoveFirst(Exp(p), t),
         NEW a2, a2 = (IF a1 = <<>> THEN e1 ELSE a1),
         NEW e2, e2 = (IF a1 = <<>> THEN <<>> ELSE e1)
  PROVE  Abstract!Unlink(k, t) =
           [active |-> [k.active EXCEPT ![p] = a2], expired |-> [k.expired EXCEPT ![p] = e2],
            current |-> k.current, load |-> k.load]
<1>1. /\ k = [active |-> k.active, expired |-> k.expired,
              current |-> k.current, load |-> k.load]
      /\ k.active = [o \in Prio |-> Act(o)] /\ k.expired = [o \in Prio |-> Exp(o)]
      /\ k.active[p] = Act(p) /\ k.expired[p] = Exp(p)
  BY AbsQueueIs
<1>2. PICK ka, ke, c, l : ka = k.active /\ ke = k.expired /\ c = k.current /\ l = k.load
  OBVIOUS
<1>3. PICK A, E : A = [ka EXCEPT ![p] = a1] /\ E = [ke EXCEPT ![p] = e1]
  OBVIOUS
<1>4. /\ DOMAIN ka = Prio /\ DOMAIN ke = Prio /\ DOMAIN A = Prio /\ DOMAIN E = Prio
      /\ A[p] = a1 /\ E[p] = e1 /\ ka[p] = Act(p) /\ ke[p] = Exp(p)
      /\ A = [o \in Prio |-> A[o]] /\ E = [o \in Prio |-> E[o]]
  BY <1>1, <1>2, <1>3
<1>5. PICK k1 : k1 = [k EXCEPT !.active[p] = a1]
  OBVIOUS
<1>6. k1 = [active |-> A, expired |-> ke, current |-> c, load |-> l]
  BY <1>1, <1>2, <1>3, <1>5
<1>7. PICK k2 : k2 = [k1 EXCEPT !.expired[p] = e1]
  OBVIOUS
<1>8. k2 = [active |-> A, expired |-> E, current |-> c, load |-> l]
  BY <1>3, <1>6, <1>7
<1>9. Abstract!Unlink(k, t) = Abstract!Refill(k2, p)
  <2>1. /\ a1 = Abstract!RemoveFirst(k.active[p], t)
        /\ e1 = Abstract!RemoveFirst(k.expired[p], t)
    BY <1>1, SameRemoveFirst
  <2>2. k1.expired[p] = k.expired[p]
    BY <1>2, <1>6
  <2>3. [[k EXCEPT !.active[p] = Abstract!RemoveFirst(k.active[p], t)]
            EXCEPT !.expired[p] = Abstract!RemoveFirst(k.expired[p], t)] = k2
    BY <1>5, <1>7, <2>1, Zenon
  <2>4. [k EXCEPT !.active[p] = Abstract!RemoveFirst(@, t),
                  !.expired[p] = Abstract!RemoveFirst(@, t)] = k2
    BY <2>2, <2>3, <1>5, <2>1
  <2> QED
    BY <2>4, Zenon DEF Abstract!Unlink
<1>10. CASE a1 # <<>>
  <2>1. Abstract!Refill(k2, p) = k2
    BY <1>4, <1>8, <1>10 DEF Abstract!Refill
  <2> QED
    BY <1>2, <1>3, <1>8, <1>9, <1>10, <2>1
<1>11. CASE a1 = <<>>
  <2>1. Abstract!Refill(k2, p) = [k2 EXCEPT !.active[p] = k2.expired[p], !.expired[p] = <<>>]
    BY <1>4, <1>8, <1>11 DEF Abstract!Refill
  <2>2. k2.expired[p] = e1
    BY <1>4, <1>8
  <2>3. PICK k3 : k3 = [k2 EXCEPT !.active[p] = e1]
    OBVIOUS
  <2>4. k3 = [active |-> [A EXCEPT ![p] = e1], expired |-> E, current |-> c, load |-> l]
    BY <1>8, <2>3
  <2>5. [A EXCEPT ![p] = e1] = [ka EXCEPT ![p] = e1]
    BY <1>3, <1>4
  <2>6. [E EXCEPT ![p] = <<>>] = [ke EXCEPT ![p] = <<>>]
    BY <1>3, <1>4
  <2>7. [k3 EXCEPT !.expired[p] = <<>>] =
          [active |-> [ka EXCEPT ![p] = e1], expired |-> [ke EXCEPT ![p] = <<>>],
           current |-> c, load |-> l]
    <3>1. PICK A3, E3, none : /\ A3 = [ka EXCEPT ![p] = e1] /\ none = <<>>
                              /\ E3 = [ke EXCEPT ![p] = none]
      OBVIOUS
    <3>2. k3 = [active |-> A3, expired |-> E, current |-> c, load |-> l]
      BY <2>4, <2>5, <3>1
    <3>3. [E EXCEPT ![p] = none] = E3
      BY <2>6, <3>1
    <3>4. [k3 EXCEPT !.expired[p] = none] =
            [active |-> A3, expired |-> E3, current |-> c, load |-> l]
      BY <3>2, <3>3
    <3> QED
      BY <3>1, <3>4
  <2>8. Abstract!Refill(k2, p) = [k3 EXCEPT !.expired[p] = <<>>]
    BY <2>1, <2>2, <2>3
  <2> QED
    BY <1>2, <1>9, <1>11, <2>7, <2>8
<1> QED
  BY <1>10, <1>11

LEMMA DeactivateRefines ==
  ASSUME LinkInv, NEW t \in Thread, NEW to \in {"paused", "stopped"},
         deactivate_running(t, to)
  PROVE  Abstract!Deactivate(t, to)
<1>1. PICK k, p, a1, e1 : /\ k = AbsQueue /\ p = Priority[t]
                          /\ a1 = RemoveFirst(Act(p), t) /\ e1 = RemoveFirst(Exp(p), t)
  OBVIOUS
<1>2. PICK a2, e2 : /\ a2 = (IF a1 = <<>> THEN e1 ELSE a1)
                    /\ e2 = (IF a1 = <<>> THEN <<>> ELSE e1)
  OBVIOUS
<1>3. /\ LinkInv' /\ p \in Prio
      /\ \A o \in Prio : /\ Act(o)' = IF o # p THEN Act(o) ELSE a2
                         /\ Exp(o)' = IF o # p THEN Exp(o) ELSE e2
      /\ cpu.total_threads > 1 => mask' # {}
  BY <1>1, <1>2, DeactivateStep
<1>4. /\ k.active = [o \in Prio |-> Act(o)] /\ k.expired = [o \in Prio |-> Exp(o)]
      /\ k.current = cpu.current_priority /\ k.load = cpu.load_context
  BY <1>1, AbsQueueIs
<1>5. PICK A, E : A = [k.active EXCEPT ![p] = a2] /\ E = [k.expired EXCEPT ![p] = e2]
  OBVIOUS
<1>6. /\ A = [o \in Prio |-> A[o]] /\ E = [o \in Prio |-> E[o]]
      /\ \A o \in Prio : Act(o)' = A[o] /\ Exp(o)' = E[o]
  BY <1>3, <1>4, <1>5
<1>7. PICK u : u = Abstract!Unlink(k, t)
  OBVIOUS
<1>8. u = [active |-> A, expired |-> E, current |-> k.current, load |-> k.load]
  BY <1>1, <1>2, <1>3, <1>5, <1>7, AbsUnlinkIs
<1>9. /\ Abstract!Highest(u) = LowestBit(mask')
      /\ Abstract!IsIdle(u) <=> mask' = {}
  <2>1. u.active = A /\ u.expired = E
    BY <1>8
  <2>2. mask' \in SUBSET Prio
    BY <1>3 DEF LinkInv, LinkTypes
  <2>3. \A o \in Prio : /\ o \in mask' <=> Act(o)' # <<>>
                        /\ Act(o)' = <<>> => Exp(o)' = <<>>
    BY <1>3 DEF LinkInv, QueuesOK, PrioOK
  <2>4. /\ \A o \in Prio : o \in mask' <=> u.active[o] # <<>>
        /\ \A o \in Prio : u.active[o] = <<>> => u.expired[o] = <<>>
    BY <1>6, <2>1, <2>3
  <2> QED
    BY <2>2, <2>4, MaskOf
<1>10. cpu.total_threads > 1 <=> mask' # {}
  <2>1. /\ cpu.total_threads \in Nat /\ cpu'.total_threads \in Nat
        /\ cpu'.total_threads = Cardinality(Running')
        /\ mask' \in SUBSET Prio
    BY <1>3 DEF LinkInv, CpuOK, LinkTypes
  <2>2. cpu'.total_threads = cpu.total_threads - 1
    BY DEF deactivate_running, LinkInv, LinkTypes
  <2>3. IsFiniteSet(Running')
    <3>1. Running' \subseteq Thread
      BY DEF Running
    <3> QED
      BY <3>1, Constants, FS_Subset
  <2>4. ASSUME NEW o \in mask' PROVE Running' # {}
    <3>1. /\ o \in Prio /\ A[o] # <<>> /\ OnList(link', A[o], prio'[o].active_tail)
          /\ \A x : x \in ToSet(A[o]) => x \in Running'
      BY <1>3, <1>6, <2>1, <2>4 DEF LinkInv, QueuesOK, PrioOK
    <3>2. prio'[o].active_tail \in ToSet(A[o])
      BY <3>1, OnListFacts
    <3> QED
      BY <3>1, <3>2
  <2>5. ASSUME mask' # {} PROVE cpu.total_threads > 1
    <3>1. cpu'.total_threads # 0
      BY <2>1, <2>3, <2>4, <2>5, FS_EmptySet
    <3> QED
      BY <2>1, <2>2, <3>1
  <2> QED
    BY <1>3, <2>5
<1>11. Abstract!IsCurrent(k, t) <=> Current = t
  BY <1>1, AbsFacts
<1>12. AbsQueue' = Abstract!Paused(k, t)
  <2>1. cpu' = IF Current = t /\ cpu.total_threads > 1
               THEN [total_threads |-> cpu.total_threads - 1,
                     current_priority |-> LowestBit(mask'), load_context |-> TRUE]
               ELSE [cpu EXCEPT !.total_threads = @ - 1]
    BY DEF deactivate_running
  <2>2. CASE Current = t /\ cpu.total_threads > 1
    <3>1. PICK b, h, u2 : b = TRUE /\ h = LowestBit(mask') /\ u2 = [u EXCEPT !.current = h]
      OBVIOUS
    <3>2. u2 = [active |-> A, expired |-> E, current |-> h, load |-> k.load]
      BY <1>8, <3>1
    <3>3. [u2 EXCEPT !.load = b] = [active |-> A, expired |-> E, current |-> h, load |-> b]
      BY <3>2
    <3>4. Abstract!Paused(k, t) = [u2 EXCEPT !.load = b]
      BY <1>7, <1>9, <1>10, <1>11, <2>2, <3>1, Zenon DEF Abstract!Paused
    <3>5. cpu'.current_priority = h /\ cpu'.load_context = b
      BY <2>1, <2>2, <3>1
    <3> QED
      BY <1>6, <3>3, <3>4, <3>5, NewQueueIs
  <2>3. CASE ~(Current = t /\ cpu.total_threads > 1)
    <3>1. Abstract!Paused(k, t) = u
      BY <1>7, <1>9, <1>10, <1>11, <2>3 DEF Abstract!Paused
    <3>2. cpu'.current_priority = k.current /\ cpu'.load_context = k.load
      BY <1>4, <2>1, <2>3 DEF LinkInv, LinkTypes
    <3> QED
      BY <1>6, <1>8, <3>1, <3>2, NewQueueIs
  <2> QED
    BY <2>2, <2>3
<1>13. AbsQuantum' = [AbsQuantum EXCEPT ![t] = 0]
  BY DEF AbsQuantum, deactivate_running, LinkInv, LinkTypes
<1>14. AbsQueue' = Abstract!Paused(AbsQueue, t)
  BY <1>1, <1>12
<1>15. /\ state[t] = "running" /\ state' = [state EXCEPT ![t] = to]
       /\ IF Abstract!IsCurrent(AbsQueue, t)
          THEN fs' = NULL /\ ctx' = [ctx EXCEPT ![t] = frame] /\ frame' = NULL
          ELSE UNCHANGED <<fs, ctx, frame>>
  BY <1>1, <1>11 DEF deactivate_running
<1> QED
  BY <1>13, <1>14, <1>15, Zenon DEF Abstract!Deactivate, AbsQueue, AbsQuantum, Act, Exp

LEMMA LoadRefines ==
  ASSUME LinkInv, TimerLoad
  PROVE  Abstract!TickLoad
<1>1. PICK k : k = AbsQueue
  OBVIOUS
<1>2. cpu.total_threads > 0 /\ cpu.load_context /\ cpu' = [cpu EXCEPT !.load_context = FALSE]
  BY DEF TimerLoad
<1>3. /\ k = [active |-> k.active, expired |-> k.expired,
              current |-> k.current, load |-> k.load]
      /\ k.active = [o \in Prio |-> Act(o)] /\ k.expired = [o \in Prio |-> Exp(o)]
      /\ k.current = cpu.current_priority /\ k.load = cpu.load_context
  BY <1>1, AbsQueueIs
<1>4. Abstract!Current(k) = Current /\ ~Abstract!IsIdle(k)
  BY <1>1, <1>2, AbsFacts
<1>5. AbsQueue' = [k EXCEPT !.load = FALSE]
  <2>1. PICK b : b = FALSE
    OBVIOUS
  <2>2. [k EXCEPT !.load = b] = [active |-> k.active, expired |-> k.expired,
                                 current |-> k.current, load |-> b]
    BY <1>3
  <2>3. \A o \in Prio : Act(o)' = k.active[o] /\ Exp(o)' = k.expired[o]
    BY <1>3, LoadStep
  <2>4. k.current = cpu'.current_priority /\ b = cpu'.load_context
    BY <1>2, <1>3, <2>1 DEF LinkInv, LinkTypes
  <2>5. /\ k.active = [o \in Prio |-> k.active[o]]
        /\ k.expired = [o \in Prio |-> k.expired[o]]
    BY <1>3
  <2>6. AbsQueue' = [k EXCEPT !.load = b]
    BY <2>2, <2>3, <2>4, <2>5, NewQueueIs
  <2> QED
    BY <2>1, <2>6
<1>6. AbsQuantum' = AbsQuantum
  BY DEF AbsQuantum, TimerLoad
<1>7. /\ Abstract!Current(AbsQueue) = Current /\ ~Abstract!IsIdle(AbsQueue)
      /\ AbsQueue.load /\ AbsQueue' = [AbsQueue EXCEPT !.load = FALSE]
  BY <1>1, <1>2, <1>3, <1>4, <1>5
<1>8. /\ ~Abstract!IsIdle(AbsQueue) /\ AbsQueue.load
      /\ frame' = ctx[Abstract!Current(AbsQueue)] /\ fs' = Abstract!Current(AbsQueue)
      /\ AbsQueue' = [AbsQueue EXCEPT !.load = FALSE]
      /\ UNCHANGED <<state, ctx>> /\ AbsQuantum' = AbsQuantum
  BY <1>6, <1>7 DEF TimerLoad
<1> QED
  BY <1>8, Zenon DEF Abstract!TickLoad, AbsQueue, AbsQuantum, Act, Exp

LEMMA KeepsRunningIs ==
  ASSUME LinkInv, cpu.total_threads > 0
  PROVE  KeepsRunning <=> Abstract!Highest(AbsQueue) >= AbsQueue.current
                          /\ AbsQuantum[Abstract!Current(AbsQueue)] > 0
<1>1. PICK k : k = AbsQueue
  OBVIOUS
<1>2. /\ Abstract!Current(k) = Current /\ Abstract!Highest(k) = LowestBit(mask)
      /\ k.current = cpu.current_priority
  BY <1>1, AbsFacts, AbsQueueIs
<1>3. Current \in Running /\ Current \in Thread
  BY CurrentIs
<1>4. AbsQuantum[Current] = quantum[Current]
  BY <1>3 DEF AbsQuantum, Running
<1> QED
  BY <1>1, <1>2, <1>4 DEF KeepsRunning

LEMMA CountRefines ==
  ASSUME LinkInv, TimerCount
  PROVE  Abstract!TickCount
<1>1. cpu.total_threads > 0 /\ ~cpu.load_context /\ KeepsRunning
  BY DEF TimerCount
<1>2. PICK k : k = AbsQueue
  OBVIOUS
<1>3. Abstract!Current(k) = Current /\ ~Abstract!IsIdle(k) /\ k.load = cpu.load_context
  <2>1. Abstract!Current(k) = Current /\ ~Abstract!IsIdle(k)
    BY <1>1, <1>2, AbsFacts
  <2>2. k.load = cpu.load_context
    BY <1>2, AbsQueueIs
  <2> QED
    BY <2>1, <2>2
<1>4. AbsQueue' = AbsQueue
  BY CountStep, SameQueue DEF TimerCount, lists
<1>5. PICK c \in Thread : c = Current /\ state[c] = "running"
  BY <1>1, CurrentIs DEF Running
<1>6. AbsQuantum' = [AbsQuantum EXCEPT ![c] = @ - 1]
  BY <1>5 DEF AbsQuantum, TimerCount, LinkInv, LinkTypes
<1>7. /\ ~Abstract!IsIdle(AbsQueue) /\ ~AbsQueue.load
      /\ Abstract!Highest(AbsQueue) >= AbsQueue.current
      /\ AbsQuantum[Abstract!Current(AbsQueue)] > 0
      /\ AbsQuantum' = [AbsQuantum EXCEPT ![Abstract!Current(AbsQueue)] = @ - 1]
      /\ AbsQueue' = AbsQueue /\ UNCHANGED <<state, fs, frame, ctx>>
  BY <1>1, <1>2, <1>3, <1>4, <1>5, <1>6, KeepsRunningIs DEF TimerCount
<1> QED
  BY <1>7, Zenon DEF Abstract!TickCount, Abstract!KeepsRunning, AbsQueue, AbsQuantum, Act, Exp

(* Rotate of RunQueue, on the lists *)
LEMMA AbsRotateIs ==
  ASSUME LinkInv, cpu.total_threads > 0
  PROVE  LET k == AbsQueue
             c == cpu.current_priority
             a1 == Tail(Act(c))
             e1 == Append(Exp(c), Current)
         IN  Abstract!Rotate(k) =
               [active |-> [k.active EXCEPT ![c] = IF a1 = <<>> THEN e1 ELSE a1],
                expired |-> [k.expired EXCEPT ![c] = IF a1 = <<>> THEN <<>> ELSE e1],
                current |-> c, load |-> k.load]
<1>0. PICK k, c, t, a1, e1 :
        /\ k = AbsQueue /\ c = cpu.current_priority /\ t = Current
        /\ a1 = Tail(Act(c)) /\ e1 = Append(Exp(c), t)
  OBVIOUS
<1>a. PICK a2, e2 : /\ a2 = (IF a1 = <<>> THEN e1 ELSE a1)
                    /\ e2 = (IF a1 = <<>> THEN <<>> ELSE e1)
  OBVIOUS
<1> SUFFICES Abstract!Rotate(k) =
               [active |-> [k.active EXCEPT ![c] = a2], expired |-> [k.expired EXCEPT ![c] = e2],
                current |-> c, load |-> k.load]
  BY <1>0, <1>a, Zenon
<1>1. /\ c \in Prio /\ Act(c) # <<>> /\ t \in Thread /\ Priority[t] = c
  BY <1>0, CurrentIs
<1>2. /\ k = [active |-> k.active, expired |-> k.expired,
              current |-> k.current, load |-> k.load]
      /\ k.active = [o \in Prio |-> Act(o)] /\ k.expired = [o \in Prio |-> Exp(o)]
      /\ k.current = c /\ k.active[c] = Act(c) /\ k.expired[c] = Exp(c)
  BY <1>0, <1>1, AbsQueueIs
<1>3. PICK ka, ke, l, e : ka = k.active /\ ke = k.expired /\ l = k.load /\ e = Exp(c)
  OBVIOUS
<1>4. PICK A, E, A2, E2 : /\ A = [ka EXCEPT ![c] = a1] /\ E = [ke EXCEPT ![c] = e1]
                          /\ A2 = [ka EXCEPT ![c] = a2] /\ E2 = [ke EXCEPT ![c] = e2]
  OBVIOUS
<1>5. /\ DOMAIN ka = Prio /\ DOMAIN ke = Prio /\ DOMAIN A = Prio /\ DOMAIN E = Prio
      /\ A[c] = a1 /\ E[c] = e1 /\ ke[c] = e
      /\ [A EXCEPT ![c] = a2] = A2 /\ [E EXCEPT ![c] = e2] = E2
      /\ ka = [o \in Prio |-> ka[o]] /\ ke = [o \in Prio |-> ke[o]]
      /\ e1 # <<>> /\ e1 = Append(e, t)
  <2>1. e1 # <<>>
    <3>1. Exp(c) \in Seq(Thread)
      BY <1>1, PrioFacts
    <3> QED
      BY <1>0, <1>1, <3>1
  <2>2. DOMAIN ka = Prio /\ DOMAIN ke = Prio /\ ke[c] = e /\ e1 = Append(e, t)
        /\ ka = [o \in Prio |-> ka[o]] /\ ke = [o \in Prio |-> ke[o]]
    BY <1>0, <1>1, <1>2, <1>3
  <2>3. DOMAIN A = Prio /\ DOMAIN E = Prio /\ A[c] = a1 /\ E[c] = e1
    BY <1>1, <1>4, <2>2
  <2>4. [A EXCEPT ![c] = a2] = A2 /\ [E EXCEPT ![c] = e2] = E2
    BY <1>1, <1>4, <2>2
  <2> QED
    BY <2>1, <2>2, <2>3, <2>4
<1>6. PICK k0 : k0 = [k EXCEPT !.active[k.current] = Tail(@)]
  OBVIOUS
<1>7. k0 = [active |-> A, expired |-> ke, current |-> c, load |-> l]
  BY <1>0, <1>2, <1>3, <1>4, <1>6
<1>8. Abstract!Current(k) = t
  BY <1>0, AbsFacts
<1>9. PICK k1 : k1 = Abstract!AddExpired(k0, t)
  OBVIOUS
<1>10. Abstract!Rotate(k) = Abstract!Refill(k1, c)
  BY <1>2, <1>6, <1>8, <1>9 DEF Abstract!Rotate
<1>11. c \in Abstract!Mask(k0) <=> a1 # <<>> \/ e # <<>>
  <2>1. Abstract!Prio = Prio
    BY DEF Abstract!Prio, Prio
  <2>2. k0.active[c] = a1 /\ k0.expired[c] = e
    BY <1>5, <1>7
  <2> QED
    BY <1>1, <2>1, <2>2 DEF Abstract!Mask
<1>12. CASE a1 = <<>> /\ e = <<>>
  <2>1. a2 = <<t>> /\ e2 = <<>>
    BY <1>0, <1>a, <1>3, <1>12
  <2>2. k1 = [k0 EXCEPT !.active[c] = a2]
    BY <1>1, <1>9, <1>11, <1>12, <2>1 DEF Abstract!AddExpired
  <2>3. k1 = [active |-> A2, expired |-> ke, current |-> c, load |-> l]
    BY <1>5, <1>7, <2>2
  <2>4. k1.active[c] = a2 /\ a2 # <<>>
    BY <1>1, <1>4, <1>5, <2>1, <2>3
  <2>5. Abstract!Refill(k1, c) = k1
    BY <2>4 DEF Abstract!Refill
  <2>6. E2 = ke
    BY <1>4, <1>5, <1>12, <2>1
  <2> QED
    BY <1>3, <1>4, <1>10, <2>3, <2>5, <2>6
<1>13. CASE ~(a1 = <<>> /\ e = <<>>)
  <2>1. k1 = [k0 EXCEPT !.expired[c] = Append(@, t)]
    BY <1>1, <1>9, <1>11, <1>13 DEF Abstract!AddExpired
  <2>2. k0.expired[c] = e
    BY <1>5, <1>7
  <2>3. k1 = [k0 EXCEPT !.expired[c] = e1]
    BY <1>5, <2>1, <2>2
  <2>4. k1 = [active |-> A, expired |-> E, current |-> c, load |-> l]
    BY <1>4, <1>7, <2>3
  <2>5. k1.active[c] = a1 /\ k1.expired[c] = e1
    BY <1>5, <2>4
  <2>6. CASE a1 # <<>>
    <3>1. a2 = a1 /\ e2 = e1 /\ Abstract!Refill(k1, c) = k1
      BY <1>a, <2>5, <2>6 DEF Abstract!Refill
    <3> QED
      BY <1>3, <1>4, <1>10, <2>4, <3>1
  <2>7. CASE a1 = <<>>
    <3>1. a2 = e1 /\ e2 = <<>>
      BY <1>a, <2>7
    <3>2. Abstract!Refill(k1, c) = [k1 EXCEPT !.active[c] = k1.expired[c], !.expired[c] = <<>>]
      BY <2>5, <2>7 DEF Abstract!Refill
    <3>3. Abstract!Refill(k1, c) = [k1 EXCEPT !.active[c] = a2, !.expired[c] = e2]
      BY <2>5, <3>1, <3>2
    <3>4. PICK k2 : k2 = [k1 EXCEPT !.active[c] = a2]
      OBVIOUS
    <3>5. k2 = [active |-> A2, expired |-> E, current |-> c, load |-> l]
      BY <1>5, <2>4, <3>4
    <3>6. [k2 EXCEPT !.expired[c] = e2] =
            [active |-> A2, expired |-> E2, current |-> c, load |-> l]
      <4>1. PICK z : z = e2
        OBVIOUS
      <4>2. [E EXCEPT ![c] = z] = E2
        BY <1>5, <4>1
      <4>3. [k2 EXCEPT !.expired[c] = z] =
              [active |-> A2, expired |-> E2, current |-> c, load |-> l]
        BY <3>5, <4>2
      <4> QED
        BY <4>1, <4>3
    <3>7. Abstract!Refill(k1, c) = [k2 EXCEPT !.expired[c] = e2]
      BY <3>3, <3>4
    <3> QED
      BY <1>3, <1>4, <1>10, <3>6, <3>7
  <2> QED
    BY <2>6, <2>7
<1> QED
  BY <1>12, <1>13

LEMMA SwitchRefines ==
  ASSUME LinkInv, TimerSwitch
  PROVE  Abstract!TickSwitch
<1>1. cpu.total_threads > 0 /\ ~cpu.load_context /\ ~KeepsRunning
  BY DEF TimerSwitch
<1>2. PICK k, c, t, a1, e1 :
        /\ k = AbsQueue /\ c = cpu.current_priority /\ t = Current
        /\ a1 = Tail(Act(c)) /\ e1 = Append(Exp(c), t)
  OBVIOUS
<1>3. PICK a2, e2 : /\ a2 = (IF a1 = <<>> THEN e1 ELSE a1)
                    /\ e2 = (IF a1 = <<>> THEN <<>> ELSE e1)
  OBVIOUS
<1>4. /\ c \in Prio /\ c \in mask /\ t \in Thread /\ t \in Running
  BY <1>1, <1>2, CurrentIs
<1>5. /\ LinkInv' /\ mask' = mask
      /\ \A o \in Prio : /\ Act(o)' = IF o # c THEN Act(o) ELSE a2
                         /\ Exp(o)' = IF o # c THEN Exp(o) ELSE e2
  <2>2. /\ LinkInv' /\ mask' = mask
        /\ \A o \in Prio :
             /\ Act(o)' = IF o # c THEN Act(o) ELSE IF a1 = <<>> THEN e1 ELSE a1
             /\ Exp(o)' = IF o # c THEN Exp(o) ELSE IF a1 = <<>> THEN <<>> ELSE e1
    BY <1>2, SwitchStep, Zenon
  <2> QED
    BY <1>3, <2>2
<1>6. /\ k.active = [o \in Prio |-> Act(o)] /\ k.expired = [o \in Prio |-> Exp(o)]
      /\ k.current = cpu.current_priority /\ k.load = cpu.load_context
  BY <1>2, AbsQueueIs
<1>7. PICK A, E, h : /\ A = [k.active EXCEPT ![c] = a2] /\ E = [k.expired EXCEPT ![c] = e2]
                     /\ h = LowestBit(mask)
  OBVIOUS
<1>8. /\ A = [o \in Prio |-> A[o]] /\ E = [o \in Prio |-> E[o]]
      /\ \A o \in Prio : Act(o)' = A[o] /\ Exp(o)' = E[o]
  BY <1>5, <1>6, <1>7
<1>9. PICK r : r = Abstract!Rotate(k)
  OBVIOUS
<1>10. r = [active |-> A, expired |-> E, current |-> c, load |-> k.load]
  <2>1. Abstract!Rotate(k) =
          [active |-> [k.active EXCEPT ![c] = a2], expired |-> [k.expired EXCEPT ![c] = e2],
           current |-> c, load |-> k.load]
    <3>1. Abstract!Rotate(k) =
            [active |-> [k.active EXCEPT ![c] = IF a1 = <<>> THEN e1 ELSE a1],
             expired |-> [k.expired EXCEPT ![c] = IF a1 = <<>> THEN <<>> ELSE e1],
             current |-> c, load |-> k.load]
      BY <1>1, <1>2, AbsRotateIs, Zenon
    <3> QED
      BY <1>3, <3>1, Zenon
  <2> QED
    BY <1>7, <1>9, <2>1, Zenon
<1>11. Abstract!Current(k) = t /\ ~Abstract!IsIdle(k) /\ Abstract!Highest(k) = h
  BY <1>1, <1>2, <1>7, AbsFacts
<1>12. PICK s : s = Abstract!Switched(k)
  OBVIOUS
<1>13. s = [active |-> A, expired |-> E, current |-> h, load |-> k.load]
  <2>1. [r EXCEPT !.current = h] = [active |-> A, expired |-> E, current |-> h, load |-> k.load]
    BY <1>10
  <2> QED
    BY <1>9, <1>11, <1>12, <2>1, Zenon DEF Abstract!Switched
<1>14. AbsQueue' = s
  <2>1. h = cpu'.current_priority /\ k.load = cpu'.load_context
    BY <1>6, <1>7 DEF TimerSwitch, LinkInv, LinkTypes
  <2> QED
    BY <1>8, <1>13, <2>1, NewQueueIs
<1>15. Abstract!Current(s) = prio'[h].active_tail
  <2>1. h \in mask /\ mask \in SUBSET Prio
    BY <1>4, <1>7, LowestBitIs DEF LinkInv, LinkTypes
  <2>2. h \in Prio /\ A[h] # <<>> /\ OnList(link', A[h], prio'[h].active_tail)
    BY <1>5, <1>8, <2>1 DEF LinkInv, QueuesOK, PrioOK
  <2>3. prio'[h].active_tail = Head(A[h])
    BY <2>2, OnListFacts
  <2>4. s.active = A /\ s.current = h
    BY <1>13
  <2> QED
    BY <2>3, <2>4 DEF Abstract!Current
<1>16. AbsQuantum' = [AbsQuantum EXCEPT ![t] = Quantum]
  <2>1. quantum' = [quantum EXCEPT ![t] = Quantum] /\ state' = state
    BY <1>2 DEF TimerSwitch
  <2> QED
    BY <1>4, <2>1 DEF AbsQuantum, Running, LinkInv, LinkTypes
<1>17. /\ ctx' = [ctx EXCEPT ![t] = frame] /\ state' = state
       /\ IF Abstract!Current(s) # t
          THEN fs' = Abstract!Current(s) /\ frame' = ctx[Abstract!Current(s)]
          ELSE UNCHANGED <<fs, frame>>
  <2>1. PICK y : y = prio'[h].active_tail
    OBVIOUS
  <2>2. IF y # Current THEN fs' = y /\ frame' = ctx[y] ELSE fs' = fs /\ frame' = frame
    BY <1>7, <2>1 DEF TimerSwitch
  <2>3. ctx' = [ctx EXCEPT ![Current] = frame] /\ state' = state
    BY DEF TimerSwitch
  <2> QED
    BY <1>2, <1>15, <2>1, <2>2, <2>3
<1>18. ~AbsQueue.load /\ ~Abstract!IsIdle(AbsQueue)
  <2>1. ~k.load
    BY <1>1, <1>6
  <2> QED
    BY <1>2, <1>11, <2>1
<1>19. ~(/\ Abstract!Highest(AbsQueue) >= AbsQueue.current
         /\ AbsQuantum[Abstract!Current(AbsQueue)] > 0)
  BY <1>1, KeepsRunningIs
<1>20. /\ Abstract!Current(AbsQueue) = t /\ Abstract!Switched(AbsQueue) = s
  BY <1>2, <1>11, <1>12
<1>21. LET u == Abstract!Current(AbsQueue)
           n == Abstract!Switched(AbsQueue)
       IN  /\ AbsQueue' = n
           /\ AbsQuantum' = [AbsQuantum EXCEPT ![u] = Quantum]
           /\ ctx' = [ctx EXCEPT ![u] = frame]
           /\ IF Abstract!Current(n) # u
              THEN fs' = Abstract!Current(n) /\ frame' = ctx[Abstract!Current(n)]
              ELSE UNCHANGED <<fs, frame>>
  BY <1>14, <1>16, <1>17, <1>20, Zenon
<1> QED
  BY <1>17, <1>18, <1>19, <1>21, Zenon
  DEF Abstract!TickSwitch, Abstract!KeepsRunning, AbsQueue, AbsQuantum, Act, Exp
-----------------------------------------------------------------------------
LEMMA InitRefines == Init => Abstract!Init
<1> SUFFICES ASSUME Init PROVE Abstract!Init
  OBVIOUS
<1>1. \A p \in Prio : Act(p) = <<>> /\ Exp(p) = <<>>
  <2>1. \A l : OnList(l, <<>>, NULL)
    BY DEF OnList, Linked, Distinct, NodeAt
  <2> QED
    BY <2>1, ChainIs DEF Init, Act, Exp
<1>2. AbsQueue = Abstract!EmptyQueue
  BY <1>1 DEF AbsQueue, Abstract!EmptyQueue, Abstract!Prio, Prio, Init
<1>3. AbsQuantum = [t \in Thread |-> 0]
  BY DEF AbsQuantum, Init
<1> QED
  BY <1>2, <1>3 DEF Abstract!Init, Init, AbsQueue, AbsQuantum, Act, Exp

LEMMA StepRefines ==
  ASSUME LinkInv, [Next]_vars
  PROVE  [Abstract!Next]_(Abstract!vars)
<1>1. CASE UNCHANGED vars
  <2>1. AbsQueue' = AbsQueue /\ AbsQuantum' = AbsQuantum
    BY <1>1 DEF vars, AbsQueue, AbsQuantum, Act, Exp
  <2>2. UNCHANGED <<state, fs, frame, ctx>>
    BY <1>1 DEF vars
  <2> QED
    BY <2>1, <2>2 DEF Abstract!vars, AbsQueue, AbsQuantum, Act, Exp
<1>2. ASSUME NEW t \in Thread, SetContext(t) PROVE Abstract!Next
  BY <1>2, ContextRefines DEF Abstract!Next
<1>3. ASSUME NEW t \in Thread, attach_thread(t) PROVE Abstract!Next
  BY <1>3, AttachRefines DEF Abstract!Next
<1>4. ASSUME NEW t \in Thread, detach_thread(t) PROVE Abstract!Next
  BY <1>4, DetachRefines DEF Abstract!Next
<1>5. ASSUME NEW t \in Thread, resume_thread(t) PROVE Abstract!Next
  BY <1>5, ResumeRefines DEF Abstract!Next
<1>6. ASSUME NEW t \in Thread, NEW to \in {"paused", "stopped"}, deactivate_running(t, to)
      PROVE  Abstract!Next
  BY <1>6, DeactivateRefines DEF Abstract!Next
<1>7. ASSUME NEW t \in Thread, StopPaused(t) PROVE Abstract!Next
  BY <1>7, StopRefines DEF Abstract!Next
<1>8. CASE TimerLoad
  BY <1>8, LoadRefines DEF Abstract!Next, Abstract!Tick
<1>9. CASE TimerCount
  BY <1>9, CountRefines DEF Abstract!Next, Abstract!Tick
<1>10. CASE TimerSwitch
  BY <1>10, SwitchRefines DEF Abstract!Next, Abstract!Tick
<1> QED
  BY <1>1, <1>2, <1>3, <1>4, <1>5, <1>6, <1>7, <1>8, <1>9, <1>10 DEF Next, Timer

(* The linked lists of schedule.c implement the sequences of CpuQueue:     *)
(* their initial state is CpuQueue's, and every operation on them is the   *)
(* CpuQueue operation of the same meaning, or changes nothing CpuQueue     *)
(* sees.                                                                   *)
THEOREM ListsImplementQueue == Spec => Abstract!Init /\ [][Abstract!Next]_(Abstract!vars)
<1>1. Init => LinkInv
  BY LinkInit
<1>2. LinkInv /\ [Next]_vars => LinkInv'
  BY LinkInvStep
<1>3. Init => Abstract!Init
  BY InitRefines
<1>4. LinkInv /\ [Next]_vars => [Abstract!Next]_(Abstract!vars)
  BY StepRefines
<1> QED
  BY <1>1, <1>2, <1>3, <1>4, PTL DEF Spec
=============================================================================
