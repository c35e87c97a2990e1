---------------------------- MODULE DriverProofs ----------------------------
(***************************************************************************)
(* Proofs about Driver, for any drivers, types, clients and number of      *)
(* bits: the registry's list stays linked, and an enumeration neither      *)
(* repeats nor misses a driver, whatever is added and removed meanwhile.   *)
(*                                                                         *)
(* The argument is the order of the stamps: a driver is added in front of  *)
(* the list with a stamp above all others, so that stamps fall along the   *)
(* list, and an enumeration walks down them.                               *)
(*                                                                         *)
(* Then about Mutex, which the registry is guarded with, for every set of  *)
(* threads and every size of the pool of nodes: no wake-up is lost, and    *)
(* the mutex has one owner except after __awake_in_mutex has released      *)
(* mlock under a thread it woke.                                           *)
(***************************************************************************)
EXTENDS Driver, Mutex, ListProofs

LEMMA StampIdFacts ==
  ASSUME NEW p \in Pointers, NEW st \in Nat
  PROVE  /\ get_stamp_id(p, st) \in Nat \ {0}
         /\ get_stamp_id_ptr(get_stamp_id(p, st)) = p
         /\ get_stamp_id_stamp(get_stamp_id(p, st)) = st
<1>1. PICK q : q = 2 ^ PtrBits
  OBVIOUS
<1>0. q \in Int
  BY <1>1, StampIdAssumption
<1>2. p \in Nat /\ p > 0 /\ p < q
  BY <1>0, <1>1 DEF Pointers
<1>3. p + st * q \in Nat /\ p + st * q # 0
  BY <1>0, <1>2
<1>4. (p + st * q) % q = p /\ (p + st * q) \div q = st
  BY <1>0, <1>2
<1> QED
  BY <1>1, <1>3, <1>4 DEF get_stamp_id, get_stamp_id_ptr, get_stamp_id_stamp
-----------------------------------------------------------------------------
RegistryOK ==
  /\ registered \in SUBSET Drivers
  /\ next \in [Drivers -> Drivers \cup {0}]
  /\ prev \in [Drivers -> Drivers \cup {0}]
  /\ stamp \in [Drivers -> Nat]
  /\ global \in 0 .. MaxAdds

(* The list holds the registered drivers, the one added last first. *)
ListInv ==
  /\ Linked(Drivers, 0, next, prev, Chain, tail)
  /\ ToSet(Chain) = registered
  /\ \A d \in registered : stamp[d] < global
  /\ \A i, j \in 1 .. Len(Chain) : i < j => stamp[Chain[j]] < stamp[Chain[i]]

Matches(d, w) == w \in {-1, TypeOf[d]}

Returned(c) == {get_stamp_id_ptr(i) : i \in ToSet(seen[c])}

(* Ids in the order of falling stamps, all below g *)
Descends(s, g) ==
  /\ s \in Seq(Nat \ {0})
  /\ \A i \in 1 .. Len(s) : get_stamp_id_stamp(s[i]) \in 0 .. g - 1
  /\ \A i, j \in 1 .. Len(s) :
       i < j => get_stamp_id_stamp(s[j]) < get_stamp_id_stamp(s[i])

(* Where client c's enumeration is *)
ClientInv(c) ==
  /\ stayed[c] \subseteq registered
  /\ Descends(seen[c], global)
  /\ result[c] = "none" =>
       id[c] = IF seen[c] = <<>> THEN 0 ELSE seen[c][Len(seen[c])]
  /\ result[c] = "none" /\ seen[c] # <<>> =>
       \A d \in stayed[c] : Matches(d, type[c]) =>
         d \in Returned(c) \/ stamp[d] < get_stamp_id_stamp(id[c])
  /\ result[c] = "no_more" =>
       \A d \in stayed[c] : Matches(d, type[c]) => d \in Returned(c)

ClientsOK ==
  /\ id \in [Client -> Nat] /\ type \in [Client -> Types]
  /\ result \in [Client -> {"none", "no_more", "not_found", "expired"}]
  /\ DOMAIN seen = Client /\ DOMAIN stayed = Client

DriverInv == RegistryOK /\ ListInv /\ ClientsOK /\ \A c \in Client : ClientInv(c)
-----------------------------------------------------------------------------
(* What get_next_driver's loop finds: the next driver on the list of the   *)
(* type asked for, or none if there is none.                               *)
LEMMA AfterFacts ==
  ASSUME Linked(Drivers, 0, next, prev, Chain, tail), NEW k \in 1 .. Len(Chain), NEW w
  PROVE  \E m \in k + 1 .. Len(Chain) + 1 :
           /\ After(Chain[k], w) = NodeAt(Chain, 0, m)
           /\ \A i \in k + 1 .. m - 1 : ~Matches(Chain[i], w)
           /\ m <= Len(Chain) => Matches(Chain[m], w)
<1>0. IsFiniteSet(Drivers) /\ 0 \notin Drivers
  BY DriverAssumption DEF Pointers
<1>1. PICK s : s = Chain
  OBVIOUS
<1>2. s \in Seq(Drivers) /\ Len(s) \in Nat /\ k \in 1 .. Len(s) /\ k \in Nat
  BY <1>1 DEF Linked
<1>3. PICK rest : rest = SubSeq(s, k + 1, Len(s))
  OBVIOUS
<1>4. /\ rest \in Seq(Drivers) /\ Len(rest) = Len(s) - k
      /\ \A i \in 1 .. Len(s) - k : rest[i] = s[i + k]
  BY <1>2, <1>3, SuffixFacts
<1>5. Walk(Drivers, 0, next, next[s[k]]) = rest
  BY <1>0, <1>1, <1>3, WalkFromMiddle
<1> DEFINE I == {i \in 1 .. Len(rest) : w \in {-1, TypeOf[rest[i]]}}
<1>6. After(s[k], w) = IF I # {} THEN (IF Min(I) = 0 THEN 0 ELSE rest[Min(I)]) ELSE 0
  BY <1>5 DEF After, SelectInSeq
<1>7. \A i \in 1 .. Len(rest) : i \in I <=> Matches(s[i + k], w)
  BY <1>4 DEF Matches
<1>8. CASE I = {}
  <2>1. After(s[k], w) = NodeAt(s, 0, Len(s) + 1)
    BY <1>2, <1>6, <1>8 DEF NodeAt
  <2>2. \A i \in k + 1 .. Len(s) : i - k \in 1 .. Len(rest) /\ (i - k) + k = i
    BY <1>2, <1>4
  <2>3. \A i \in k + 1 .. Len(s) : ~Matches(s[i], w)
    BY <1>7, <1>8, <2>2
  <2>4. Len(s) + 1 \in k + 1 .. Len(s) + 1 /\ (Len(s) + 1) - 1 = Len(s)
        /\ ~(Len(s) + 1 <= Len(s))
    BY <1>2
  <2> QED
    BY <1>1, <2>1, <2>3, <2>4
<1>9. CASE I # {}
  <2>0. I \in SUBSET Nat
    OBVIOUS
  <2>1. PICK m : m = Min(I)
    OBVIOUS
  <2>2. m \in I /\ \A i \in I : m <= i
    BY <1>9, <2>0, <2>1, LeastExists DEF Min
  <2>3. m \in 1 .. Len(rest) /\ After(s[k], w) = rest[m] /\ rest[m] = s[m + k]
    <3>1. m \in 1 .. Len(rest) /\ m # 0
      BY <2>2
    <3>2. After(s[k], w) = rest[m]
      BY <1>6, <1>9, <2>1, <3>1
    <3> QED
      BY <1>4, <3>1, <3>2
  <2> HIDE DEF I
  <2>4. /\ m + k \in k + 1 .. Len(s) + 1 /\ m + k \in 1 .. Len(s)
        /\ After(s[k], w) = NodeAt(s, 0, m + k)
    BY <1>2, <1>4, <2>3 DEF NodeAt
  <2>5. Matches(s[m + k], w)
    BY <1>7, <2>2, <2>3
  <2>6. ASSUME NEW i \in k + 1 .. (m + k) - 1
        PROVE  ~Matches(s[i], w)
    <3>1. PICK j \in 1 .. Len(rest) : ~(m <= j) /\ j + k = i
      <4>1. i - k \in 1 .. Len(rest) /\ ~(m <= i - k) /\ (i - k) + k = i
        <5>1. k \in Nat /\ Len(rest) \in Nat /\ m \in 1 .. Len(rest)
          BY <1>2, <1>4, <2>3
        <5> QED
          BY <5>1
      <4> QED
        BY <4>1
    <3> QED
      BY <1>7, <2>2, <3>1
  <2> QED
    BY <1>1, <2>4, <2>5, <2>6
<1> QED
  BY <1>8, <1>9
-----------------------------------------------------------------------------
LEMMA NoDriverAtNull == IsFiniteSet(Drivers) /\ 0 \notin Drivers
  BY DriverAssumption DEF Pointers

LEMMA RegistryInit == DriverInit => DriverInv
<1> SUFFICES ASSUME DriverInit PROVE DriverInv
  OBVIOUS
<1> USE DEF DriverInit
<1>0. MaxAdds \in Nat
  BY DriverAssumption, StampIdAssumption DEF Stamps
<1>1. Linked(Drivers, 0, next, prev, <<>>, tail)
  BY DEF Linked, Distinct, NodeAt
<1>2. Chain = <<>>
  BY <1>1, WalkOfLinked, NoDriverAtNull DEF Chain
<1>3. ListInv
  BY <1>1, <1>2 DEF ListInv, ToSet
<1>4. RegistryOK
  BY <1>0 DEF RegistryOK
<1>5. ClientsOK
  BY DEF ClientsOK, Types
<1>6. \A c \in Client : ClientInv(c)
  BY DEF ClientInv, Descends
<1> QED
  BY <1>3, <1>4, <1>5, <1>6 DEF DriverInv

LEMMA AddList ==
  ASSUME DriverInv, NEW d \in Drivers, add_driver(d)
  PROVE  RegistryOK' /\ ListInv' /\ global' = global + 1
<1> USE NoDriverAtNull DEF DriverInv
<1>0. /\ global \in Nat /\ MaxAdds \in Int /\ global < MaxAdds
      /\ Linked(Drivers, 0, next, prev, Chain, tail) /\ ToSet(Chain) = registered
  BY DriverAssumption, StampIdAssumption DEF RegistryOK, Stamps, add_driver, ListInv
<1>1. global' = global + 1
  <2>1. PICK q : q = 2 ^ StampBits
    OBVIOUS
  <2>2. q \in Int
    BY <2>1, StampIdAssumption
  <2>3. global + 1 < q
    BY <1>0, <2>1, <2>2, DriverAssumption DEF Stamps
  <2>4. (global + 1) % q = global + 1
    BY <1>0, <2>2, <2>3
  <2> QED
    BY <2>1, <2>4 DEF add_driver, NextStamp
<1>2. PICK s : s = Chain
  OBVIOUS
<1>3. /\ s \in Seq(Drivers) /\ Len(s) \in Nat /\ ToSet(s) = registered
      /\ Linked(Drivers, 0, next, prev, s, tail)
      /\ \A i \in 1 .. Len(s) : s[i] \in registered
  BY <1>0, <1>2 DEF Linked, ToSet
<1>4. tail \in Drivers \cup {0}
  BY <1>3 DEF Linked, NodeAt
<1>5. RegistryOK'
  <2>1. prev' \in [Drivers -> Drivers \cup {0}]
    BY <1>4 DEF add_driver, Set, RegistryOK
  <2>2. global' \in 0 .. MaxAdds
    BY <1>0, <1>1
  <2> QED
    BY <1>0, <1>4, <2>1, <2>2 DEF add_driver, RegistryOK
<1>6. d \notin ToSet(s) /\ tail # d
  <2>1. tail # 0 => tail \in registered
    BY <1>3 DEF Linked, NodeAt
  <2> QED
    BY <1>3, <2>1 DEF add_driver
<1>7. /\ next'[d] = tail /\ prev'[d] = 0 /\ (tail # 0 => prev'[tail] = d)
      /\ \A u \in ToSet(s) : next'[u] = next[u]
      /\ \A u \in ToSet(s) \ {tail} : prev'[u] = prev[u]
      /\ \A u \in registered : stamp'[u] = stamp[u]
      /\ stamp'[d] = global /\ tail' = d /\ registered' = registered \cup {d}
  BY <1>3, <1>4, <1>6 DEF add_driver, Set, RegistryOK
<1>8. PICK r : r = <<d>> \o s
  OBVIOUS
<1>9. /\ Linked(Drivers, 0, next', prev', r, tail')
      /\ ToSet(r) = ToSet(s) \cup {d} /\ Len(r) = Len(s) + 1
  BY <1>3, <1>6, <1>7, <1>8, LinkedPush
<1>10. Chain' = r
  BY <1>9, WalkOfLinked DEF Chain
<1>11. r[1] = d /\ \A i \in 2 .. Len(s) + 1 : i - 1 \in 1 .. Len(s) /\ r[i] = s[i - 1]
  BY <1>3, <1>8
<1>12. \A u \in registered' : stamp'[u] < global'
  BY <1>0, <1>1, <1>7 DEF RegistryOK, ListInv
<1>13. ASSUME NEW i \in 1 .. Len(r), NEW j \in 1 .. Len(r), i < j
       PROVE  stamp'[r[j]] < stamp'[r[i]]
  <2>1. j \in 2 .. Len(s) + 1 /\ j - 1 \in 1 .. Len(s) /\ r[j] = s[j - 1]
    BY <1>3, <1>9, <1>11, <1>13
  <2>2. stamp'[r[j]] = stamp[s[j - 1]] /\ stamp[s[j - 1]] < global
    BY <1>3, <1>7, <2>1 DEF ListInv
  <2>3. CASE i = 1
    BY <1>7, <1>11, <2>2, <2>3
  <2>4. CASE i # 1
    <3>1. i - 1 \in 1 .. Len(s) /\ r[i] = s[i - 1] /\ i - 1 < j - 1
      BY <1>3, <1>9, <1>11, <1>13, <2>4
    <3>2. stamp[s[j - 1]] < stamp[s[i - 1]]
      BY <1>2, <2>1, <3>1 DEF ListInv
    <3> QED
      BY <1>3, <1>7, <2>2, <3>1, <3>2
  <2> QED
    BY <2>3, <2>4
<1>14. ListInv'
  BY <1>3, <1>7, <1>9, <1>10, <1>12, <1>13 DEF ListInv
<1> QED
  BY <1>1, <1>5, <1>14

LEMMA AddStep ==
  ASSUME DriverInv, NEW d \in Drivers, add_driver(d)
  PROVE  DriverInv'
<1>1. RegistryOK' /\ ListInv' /\ global' = global + 1
  BY AddList
<1>2. ClientsOK'
  BY DEF DriverInv, ClientsOK, add_driver, clients
<1>3. ASSUME NEW c \in Client PROVE ClientInv(c)'
  <2>1. ClientInv(c) /\ global \in Nat
    BY DEF DriverInv, RegistryOK
  <2>2. /\ stayed' = stayed /\ seen' = seen /\ id' = id /\ result' = result
        /\ type' = type /\ registered \subseteq registered'
        /\ Returned(c)' = Returned(c)
        /\ \A u \in stayed[c] : stamp'[u] = stamp[u]
    BY <2>1 DEF add_driver, clients, DriverInv, RegistryOK, ClientInv, Returned
  <2>3. 0 .. global - 1 \subseteq 0 .. global' - 1
    BY <1>1, <2>1
  <2> QED
    BY <2>1, <2>2, <2>3 DEF ClientInv, Descends
<1> QED
  BY <1>1, <1>2, <1>3 DEF DriverInv
-----------------------------------------------------------------------------
LEMMA RemoveList ==
  ASSUME DriverInv, NEW d \in Drivers, remove_driver(d)
  PROVE  RegistryOK' /\ ListInv' /\ registered' = registered \ {d}
<1> USE NoDriverAtNull DEF DriverInv
<1>1. d \in registered
  <2>1. stamp[d] \in Nat /\ d \in Pointers
    BY DriverAssumption DEF RegistryOK
  <2> QED
    BY <2>1, StampIdFacts DEF remove_driver, Lookup
<1>2. PICK s : s = Chain
  OBVIOUS
<1>3. /\ s \in Seq(Drivers) /\ Len(s) \in Nat /\ ToSet(s) = registered /\ Distinct(s)
      /\ Linked(Drivers, 0, next, prev, s, tail)
      /\ \A i \in 1 .. Len(s) : s[i] \in registered
  BY <1>2 DEF ListInv, Linked, ToSet
<1>4. PICK k \in 1 .. Len(s) : s[k] = d
  BY <1>1, <1>3 DEF ToSet
<1>5. next[d] \in Drivers \cup {0} /\ prev[d] \in Drivers \cup {0}
  BY DEF RegistryOK
<1>6. /\ \A u \in Drivers : next'[u] = IF u = prev[d] THEN next[d] ELSE next[u]
      /\ \A u \in Drivers : prev'[u] = IF u = next[d] THEN prev[d] ELSE prev[u]
      /\ tail' = IF tail = d THEN next[d] ELSE tail
      /\ registered' = registered \ {d} /\ stamp' = stamp /\ global' = global
  BY <1>5 DEF remove_driver, Set, RegistryOK
<1>7. RegistryOK'
  BY <1>5 DEF remove_driver, Set, RegistryOK
<1>8. PICK r : r = RemoveAt(s, k)
  OBVIOUS
<1>9. Linked(Drivers, 0, next', prev', r, tail')
  <2>1. \A u \in ToSet(s) \ {d} :
          /\ next'[u] = IF u = prev[d] THEN next[d] ELSE next[u]
          /\ prev'[u] = IF u = next[d] THEN prev[d] ELSE prev[u]
    BY <1>3, <1>6 DEF RegistryOK
  <2>2. Linked(Drivers, 0, next', prev', r, IF tail = d THEN next[d] ELSE tail)
    BY <1>3, <1>4, <1>8, <2>1, LinkedRemove
  <2> QED
    BY <1>6, <2>2
<1>10. Chain' = r
  BY <1>9, WalkOfLinked DEF Chain
<1>11. ToSet(r) = registered \ {d}
  BY <1>3, <1>4, <1>8, RemoveFirstAt, RemoveFacts
<1>12. ASSUME NEW i \in 1 .. Len(r), NEW j \in 1 .. Len(r), i < j
       PROVE  stamp'[r[j]] < stamp'[r[i]]
  <2>1. /\ Len(r) = Len(s) - 1
        /\ \A n \in 1 .. Len(s) - 1 : r[n] = IF n < k THEN s[n] ELSE s[n + 1]
    BY <1>3, <1>8, RemoveAtFacts
  <2>2. PICK a \in 1 .. Len(s) : a = (IF i < k THEN i ELSE i + 1) /\ r[i] = s[a]
    BY <1>3, <2>1
  <2>3. PICK b \in 1 .. Len(s) : b = (IF j < k THEN j ELSE j + 1) /\ r[j] = s[b]
    BY <1>3, <2>1
  <2>4. a < b
    BY <1>12, <2>1, <1>3, <2>2, <2>3
  <2> QED
    BY <1>2, <1>6, <2>2, <2>3, <2>4 DEF ListInv
<1>13. ListInv'
  BY <1>6, <1>9, <1>10, <1>11, <1>12 DEF ListInv
<1> QED
  BY <1>6, <1>7, <1>13

LEMMA RemoveStep ==
  ASSUME DriverInv, NEW d \in Drivers, remove_driver(d)
  PROVE  DriverInv'
<1>1. RegistryOK' /\ ListInv' /\ registered' = registered \ {d}
  BY RemoveList
<1>2. ClientsOK'
  BY DEF DriverInv, ClientsOK, remove_driver, clients
<1>3. ASSUME NEW c \in Client PROVE ClientInv(c)'
  <2>1. ClientInv(c) /\ DOMAIN stayed = Client
    BY DEF DriverInv, ClientsOK
  <2>2. /\ stayed'[c] = stayed[c] \ {d} /\ seen' = seen /\ id' = id
        /\ result' = result /\ type' = type /\ stamp' = stamp /\ global' = global
        /\ Returned(c)' = Returned(c)
    BY DEF remove_driver, clients, Returned
  <2> QED
    BY <1>1, <2>1, <2>2 DEF ClientInv
<1> QED
  BY <1>1, <1>2, <1>3 DEF DriverInv

LEMMA StartStep ==
  ASSUME DriverInv, NEW c \in Client, NEW w \in Types, Start(c, w)
  PROVE  DriverInv'
<1> USE DEF DriverInv
<1>1. RegistryOK' /\ ListInv'
  BY DEF Start, registry, RegistryOK, ListInv, Chain
<1>2. ClientsOK'
  BY DEF Start, ClientsOK
<1>3. ASSUME NEW b \in Client PROVE ClientInv(b)'
  <2>1. CASE b = c
    BY <2>1 DEF Start, ClientsOK, ClientInv, Descends, registry
  <2>2. CASE b # c
    <3>1. /\ stayed'[b] = stayed[b] /\ seen'[b] = seen[b] /\ id'[b] = id[b]
          /\ result'[b] = result[b] /\ type'[b] = type[b]
          /\ Returned(b)' = Returned(b)
      BY <2>2 DEF Start, ClientsOK, Returned
    <3> QED
      BY <3>1 DEF Start, ClientInv, registry
  <2> QED
    BY <2>1, <2>2
<1> QED
  BY <1>1, <1>2, <1>3
-----------------------------------------------------------------------------
(* The next id of an enumeration has a lower stamp than those before. *)
LEMMA SeenGrows ==
  ASSUME NEW g, NEW s, Descends(s, g), NEW i \in Nat \ {0},
         get_stamp_id_stamp(i) \in 0 .. g - 1,
         s # <<>> => get_stamp_id_stamp(i) < get_stamp_id_stamp(s[Len(s)]),
         NEW r, r = Append(s, i)
  PROVE  Descends(r, g) /\ r # <<>> /\ r[Len(r)] = i
<1> USE DEF Descends
<1>0. Len(s) \in Nat
  OBVIOUS
<1>1. /\ r \in Seq(Nat \ {0}) /\ Len(r) = Len(s) + 1 /\ Len(s) \in Nat
      /\ DOMAIN r = 1 .. Len(s) + 1 /\ DOMAIN s = 1 .. Len(s)
      /\ \A a \in 1 .. Len(s) : r[a] = s[a]
      /\ r[Len(s) + 1] = i
  OBVIOUS
<1>3. \A a \in 1 .. Len(r) : get_stamp_id_stamp(r[a]) \in 0 .. g - 1
  BY <1>1
<1>4. \A a \in 1 .. Len(s) : get_stamp_id_stamp(i) < get_stamp_id_stamp(s[a])
  <2> SUFFICES ASSUME NEW a \in 1 .. Len(s)
               PROVE  get_stamp_id_stamp(i) < get_stamp_id_stamp(s[a])
    OBVIOUS
  <2>1. Len(s) \in 1 .. Len(s) /\ s # <<>>
    BY <1>1
  <2>2. a = Len(s) \/ a < Len(s)
    BY <1>0
  <2>3. get_stamp_id_stamp(i) < get_stamp_id_stamp(s[Len(s)])
    BY <2>1
  <2> HIDE DEF get_stamp_id_stamp
  <2>4. /\ get_stamp_id_stamp(i) \in Int /\ get_stamp_id_stamp(s[a]) \in Int
        /\ get_stamp_id_stamp(s[Len(s)]) \in Int
    BY <2>1
  <2> QED
    BY <2>1, <2>2, <2>3, <2>4
<1>5. ASSUME NEW a \in 1 .. Len(r), NEW b \in 1 .. Len(r), a < b
      PROVE  get_stamp_id_stamp(r[b]) < get_stamp_id_stamp(r[a])
  <2>1. a \in 1 .. Len(s) /\ r[a] = s[a]
    BY <1>1, <1>5
  <2>2. CASE b = Len(s) + 1
    BY <1>1, <1>4, <2>1, <2>2
  <2>3. CASE b # Len(s) + 1
    <3>1. b \in 1 .. Len(s)
      BY <1>1, <2>3
    <3>2. r[b] = s[b]
      BY <1>1, <3>1
    <3> QED
      BY <1>5, <2>1, <3>1, <3>2
  <2> QED
    BY <2>2, <2>3
<1>6. r # <<>> /\ r[Len(r)] = i
  BY <1>1
<1> QED
  BY <1>1, <1>3, <1>5, <1>6

(* The enumeration goes on to driver e: it has returned, or has yet to     *)
(* reach, every driver that stayed.                                        *)
LEMMA NextDriver ==
  ASSUME DriverInv, NEW c \in Client, result[c] = "none",
         NEW m \in 1 .. Len(Chain), NEW e, e = Chain[m],
         id' = [id EXCEPT ![c] = get_stamp_id(e, stamp[e])],
         result' = [result EXCEPT ![c] = "none"],
         seen' = [seen EXCEPT ![c] = Append(@, get_stamp_id(e, stamp[e]))],
         UNCHANGED <<registry, type, stayed>>,
         seen[c] # <<>> => stamp[e] < get_stamp_id_stamp(id[c]),
         \A i \in 1 .. m - 1 :
           Chain[i] \in stayed[c] /\ Matches(Chain[i], type[c]) => Chain[i] \in Returned(c)
  PROVE  ClientInv(c)'
<1> USE DEF DriverInv
<1>1. PICK s : s = Chain
  OBVIOUS
<1>2. s \in Seq(Drivers) /\ Len(s) \in Nat /\ ToSet(s) = registered /\ e = s[m]
      /\ m \in 1 .. Len(s)
  BY <1>1 DEF ListInv, Linked
<1>3. e \in Drivers /\ e \in registered /\ e \in Pointers /\ stamp[e] \in Nat
      /\ stamp[e] \in 0 .. global - 1 /\ global \in Int
  BY <1>2, DriverAssumption DEF ToSet, RegistryOK, ListInv
<1>4. PICK i : i = get_stamp_id(e, stamp[e])
  OBVIOUS
<1>5. /\ i \in Nat \ {0} /\ get_stamp_id_ptr(i) = e
      /\ get_stamp_id_stamp(i) = stamp[e]
  BY <1>3, <1>4, StampIdFacts
<1>6. ClientInv(c) /\ id'[c] = i /\ seen'[c] = Append(seen[c], i)
      /\ result'[c] = "none" /\ type' = type /\ stayed' = stayed
      /\ registered' = registered /\ stamp' = stamp /\ global' = global
  BY <1>4 DEF ClientsOK, registry
<1>7. PICK q : q = seen[c]
  OBVIOUS
<1>8. PICK r : r = Append(q, i)
  OBVIOUS
<1>9. /\ Descends(r, global) /\ r # <<>> /\ r[Len(r)] = i
      /\ ToSet(r) = ToSet(q) \cup {i}
  <2>1. Descends(q, global) /\ (q # <<>> => id[c] = q[Len(q)])
    BY <1>6, <1>7 DEF ClientInv
  <2>2. q # <<>> => get_stamp_id_stamp(i) < get_stamp_id_stamp(q[Len(q)])
    BY <1>5, <1>7, <2>1
  <2>3. get_stamp_id_stamp(i) \in 0 .. global - 1 /\ i \in Nat \ {0}
    BY <1>3, <1>5
  <2>4. PICK g : g = global
    OBVIOUS
  <2>5. Descends(q, g) /\ get_stamp_id_stamp(i) \in 0 .. g - 1
    BY <2>1, <2>3, <2>4
  <2>6. /\ Descends(r, g) /\ r # <<>> /\ r[Len(r)] = i
        /\ ToSet(r) = ToSet(q) \cup {i}
    <3>1. Descends(r, g)
      BY ONLY <1>8, <2>2, <2>3, <2>5, SeenGrows
    <3>2. r # <<>>
      BY ONLY <1>8, <2>2, <2>3, <2>5, SeenGrows
    <3>3. r[Len(r)] = i
      BY ONLY <1>8, <2>2, <2>3, <2>5, SeenGrows
    <3>4. ToSet(r) = ToSet(q) \cup {i}
      <4>1. q \in Seq(Nat \ {0})
        BY <2>5 DEF Descends
      <4>2. /\ DOMAIN r = 1 .. Len(q) + 1 /\ DOMAIN q = 1 .. Len(q)
            /\ \A a \in 1 .. Len(q) : r[a] = q[a]
            /\ r[Len(q) + 1] = i /\ Len(q) \in Nat
        BY <1>8, <2>3, <4>1
      <4> QED
        BY <4>2 DEF ToSet
    <3> QED
      BY <3>1, <3>2, <3>3, <3>4
  <2> QED
    BY <2>4, <2>6
<1>10. Returned(c)' = Returned(c) \cup {e} /\ seen'[c] = r
  BY <1>5, <1>6, <1>7, <1>8, <1>9 DEF Returned
<1>11. ASSUME NEW d \in stayed[c], Matches(d, type[c])
       PROVE  d \in Returned(c)' \/ stamp[d] < stamp[e]
  <2>1. d \in registered
    BY <1>6, <1>11 DEF ClientInv
  <2>2. PICK j \in 1 .. Len(s) : d = s[j]
    BY <1>2, <2>1 DEF ToSet
  <2>3. CASE j < m
    <3>1. j \in 1 .. m - 1
      BY <1>2, <2>3
    <3> QED
      BY <1>1, <1>10, <1>11, <2>2, <3>1
  <2>4. CASE j = m
    BY <1>2, <1>10, <2>2, <2>4
  <2>5. CASE m < j
    BY <1>1, <1>2, <2>2, <2>5 DEF ListInv
  <2> QED
    BY <1>2, <2>3, <2>4, <2>5
<1> QED
  BY <1>5, <1>6, <1>9, <1>10, <1>11 DEF ClientInv, Matches

(* The end of the list: every driver that stayed has been returned. *)
LEMMA NoMoreDrivers ==
  ASSUME DriverInv, NEW c \in Client,
         id' = [id EXCEPT ![c] = 0],
         result' = [result EXCEPT ![c] = "no_more"], seen' = seen,
         UNCHANGED <<registry, type, stayed>>,
         \A d \in stayed[c] : Matches(d, type[c]) => d \in Returned(c)
  PROVE  ClientInv(c)'
<1>1. ClientInv(c) /\ result'[c] = "no_more" /\ Returned(c)' = Returned(c)
  BY DEF DriverInv, ClientsOK, Returned
<1> QED
  BY <1>1 DEF ClientInv, registry

LEMMA GetNextIs ==
  ASSUME NEW c, get_next_driver(c), NEW i,
         Found(id[c], type[c]) = [err |-> "none", id |-> i]
  PROVE  /\ id' = [id EXCEPT ![c] = i]
         /\ result' = [result EXCEPT ![c] = IF i = 0 THEN "no_more" ELSE "none"]
         /\ seen' = IF i = 0 THEN seen ELSE [seen EXCEPT ![c] = Append(@, i)]
  BY DEF get_next_driver

LEMMA FirstDriver ==
  ASSUME DriverInv, NEW c \in Client, get_next_driver(c), id[c] = 0
  PROVE  ClientInv(c)'
<1> USE DEF DriverInv
<1>1. ClientInv(c) /\ result[c] = "none" /\ UNCHANGED <<registry, type, stayed>>
  BY DEF get_next_driver
<1>2. seen[c] = <<>>
  BY <1>1 DEF ClientInv, Descends
<1>3. CASE tail = 0
  <2>1. Found(id[c], type[c]) = [err |-> "none", id |-> 0]
    BY <1>3 DEF Found, IdOf
  <2>2. /\ id' = [id EXCEPT ![c] = 0] /\ seen' = seen
        /\ result' = [result EXCEPT ![c] = "no_more"]
    BY <2>1, GetNextIs, Zenon
  <2>3. Chain = <<>>
    <3>1. Chain \in Seq(Drivers) /\ tail = NodeAt(Chain, 0, 1)
      BY DEF ListInv, Linked
    <3> QED
      BY <1>3, <3>1, NoDriverAtNull DEF NodeAt
  <2>4. stayed[c] = {}
    BY <1>1, <2>3 DEF ClientInv, ListInv, ToSet
  <2> QED
    BY <1>1, <2>2, <2>4, NoMoreDrivers
<1>4. CASE tail # 0
  <2>1. Chain \in Seq(Drivers) /\ 1 \in 1 .. Len(Chain) /\ tail = Chain[1]
    BY <1>4 DEF ListInv, Linked, NodeAt
  <2>2. get_stamp_id(tail, stamp[tail]) # 0
    <3>1. tail \in Pointers /\ stamp[tail] \in Nat
      BY <2>1, DriverAssumption DEF RegistryOK
    <3> QED
      BY <3>1, StampIdFacts
  <2>3. Found(id[c], type[c])
          = [err |-> "none", id |-> get_stamp_id(tail, stamp[tail])]
    BY <1>4 DEF Found, IdOf
  <2>4. /\ id' = [id EXCEPT ![c] = get_stamp_id(tail, stamp[tail])]
        /\ result' = [result EXCEPT ![c] = "none"]
        /\ seen' = [seen EXCEPT ![c] = Append(@, get_stamp_id(tail, stamp[tail]))]
    BY <2>2, <2>3, GetNextIs, Zenon
  <2>5. \A i \in 1 .. 1 - 1 :
          Chain[i] \in stayed[c] /\ Matches(Chain[i], type[c]) => Chain[i] \in Returned(c)
    OBVIOUS
  <2> QED
    BY <1>1, <1>2, <2>1, <2>4, <2>5, NextDriver
<1> QED
  BY <1>3, <1>4

LEMMA LaterDriver ==
  ASSUME DriverInv, NEW c \in Client, get_next_driver(c), id[c] # 0,
         Lookup(id[c], registered, stamp) = "none"
  PROVE  ClientInv(c)'
<1> USE DEF DriverInv
<1>1. ClientInv(c) /\ result[c] = "none" /\ UNCHANGED <<registry, type, stayed>>
  BY DEF get_next_driver
<1>2. PICK p : p = get_stamp_id_ptr(id[c])
  OBVIOUS
<1>3. p \in registered /\ stamp[p] = get_stamp_id_stamp(id[c])
  BY <1>2 DEF Lookup
<1>4. PICK s : s = Chain
  OBVIOUS
<1>5. /\ s \in Seq(Drivers) /\ Len(s) \in Nat /\ ToSet(s) = registered
      /\ Linked(Drivers, 0, next, prev, Chain, tail)
  BY <1>4 DEF ListInv, Linked
<1>6. PICK k \in 1 .. Len(s) : s[k] = p
  BY <1>3, <1>5 DEF ToSet
<1>7. PICK m \in k + 1 .. Len(s) + 1 :
        /\ After(p, type[c]) = NodeAt(s, 0, m)
        /\ \A i \in k + 1 .. m - 1 : ~Matches(s[i], type[c])
  BY <1>4, <1>5, <1>6, AfterFacts
<1>8. \A i, j \in 1 .. Len(s) :
        i < j => stamp[s[j]] < stamp[s[i]] /\ stamp[s[j]] \in Nat /\ stamp[s[i]] \in Nat
  BY <1>4, <1>5 DEF ListInv, RegistryOK
<1>9. seen[c] # <<>>
  BY <1>1 DEF ClientInv
(* What comes before m on the list has been returned, or is not asked for. *)
<1>10. ASSUME NEW i \in 1 .. m - 1, i <= Len(s), s[i] \in stayed[c],
              Matches(s[i], type[c])
       PROVE  s[i] \in Returned(c)
  <2>1. ~(i \in k + 1 .. m - 1)
    BY <1>7, <1>10
  <2>2. i \in 1 .. Len(s) /\ (i = k \/ i < k)
    BY <1>5, <1>6, <1>7, <1>10, <2>1
  <2>3. ~(stamp[s[i]] < stamp[p])
    <3>1. stamp[p] \in Nat
      BY <1>3 DEF RegistryOK
    <3> QED
      BY <1>6, <1>8, <2>2, <3>1
  <2> QED
    BY <1>1, <1>3, <1>9, <1>10, <2>3 DEF ClientInv
<1>11. CASE m = Len(s) + 1
  <2>1. After(p, type[c]) = 0
    BY <1>5, <1>7, <1>11 DEF NodeAt
  <2>2. Found(id[c], type[c]) = [err |-> "none", id |-> 0]
    BY <1>2, <2>1 DEF Found, IdOf
  <2>3. /\ id' = [id EXCEPT ![c] = 0] /\ seen' = seen
        /\ result' = [result EXCEPT ![c] = "no_more"]
    BY <2>2 DEF get_next_driver
  <2>4. ASSUME NEW d \in stayed[c], Matches(d, type[c]) PROVE d \in Returned(c)
    <3>1. d \in registered
      BY <1>1, <2>4 DEF ClientInv
    <3>2. PICK i \in 1 .. Len(s) : d = s[i]
      BY <1>5, <3>1 DEF ToSet
    <3>3. i \in 1 .. m - 1 /\ i <= Len(s)
      BY <1>5, <1>11
    <3> QED
      BY <1>10, <2>4, <3>2, <3>3
  <2> QED
    BY <1>1, <2>3, <2>4, NoMoreDrivers
<1>12. CASE m # Len(s) + 1
  <2>1. m \in 1 .. Len(s) /\ k < m
    BY <1>5, <1>6, <1>7, <1>12
  <2>2. PICK e \in Drivers : e = s[m] /\ After(p, type[c]) = e
    BY <1>5, <1>7, <2>1 DEF NodeAt
  <2>3. get_stamp_id(e, stamp[e]) # 0 /\ e # 0
    BY <2>2, StampIdFacts, NoDriverAtNull, DriverAssumption DEF RegistryOK
  <2>4. Found(id[c], type[c]) = [err |-> "none", id |-> get_stamp_id(e, stamp[e])]
    BY <1>2, <2>2, <2>3 DEF Found, IdOf
  <2>5. /\ id' = [id EXCEPT ![c] = get_stamp_id(e, stamp[e])]
        /\ result' = [result EXCEPT ![c] = "none"]
        /\ seen' = [seen EXCEPT ![c] = Append(@, get_stamp_id(e, stamp[e]))]
    BY <2>3, <2>4 DEF get_next_driver
  <2>6. stamp[e] < get_stamp_id_stamp(id[c])
    BY <1>3, <1>6, <1>8, <2>1, <2>2
  <2>7. \A i \in 1 .. m - 1 :
          Chain[i] \in stayed[c] /\ Matches(Chain[i], type[c]) => Chain[i] \in Returned(c)
    <3>1. \A i \in 1 .. m - 1 : i <= Len(s)
      BY <1>5, <2>1
    <3> QED
      BY <1>4, <1>10, <3>1
  <2> QED
    BY <1>1, <1>4, <2>1, <2>2, <2>5, <2>6, <2>7, NextDriver
<1> QED
  BY <1>11, <1>12

LEMMA GetNextStep ==
  ASSUME DriverInv, NEW c \in Client, get_next_driver(c)
  PROVE  DriverInv'
<1>1. RegistryOK' /\ ListInv'
  BY DEF DriverInv, get_next_driver, registry, RegistryOK, ListInv, Chain
<1>2. PICK r : r = Found(id[c], type[c])
  OBVIOUS
<1>3. r.id \in Nat /\ r.err \in {"none", "not_found", "expired"}
  <2>1. id[c] \in Nat
    BY DEF DriverInv, ClientsOK
  <2>2. Lookup(id[c], registered, stamp) \in {"none", "not_found", "expired"}
    BY DEF Lookup
  <2>3. \A d \in Drivers \cup {0} : IdOf(d) \in Nat
    BY StampIdFacts, DriverAssumption DEF IdOf, DriverInv, RegistryOK
  <2>4. tail \in Drivers \cup {0}
    BY DEF DriverInv, ListInv, Linked, NodeAt
  <2>5. ASSUME Lookup(id[c], registered, stamp) = "none"
        PROVE  After(get_stamp_id_ptr(id[c]), type[c]) \in Drivers \cup {0}
    <3>1. PICK s : s = Chain
      OBVIOUS
    <3>2. s \in Seq(Drivers) /\ Linked(Drivers, 0, next, prev, Chain, tail)
          /\ ToSet(s) = registered
      BY <3>1 DEF DriverInv, ListInv, Linked
    <3>3. PICK k \in 1 .. Len(s) : s[k] = get_stamp_id_ptr(id[c])
      BY <2>5, <3>2 DEF Lookup, ToSet
    <3>4. PICK m : After(s[k], type[c]) = NodeAt(s, 0, m)
      BY <3>1, <3>2, AfterFacts
    <3> QED
      BY <3>2, <3>3, <3>4 DEF NodeAt
  <2> QED
    BY <1>2, <2>1, <2>2, <2>3, <2>4, <2>5 DEF Found
<1>4. ClientsOK'
  BY <1>2, <1>3 DEF DriverInv, get_next_driver, ClientsOK
<1>5. ASSUME NEW b \in Client, b # c PROVE ClientInv(b)'
  <2>1. /\ stayed'[b] = stayed[b] /\ seen'[b] = seen[b] /\ id'[b] = id[b]
        /\ result'[b] = result[b] /\ type'[b] = type[b]
        /\ Returned(b)' = Returned(b)
    BY <1>5 DEF get_next_driver, DriverInv, ClientsOK, Returned
  <2> QED
    BY <2>1 DEF get_next_driver, DriverInv, ClientInv, registry
<1>6. ClientInv(c)'
  <2>1. CASE id[c] = 0
    BY <2>1, FirstDriver
  <2>2. CASE id[c] # 0 /\ Lookup(id[c], registered, stamp) = "none"
    BY <2>2, LaterDriver
  <2>3. CASE id[c] # 0 /\ Lookup(id[c], registered, stamp) # "none"
    <3>1. r.err # "none" /\ r.id = id[c] /\ r.err \in {"not_found", "expired"}
      BY <1>2, <1>3, <2>3 DEF Found
    <3>2. /\ seen' = seen /\ result'[c] \in {"not_found", "expired"}
          /\ UNCHANGED <<registry, type, stayed>>
      BY <1>2, <3>1 DEF get_next_driver, DriverInv, ClientsOK
    <3> QED
      BY <3>2 DEF DriverInv, ClientInv, registry
  <2> QED
    BY <2>1, <2>2, <2>3
<1> QED
  BY <1>1, <1>4, <1>5, <1>6 DEF DriverInv
-----------------------------------------------------------------------------
LEMMA DriverInvariant == DriverSpec => []DriverInv
<1>1. DriverInv /\ [DriverNext]_driverVars => DriverInv'
  <2> SUFFICES ASSUME DriverInv, [DriverNext]_driverVars PROVE DriverInv'
    OBVIOUS
  <2>1. CASE UNCHANGED driverVars
    BY <2>1 DEF driverVars, DriverInv, RegistryOK, ListInv, Chain, ClientsOK, ClientInv,
                Returned
  <2>2. CASE DriverNext
    BY <2>2, AddStep, RemoveStep, GetNextStep, StartStep DEF DriverNext
  <2> QED
    BY <2>1, <2>2
<1> QED
  BY <1>1, RegistryInit, PTL DEF DriverSpec

(* add_driver and remove_driver keep the list linked both ways, and on it  *)
(* exactly the drivers whose magic says that they are registered.          *)
THEOREM DriverListLinked == DriverSpec => []ListIsLinked
<1>1. DriverInv => ListIsLinked
  <2> SUFFICES ASSUME DriverInv PROVE ListIsLinked
    OBVIOUS
  <2>1. Linked(Drivers, 0, next, prev, Chain, tail) /\ ToSet(Chain) = registered
    BY DEF DriverInv, ListInv
  <2>2. Len(Chain) = Cardinality(registered)
    BY <2>1, DistinctIsShort, NoDriverAtNull DEF Linked
  <2>3. \A i \in 1 .. Len(Chain) : prev[Chain[i]] = IF i = 1 THEN 0 ELSE Chain[i - 1]
    <3> SUFFICES ASSUME NEW i \in 1 .. Len(Chain)
                 PROVE  prev[Chain[i]] = IF i = 1 THEN 0 ELSE Chain[i - 1]
      OBVIOUS
    <3>1. prev[Chain[i]] = NodeAt(Chain, 0, i - 1) /\ Len(Chain) \in Nat
      BY <2>1 DEF Linked
    <3> QED
      BY <3>1 DEF NodeAt
  <2> QED
    BY <2>1, <2>2, <2>3 DEF ListIsLinked
<1> QED
  BY <1>1, DriverInvariant, PTL

(* Whatever is added and removed meanwhile, an enumeration with            *)
(* get_next_driver never returns an id twice, and one that ends with       *)
(* ERR_NO_MORE has returned every driver of its type that was there all    *)
(* the time.                                                               *)
THEOREM EnumerationIsComplete == DriverSpec => []EnumerationComplete
<1>1. DriverInv => EnumerationComplete
  <2> SUFFICES ASSUME DriverInv, NEW c \in Client
               PROVE  /\ IsInjective(seen[c])
                      /\ result[c] = "no_more" =>
                           {d \in stayed[c] : type[c] \in {-1, TypeOf[d]}}
                             \subseteq {get_stamp_id_ptr(i) : i \in ToSet(seen[c])}
    BY DEF EnumerationComplete
  <2>1. ClientInv(c)
    BY DEF DriverInv
  <2>2. IsInjective(seen[c])
    <3>1. PICK s : s = seen[c]
      OBVIOUS
    <3>2. s \in Seq(Nat \ {0}) /\ DOMAIN s = 1 .. Len(s) /\ Len(s) \in Nat
      BY <2>1, <3>1 DEF ClientInv, Descends
    <3>3. ASSUME NEW i \in 1 .. Len(s), NEW j \in 1 .. Len(s), i < j
          PROVE  s[i] # s[j]
      <4>1. PICK x : x = get_stamp_id_stamp(s[i])
        OBVIOUS
      <4>2. get_stamp_id_stamp(s[j]) < x /\ x \in Int
        BY <2>1, <3>1, <3>3, <4>1 DEF ClientInv, Descends
      <4> QED
        BY <4>1, <4>2
    <3> QED
      BY <3>1, <3>2, <3>3 DEF IsInjective
  <2> QED
    BY <2>1, <2>2 DEF ClientInv, Matches, Returned
<1> QED
  BY <1>1, DriverInvariant, PTL
-----------------------------------------------------------------------------
(* ilock is held from __sleep_in_mutex to the pause, and during            *)
(* __awake_in_mutex.                                                       *)
InnerLock == \A t \in Thread : pc[t] \in {"sleep", "awake"} <=> ilock = t

(* The queue holds every sleeper, once, and nobody but sleepers and        *)
(* threads that were stopped in their sleep; it is empty when mlock is     *)
(* free.                                                                   *)
QueueOK ==
  /\ \A i, j \in DOMAIN queue : queue[i] = queue[j] => i = j
  /\ \A i \in DOMAIN queue : pc[queue[i]] \in {"asleep", "stopped"}
  /\ \A t \in Thread : pc[t] = "asleep" => \E i \in DOMAIN queue : queue[i] = t
  /\ queue # <<>> => mlock

(* Who has handed the mutex over has handed it to a thread that has it,    *)
(* and that cannot finish its own release before ilock is free.            *)
HandedOver ==
  \A t \in Thread : woken[t] =>
    /\ pc[t] = "awake"
    /\ \E u \in Thread : pc[u] \in {"critical", "release"}

(* mlock is busy on behalf of somebody who will release it. *)
BusyIsServed == mlock => Releasing # {}

(* The thread that has the mutex, or still has to pass it on *)
Owns(t) ==
  \/ pc[t] \in {"critical", "release"}
  \/ pc[t] = "awake" /\ ~woken[t]

OneOwner ==
  ~exposed => \A t \in Thread : Owns(t) =>
                mlock /\ \A u \in Thread : Owns(u) => t = u

WakeInv == TypeOK /\ InnerLock /\ QueueOK /\ HandedOver /\ BusyIsServed

ThreadActs(t) ==
  \/ acquire_mutex(t) \/ Stop(t)
  \/ TryTakes(t) \/ TryGivesUp(t)
  \/ SleepLocks(t) \/ SleepTakes(t) \/ SleepPauses(t) \/ SleepFails(t)
  \/ release_mutex(t) \/ ReleaseLocks(t) \/ AwakeNext(t) \/ AwakeEnds(t)

LEMMA MutexActs == Next => History /\ \E t \in Thread : ThreadActs(t)
  BY DEF Next, Step, ThreadActs
-----------------------------------------------------------------------------
(* What remains of a queue when its first node is freed *)
LEMMA QueueTail ==
  ASSUME queue \in Seq(Thread), queue # <<>>
  PROVE  /\ Head(queue) \in Thread /\ Head(queue) = queue[1]
         /\ Tail(queue) \in Seq(Thread)
         /\ Len(queue) >= 1
         /\ Len(Tail(queue)) = Len(queue) - 1
         /\ \A i \in 1 .. Len(queue) - 1 : Tail(queue)[i] = queue[i + 1]
  OBVIOUS

(* What a queue holds when a node is added behind its tail *)
LEMMA QueueAppend ==
  ASSUME queue \in Seq(Thread), NEW t \in Thread
  PROVE  /\ Append(queue, t) \in Seq(Thread)
         /\ Len(Append(queue, t)) = Len(queue) + 1
         /\ \A i \in 1 .. Len(queue) : Append(queue, t)[i] = queue[i]
         /\ Append(queue, t)[Len(queue) + 1] = t
  OBVIOUS

LEMMA MutexInit == Init => WakeInv /\ OneOwner
<1> SUFFICES ASSUME Init PROVE WakeInv /\ OneOwner
  OBVIOUS
<1>1. TypeOK
  <2>1. queue \in Seq(Thread) /\ ilock \in Thread \cup {NULL}
    BY DEF Init
  <2>2. /\ mlock \in BOOLEAN /\ exposed \in BOOLEAN
        /\ pc \in [Thread -> PC] /\ woken \in [Thread -> BOOLEAN]
    BY DEF Init, PC
  <2> QED
    BY <2>1, <2>2 DEF TypeOK
<1>2. InnerLock
  BY MutexAssumption DEF Init, InnerLock
<1>3. QueueOK
  BY DEF Init, QueueOK
<1>4. HandedOver /\ BusyIsServed
  BY DEF Init, HandedOver, BusyIsServed
<1>5. OneOwner
  BY DEF Init, OneOwner, Owns
<1> QED
  BY <1>1, <1>2, <1>3, <1>4, <1>5 DEF WakeInv

(* Every step keeps the variables within their types. *)
LEMMA MutexTypeStep ==
  ASSUME TypeOK, History, NEW t \in Thread, ThreadActs(t)
  PROVE  TypeOK'
<1>1. exposed' \in BOOLEAN
  BY DEF History
<1>2. CASE SleepPauses(t)
  BY <1>1, <1>2, QueueAppend DEF SleepPauses, Go, TypeOK, PC
<1>3. CASE AwakeNext(t)
  BY <1>1, <1>3, QueueTail DEF AwakeNext, TypeOK, PC
<1> QED
  BY <1>1, <1>2, <1>3
  DEF ThreadActs, acquire_mutex, Stop, TryTakes, TryGivesUp, SleepLocks,
      SleepTakes, SleepFails, release_mutex, ReleaseLocks, AwakeEnds, Go,
      TypeOK, PC

(* Every step keeps the queue, the two locks and the sleepers in step. *)
LEMMA WakeStep ==
  ASSUME WakeInv, History, NEW t \in Thread, ThreadActs(t)
  PROVE  WakeInv'
<1> USE DEF WakeInv
<1>0. TypeOK'
  BY MutexTypeStep
<1>1. InnerLock'
  <2>1. CASE AwakeNext(t)
    BY <2>1, QueueTail, MutexAssumption DEF AwakeNext, TypeOK, InnerLock
  <2> QED
    BY <2>1, MutexAssumption
    DEF ThreadActs, acquire_mutex, Stop, TryTakes, TryGivesUp, SleepLocks,
        SleepTakes, SleepPauses, SleepFails, release_mutex, ReleaseLocks,
        AwakeEnds, Go, TypeOK, InnerLock
<1>2. QueueOK'
  <2>1. CASE SleepPauses(t)
    <3>1. DOMAIN queue = 1 .. Len(queue) /\ Len(queue) \in Nat
      BY DEF TypeOK
    <3>2. DOMAIN queue' = 1 .. Len(queue) + 1
      BY <2>1, <3>1, QueueAppend DEF SleepPauses, TypeOK
    <3>3. /\ \A i \in 1 .. Len(queue) : queue'[i] = queue[i]
          /\ queue'[Len(queue) + 1] = t
      BY <2>1, QueueAppend DEF SleepPauses, TypeOK
    <3>4. \A i \in DOMAIN queue : queue[i] # t
      BY <2>1 DEF SleepPauses, QueueOK
    <3>5. /\ pc' = [pc EXCEPT ![t] = "asleep"]
          /\ mlock' = mlock /\ mlock
      BY <2>1 DEF SleepPauses, Go
    <3>6. \A i \in DOMAIN queue : queue[i] \in Thread
      BY DEF TypeOK
    <3>7. \A i, j \in DOMAIN queue' : queue'[i] = queue'[j] => i = j
      BY <3>1, <3>2, <3>3, <3>4 DEF QueueOK
    <3>8. \A i \in DOMAIN queue' : pc'[queue'[i]] \in {"asleep", "stopped"}
      BY <3>1, <3>2, <3>3, <3>4, <3>5, <3>6 DEF QueueOK, TypeOK
    <3>9. ASSUME NEW u \in Thread, pc'[u] = "asleep"
          PROVE  \E i \in DOMAIN queue' : queue'[i] = u
      BY <3>1, <3>2, <3>3, <3>5, <3>9 DEF QueueOK, TypeOK
    <3> QED
      BY <3>5, <3>7, <3>8, <3>9 DEF QueueOK
  <2>2. CASE AwakeNext(t)
    <3> DEFINE w == Head(queue)
    <3>1. /\ queue # <<>> /\ queue' = Tail(queue)
          /\ mlock' = mlock
          /\ pc' = IF pc[w] = "asleep" THEN [pc EXCEPT ![w] = "critical"]
                                       ELSE pc
      BY <2>2 DEF AwakeNext
    <3>2. /\ w \in Thread /\ w = queue[1]
          /\ DOMAIN queue = 1 .. Len(queue) /\ Len(queue) \in Nat
          /\ DOMAIN queue' = 1 .. Len(queue) - 1
          /\ \A i \in DOMAIN queue' : queue'[i] = queue[i + 1]
      BY <3>1, QueueTail DEF TypeOK
    <3>3. \A i \in DOMAIN queue' : i + 1 \in DOMAIN queue /\ queue'[i] # w
      BY <3>2 DEF QueueOK
    <3>4. \A i, j \in DOMAIN queue' : queue'[i] = queue'[j] => i = j
      BY <3>2, <3>3 DEF QueueOK
    <3>5. \A i \in DOMAIN queue' : pc'[queue'[i]] \in {"asleep", "stopped"}
      BY <3>1, <3>2, <3>3 DEF QueueOK, TypeOK
    <3>6. ASSUME NEW u \in Thread, pc'[u] = "asleep"
          PROVE  \E i \in DOMAIN queue' : queue'[i] = u
      <4>1. pc[u] = "asleep" /\ u # w
        BY <3>1, <3>2, <3>6 DEF TypeOK
      <4>2. PICK i \in DOMAIN queue : queue[i] = u
        BY <4>1 DEF QueueOK
      <4>3. i - 1 \in DOMAIN queue' /\ queue'[i - 1] = u
        BY <3>2, <4>1, <4>2
      <4> QED
        BY <4>3
    <3> QED
      BY <3>1, <3>4, <3>5, <3>6 DEF QueueOK
  <2>3. CASE ~SleepPauses(t) /\ ~AwakeNext(t)
    <3>1. queue' = queue /\ (queue # <<>> /\ mlock => mlock')
      BY <2>3
      DEF ThreadActs, acquire_mutex, Stop, TryTakes, TryGivesUp, SleepLocks,
          SleepTakes, SleepFails, release_mutex, ReleaseLocks, AwakeEnds,
          TypeOK
    <3>2. \A u \in Thread :
            /\ pc[u] \in {"asleep", "stopped"} => pc'[u] \in {"asleep", "stopped"}
            /\ pc'[u] = "asleep" => pc[u] = "asleep"
      BY <2>3
      DEF ThreadActs, acquire_mutex, Stop, TryTakes, TryGivesUp, SleepLocks,
          SleepTakes, SleepFails, release_mutex, ReleaseLocks, AwakeEnds, Go,
          TypeOK
    <3>3. \A i \in DOMAIN queue : queue[i] \in Thread
      BY DEF TypeOK
    <3> QED
      BY <3>1, <3>2, <3>3 DEF QueueOK
  <2> QED
    BY <2>1, <2>2, <2>3
<1>3. HandedOver'
  <2>1. CASE AwakeNext(t)
    BY <2>1, QueueTail DEF AwakeNext, TypeOK, HandedOver
  <2>2. CASE ReleaseLocks(t) \/ AwakeEnds(t)
    BY <2>2, MutexAssumption
    DEF ReleaseLocks, AwakeEnds, Go, TypeOK, HandedOver, InnerLock
  <2> QED
    BY <2>1, <2>2
    DEF ThreadActs, acquire_mutex, Stop, TryTakes, TryGivesUp, SleepLocks,
        SleepTakes, SleepPauses, SleepFails, release_mutex, Go, TypeOK,
        HandedOver
<1>4. BusyIsServed'
  <2>1. CASE AwakeNext(t)
    <3>1. pc'[t] = "awake" /\ t \in Thread
      BY <2>1, QueueTail DEF AwakeNext, TypeOK
    <3> QED
      BY <3>1 DEF BusyIsServed, Releasing
  <2>2. CASE AwakeEnds(t)
    <3>1. CASE queue = <<>>
      BY <2>2, <3>1 DEF AwakeEnds, BusyIsServed
    <3>2. CASE queue # <<>>
      BY <2>2, <3>2
      DEF AwakeEnds, Go, TypeOK, BusyIsServed, HandedOver, Releasing
    <3> QED
      BY <3>1, <3>2
  <2> QED
    BY <2>1, <2>2
    DEF ThreadActs, acquire_mutex, Stop, TryTakes, TryGivesUp, SleepLocks,
        SleepTakes, SleepPauses, SleepFails, release_mutex, ReleaseLocks, Go,
        TypeOK, BusyIsServed, Releasing
<1> QED
  BY <1>0, <1>1, <1>2, <1>3, <1>4

(* A step that leaves mlock reliable leaves at most one owner. *)
LEMMA OwnerStep ==
  ASSUME WakeInv, OneOwner, History, NEW t \in Thread, ThreadActs(t)
  PROVE  OneOwner'
<1> USE DEF WakeInv
<1>1. SUFFICES ASSUME ~exposed'
               PROVE  \A u \in Thread : Owns(u)' =>
                        mlock' /\ \A v \in Thread : Owns(v)' => u = v
  BY DEF OneOwner
<1>2. CASE Releasing' = {}
  BY <1>2 DEF Releasing, Owns
<1>3. CASE ~exposed /\ ~WokeTheLast
  <2>1. CASE AwakeNext(t)
    <3>1. Head(queue) \in Thread /\ Head(queue) # t
      BY <2>1, QueueTail DEF AwakeNext, QueueOK, TypeOK
    <3> QED
      BY <1>3, <2>1, <3>1 DEF AwakeNext, OneOwner, Owns, TypeOK
  <2>2. CASE AwakeEnds(t)
    <3>1. pc'[t] = "out" /\ pc[t] = "awake"
      BY <2>2 DEF AwakeEnds, Go, TypeOK
    <3>2. woken[t] => queue # <<>>
      BY <1>3, <3>1 DEF WokeTheLast
    <3> QED
      BY <1>3, <2>2, <3>1, <3>2 DEF AwakeEnds, Go, OneOwner, Owns, TypeOK
  <2>3. CASE ReleaseLocks(t)
    BY <1>3, <2>3 DEF ReleaseLocks, Go, OneOwner, Owns, TypeOK
  <2> QED
    BY <1>3, <2>1, <2>2, <2>3
    DEF ThreadActs, acquire_mutex, Stop, TryTakes, TryGivesUp, SleepLocks,
        SleepTakes, SleepPauses, SleepFails, release_mutex, Go, TypeOK,
        OneOwner, Owns
<1> QED
  BY <1>1, <1>2, <1>3 DEF History

LEMMA MutexInvariant == Spec => [](WakeInv /\ OneOwner)
<1>1. WakeInv /\ OneOwner /\ [Next]_vars => (WakeInv /\ OneOwner)'
  <2>1. ASSUME WakeInv, OneOwner, Next PROVE (WakeInv /\ OneOwner)'
    BY <2>1, MutexActs, WakeStep, OwnerStep
  <2>2. ASSUME WakeInv, OneOwner, UNCHANGED vars
        PROVE  (WakeInv /\ OneOwner)'
    BY <2>2
    DEF vars, WakeInv, TypeOK, InnerLock, QueueOK, HandedOver, BusyIsServed,
        Releasing, OneOwner, Owns
  <2> QED
    BY <2>1, <2>2
<1> QED
  BY MutexInit, <1>1, PTL DEF Spec
-----------------------------------------------------------------------------
(* Every variable of Mutex stays within its type. *)
THEOREM MutexTypeCorrect == Spec => []TypeOK
<1>1. WakeInv => TypeOK
  BY DEF WakeInv
<1> QED
  BY MutexInvariant, <1>1, PTL

(* A sleeper is in the queue exactly once and a thread that is awake has   *)
(* the mutex or is passing it on, whatever is tried, queued, released,     *)
(* stopped or refused a node in between.                                   *)
THEOREM WakeupIsNeverLost == Spec => []NoLostWakeup
<1>1. WakeInv => NoLostWakeup
  <2> SUFFICES ASSUME WakeInv PROVE NoLostWakeup
    OBVIOUS
  <2>1. ASSUME NEW t \in Thread, pc[t] = "asleep"
        PROVE  \E i \in DOMAIN queue :
                 queue[i] = t /\ \A j \in DOMAIN queue : queue[j] = t => j = i
    BY <2>1 DEF WakeInv, QueueOK
  <2>2. (\E t \in Thread : pc[t] = "asleep") => mlock
    BY DEF WakeInv, QueueOK
  <2> QED
    BY <2>1, <2>2 DEF WakeInv, BusyIsServed, NoLostWakeup
<1> QED
  BY MutexInvariant, <1>1, PTL

(* Two threads have the mutex only after __awake_in_mutex released mlock   *)
(* under the last sleeper it woke.                                         *)
THEOREM OneAcquires == Spec => []MutualExclusion
<1>1. OneOwner => MutualExclusion
  BY DEF OneOwner, Owns, MutualExclusion
<1> QED
  BY MutexInvariant, <1>1, PTL
=============================================================================
