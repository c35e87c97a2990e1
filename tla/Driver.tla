------------------------------- MODULE Driver -------------------------------
(***************************************************************************)
(* The driver registry of driver.c: a doubly linked list of drivers, which *)
(* clients enumerate by ids while drivers are added and removed.  Every    *)
(* function is one step, the one under the registry's mutex.  A driver's   *)
(* owner adds and removes it from one place.                               *)
(*                                                                         *)
(* A driver is its address; 0 is the null pointer, and as an id the start  *)
(* of an enumeration.  Adding to an empty list also writes through the     *)
(* null pointer tail, to memory that is mapped and belongs to nobody.      *)
(***************************************************************************)
EXTENDS StampId, LinkedList, SequencesExt

CONSTANTS
  Drivers,    \* the struct driver structures
  TypeOf,     \* driver->type
  Client,
  MaxAdds     \* bound: how often drivers are added

ASSUME DriverAssumption ==
  /\ Drivers \subseteq Pointers /\ IsFiniteSet(Drivers)
  /\ TypeOf \in [Drivers -> Nat]
  /\ MaxAdds \in Stamps

VARIABLES
  registered,   \* the drivers with DRIVER_MAGIC
  next, prev,   \* driver->next and driver->prev
  stamp,        \* driver->stamp
  global,       \* the static variables stamp
  tail,         \*   and tail
  id, type,     \* a client's *id, and the type it asks for; -1 is any
  result,       \* what get_next_driver returned last
  seen,         \* the ids a client's enumeration has returned
  stayed        \* the drivers that have been registered throughout it

registry == <<registered, next, prev, stamp, global, tail>>
clients == <<id, type, result, seen>>
driverVars == <<registered, next, prev, stamp, global, tail,
                id, type, result, seen, stayed>>

Types == {TypeOf[d] : d \in Drivers} \cup {-1}

DriverInit ==
  /\ registered = {}
  /\ next = [d \in Drivers |-> 0] /\ prev = [d \in Drivers |-> 0]
  /\ stamp = [d \in Drivers |-> 0]
  /\ global = 0 /\ tail = 0
  /\ id = [c \in Client |-> 0] /\ type = [c \in Client |-> -1]
  /\ result = [c \in Client |-> "none"]
  /\ seen = [c \in Client |-> <<>>]
  /\ stayed = [c \in Client |-> {}]
-----------------------------------------------------------------------------
Set(field, ptr, value) ==
  IF ptr = 0 THEN field ELSE [field EXCEPT ![ptr] = value]

add_driver(d) ==
  /\ global < MaxAdds
  /\ d \notin registered
  /\ registered' = registered \cup {d}
  /\ stamp' = [stamp EXCEPT ![d] = global]
  /\ global' = NextStamp(global)
  /\ next' = [next EXCEPT ![d] = tail]
  /\ prev' = Set([prev EXCEPT ![d] = 0], tail, d)
  /\ tail' = d
  /\ UNCHANGED <<clients, stayed>>

(* Faulty variants, each named for what it gets wrong, are kept next to    *)
(* the definition they vary; nothing uses them in the specification.       *)
remove_driver_NoBackLink(d) ==
  /\ registered' = registered \ {d}
  /\ stayed' = [c \in Client |-> stayed[c] \ {d}]
  /\ d \in registered
  /\ next' = Set(next, prev[d], next[d])
  /\ tail' = IF tail = d THEN next[d] ELSE tail
  /\ UNCHANGED <<clients, prev, stamp, global>>

(* By the id the driver was added under *)
remove_driver(d) ==
  /\ Lookup(get_stamp_id(d, stamp[d]), registered, stamp) = "none"
  /\ next' = Set(next, prev[d], next[d])
  /\ prev' = Set(prev, next[d], prev[d])
  /\ tail' = IF tail = d THEN next[tail] ELSE tail
  /\ registered' = registered \ {d}
  /\ stayed' = [c \in Client |-> stayed[c] \ {d}]
  /\ UNCHANGED <<clients, stamp, global>>
-----------------------------------------------------------------------------
(* The first driver after d, over next, of the type asked for *)
After(d, wanted) ==
  LET rest == Walk(Drivers, 0, next, next[d])
      i == SelectInSeq(rest, LAMBDA e : wanted \in {-1, TypeOf[e]})
  IN  IF i = 0 THEN 0 ELSE rest[i]

IdOf(d) == IF d = 0 THEN 0 ELSE get_stamp_id(d, stamp[d])

Found_AnyStamp(i, wanted) ==
  IF i = 0 THEN [err |-> "none", id |-> IdOf(tail)]
  ELSE IF get_stamp_id_ptr(i) \notin registered
       THEN [err |-> "not_found", id |-> i]
       ELSE [err |-> "none", id |-> IdOf(After(get_stamp_id_ptr(i), wanted))]

(* What *id and the return value are after the call *)
Found(i, wanted) ==
  IF i = 0 THEN [err |-> "none", id |-> IdOf(tail)]
  ELSE LET err == Lookup(i, registered, stamp)
       IN  IF err # "none" THEN [err |-> err, id |-> i]
           ELSE [err |-> "none", id |-> IdOf(After(get_stamp_id_ptr(i), wanted))]

get_next_driver(c) ==
  LET r == Found(id[c], type[c])
  IN  /\ result[c] = "none"
      /\ id' = [id EXCEPT ![c] = r.id]
      /\ result' = [result EXCEPT ![c] =
           IF r.err = "none" /\ r.id = 0 THEN "no_more" ELSE r.err]
      /\ seen' = IF r.err = "none" /\ r.id # 0
                 THEN [seen EXCEPT ![c] = Append(@, r.id)] ELSE seen
      /\ UNCHANGED <<registry, type, stayed>>

(* A client starts an enumeration, at first or over again. *)
Start(c, wanted) ==
  /\ result[c] # "none" \/ seen[c] = <<>>
  /\ id' = [id EXCEPT ![c] = 0]
  /\ type' = [type EXCEPT ![c] = wanted]
  /\ result' = [result EXCEPT ![c] = "none"]
  /\ seen' = [seen EXCEPT ![c] = <<>>]
  /\ stayed' = [stayed EXCEPT ![c] = registered]
  /\ UNCHANGED registry

DriverNext ==
  \/ \E d \in Drivers : add_driver(d) \/ remove_driver(d)
  \/ \E c \in Client : get_next_driver(c) \/ \E w \in Types : Start(c, w)

DriverSpec == DriverInit /\ [][DriverNext]_driverVars
-----------------------------------------------------------------------------
Chain == Walk(Drivers, 0, next, tail)

(* The list from tail on is doubly linked and holds exactly the drivers    *)
(* whose magic says that they are registered, each once.                   *)
ListIsLinked ==
  /\ Len(Chain) = Cardinality(registered)
  /\ ToSet(Chain) = registered
  /\ \A i \in 1 .. Len(Chain) :
       prev[Chain[i]] = IF i = 1 THEN 0 ELSE Chain[i - 1]

(* Whatever is added and removed meanwhile, an enumeration never returns   *)
(* an id twice, and one that ends with ERR_NO_MORE has returned every      *)
(* driver of its type that was there from beginning to end.                *)
EnumerationComplete ==
  \A c \in Client :
    /\ IsInjective(seen[c])
    /\ result[c] = "no_more" =>
         {d \in stayed[c] : type[c] \in {-1, TypeOf[d]}}
           \subseteq {get_stamp_id_ptr(i) : i \in ToSet(seen[c])}

(* driver.h on get_next_driver: "ignores driver type if it is equal to -1" *)
(* (and only then).                                                        *)
TypeRespected ==
  \A c \in Client : type[c] # -1 =>
    \A i \in ToSet(seen[c]) : TypeOf[get_stamp_id_ptr(i)] = type[c]

(* driver.h: "returns ERR_EXPIRED in case of need to restart enumeration". *)
RestartIsExpired == \A c \in Client : result[c] \in {"none", "no_more", "expired"}
=============================================================================
