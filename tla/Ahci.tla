-------------------------------- MODULE Ahci --------------------------------
(***************************************************************************)
(* The drive table of x86_64/ahci.c: scan_devices visits every port of     *)
(* every controller twice, first to find out which known drives are still  *)
(* there, then, after the others have been removed, to add the new ones;   *)
(* clients enumerate the table meanwhile.  Drives may be attached and      *)
(* removed at any time, also between the two visits of a port.             *)
(*                                                                         *)
(* A place is a controller's PCI address and the number of a port that it  *)
(* implements; what decides in scan_next_hba whether a drive is present is *)
(* the set attached.  The table keeps a place in signed bit fields of 24   *)
(* and 5 bits.  A slot's address is its index plus one.                    *)
(***************************************************************************)
EXTENDS StampId, Pci, FiniteSets

CONSTANTS
  MaxDrives,   \* MAX_DRIVES
  MaxAdds      \* bound: how often drives are added

ASSUME AhciAssumption ==
  /\ \A a \in DOMAIN Config : Config[a].pi \subseteq 0 .. 31
  /\ MaxDrives \in Nat \ {0} /\ MaxDrives \in Pointers
  /\ MaxAdds \in Stamps

VARIABLES
  drives,      \* the table
  stamp,       \* the static variable stamp
  attached,    \* the places where a drive is present
  phase, pos,  \* the phase of scan_devices, and the place it has got to
  scan_error,
  unchanged,   \* no drive came or went since the scan began
  kept,        \* the drives whose place in the table is their own and that stayed
  id, result,  \* a client's *id, and what get_next_device returned
  seen, stayed \* what it was given, and the drives in use all the time

client == <<id, result, seen>>
ahciVars == <<drives, stamp, attached, phase, pos, scan_error, unchanged, kept,
              id, result, seen, stayed>>

Slot == 0 .. MaxDrives - 1

(* The ports there are *)
Place ==
  UNION {[device : {get_pci_device(a[1], a[2], a[3])}, port : Config[a].pi] :
           a \in {b \in DOMAIN Config : Config[b].type = PCI_TYPE_SERIAL_ATA}}

(* The implemented ports of a controller, in order *)
scan_next_hba(device) ==
  LET pi == SetToSortSeq(read_pci_field(device).pi, <)
  IN  [n \in DOMAIN pi |-> [device |-> device, port |-> pi[n]]]

(* The places in the order in which scan_pci(scan_next_hba) visits them *)
Places ==
  LET hbas == scan_pci(PCI_TYPE_SERIAL_ATA)
  IN  FlattenSeq([n \in DOMAIN hbas |-> scan_next_hba(hbas[n])])

(* The walk ends, and it reaches every controller; both depend on how the  *)
(* firmware has set the bridges up.                                        *)
WalkEnds == Places \in Seq(Place)
WalkReachesAll == \A p \in Place : \E n \in DOMAIN Places : Places[n] = p

(* What an int bit field of w bits holds after x was assigned to it *)
Signed(x, w) ==
  LET low == x % 2 ^ w IN IF low < 2 ^ (w - 1) THEN low ELSE low - 2 ^ w

Stored(p) == [device |-> Signed(p.device, 24), port |-> Signed(p.port, 5)]

InUse == {i \in Slot : drives[i].in_use}
Registered == {i + 1 : i \in {j \in Slot : drives[j].magic}}
StampOf == [a \in {i + 1 : i \in Slot} |-> drives[a - 1].stamp]
IdOf(i) == get_stamp_id(i + 1, drives[i].stamp)
PlaceOf(i) == [device |-> drives[i].device, port |-> drives[i].port]

AhciInit ==
  /\ drives = [i \in Slot |-> [magic |-> FALSE, stamp |-> 0, in_use |-> FALSE,
                               scanned |-> FALSE, device |-> 0, port |-> 0,
                               used |-> FALSE]]
  /\ stamp = 0
  /\ attached \in SUBSET Place
  /\ phase = "idle" /\ pos = 0 /\ scan_error = "none"
  /\ unchanged = TRUE /\ kept = {}
  /\ id = 0 /\ result = "none" /\ seen = <<>> /\ stayed = {}
-----------------------------------------------------------------------------
(* scan_devices up to its first visit of the ports *)
ScanBegin ==
  /\ phase = "idle"
  /\ drives' = [i \in Slot |-> [drives[i] EXCEPT
                  !.scanned = IF drives[i].in_use THEN FALSE ELSE @]]
  /\ scan_error' = "none"
  /\ phase' = "mark" /\ pos' = 1
  /\ unchanged' = TRUE
  /\ kept' = {IdOf(i) : i \in {j \in InUse : PlaceOf(j) \in attached}}
  /\ UNCHANGED <<stamp, attached, client, stayed>>

(* Another caller of scan_devices, whose acquire_mutex has no memory to    *)
(* wait with: it writes scan_error all the same, while the scan goes on.   *)
(* (What a step below writes to scan_error after it has tested it only     *)
(* hides such a caller, as if it came no more.)                            *)
ScanRefused ==
  /\ phase # "idle"
  /\ scan_error' = "memory"
  /\ UNCHANGED <<drives, stamp, attached, phase, pos, unchanged, kept, client, stayed>>

(* The drive of a place, by the comparison scan_next_drive makes: the      *)
(* stored fields with the place's own numbers                              *)
Known(p) == {i \in InUse : PlaceOf(i) = p}

(* Faulty variants, each named for what it gets wrong, are kept next to    *)
(* the definition they vary; nothing uses them in the specification.       *)
Mark_Nothing(p) == UNCHANGED drives

Mark(p) ==
  drives' = IF Known(p) = {} THEN drives
            ELSE [drives EXCEPT ![Min(Known(p))].scanned = TRUE]

VisitToMark ==
  /\ phase = "mark" /\ pos <= Len(Places)
  /\ IF Places[pos] \in attached /\ scan_error = "none"
     THEN Mark(Places[pos]) ELSE UNCHANGED drives
  /\ pos' = pos + 1
  /\ UNCHANGED <<stamp, attached, phase, scan_error, unchanged, kept, client, stayed>>

Removed_LastStays ==
  [i \in Slot |-> [drives[i] EXCEPT
     !.in_use = @ /\ (drives[i].scanned \/ i = MaxDrives - 1)]]

(* remove_drive for every drive that was not found again.  The magic it    *)
(* clears is that of the first slot.                                       *)
Removed ==
  LET gone == {i \in InUse : ~drives[i].scanned}
  IN  [i \in Slot |-> [drives[i] EXCEPT
         !.magic = IF i = 0 /\ gone # {} THEN FALSE ELSE @,
         !.in_use = IF i \in gone THEN FALSE ELSE @]]

RemoveDrives ==
  /\ phase = "mark" /\ pos > Len(Places) /\ scan_error = "none"
  /\ drives' = Removed
  /\ stayed' = {i \in stayed : drives'[i].in_use}
  /\ phase' = "add" /\ pos' = 1
  /\ UNCHANGED <<stamp, attached, scan_error, unchanged, kept, client>>

(* What create_mutex may return by its type; create_mem_pool never fails. *)
create_mutex == {"none", "memory"}

(* add_drive, into the first slot that is free, whose lock is made when    *)
(* the slot is first used                                                  *)
AddDrive(p) ==
  LET free == Slot \ InUse
  IN  IF free = {}
      THEN scan_error' = "no_more" /\ UNCHANGED <<drives, stamp>>
      ELSE /\ stamp < MaxAdds
           /\ scan_error' \in IF drives[Min(free)].used THEN {scan_error} ELSE create_mutex
           /\ drives' = [drives EXCEPT ![Min(free)] =
                [magic |-> TRUE, stamp |-> stamp, in_use |-> TRUE, scanned |-> @.scanned,
                 device |-> Stored(p).device, port |-> Stored(p).port,
                 used |-> IF scan_error' = "none" THEN TRUE ELSE @.used]]
           /\ stamp' = NextStamp(stamp)

(* The second visit: scan_next_drive with scan_add_drives.  After an error *)
(* the remaining places are passed over.                                   *)
VisitToAdd ==
  LET p == Places[pos]
  IN  /\ phase = "add" /\ pos <= Len(Places)
      /\ IF p \notin attached \/ scan_error # "none"
         THEN UNCHANGED <<drives, stamp, scan_error>>
         ELSE IF Known(p) # {}
              THEN Mark(p) /\ UNCHANGED <<stamp, scan_error>>
              ELSE AddDrive(p)
      /\ pos' = pos + 1
      /\ UNCHANGED <<attached, phase, unchanged, kept, client, stayed>>

(* The end of the second walk, or of the first when there was an error *)
ScanDone ==
  /\ phase = "add" \/ (phase = "mark" /\ scan_error # "none")
  /\ pos > Len(Places)
  /\ phase' = "done"
  /\ UNCHANGED <<drives, stamp, attached, pos, scan_error, unchanged, kept,
                 client, stayed>>

ScanEnd ==
  /\ phase = "done"
  /\ phase' = "idle"
  /\ UNCHANGED <<drives, stamp, attached, pos, scan_error, unchanged, kept,
                 client, stayed>>
-----------------------------------------------------------------------------
(* A drive is attached or taken away. *)
Plug(p) ==
  /\ p \notin attached
  /\ attached' = attached \cup {p}
  /\ unchanged' = FALSE
  /\ UNCHANGED <<drives, stamp, phase, pos, scan_error, kept, client, stayed>>

Unplug(p) ==
  /\ p \in attached
  /\ attached' = attached \ {p}
  /\ unchanged' = FALSE
  /\ kept' = {k \in kept : PlaceOf(get_stamp_id_ptr(k) - 1) # p}
  /\ UNCHANGED <<drives, stamp, phase, pos, scan_error, client, stayed>>
-----------------------------------------------------------------------------
SearchFrom_Same(err) ==
  IF id = 0 \/ err # "none" THEN 0 ELSE get_stamp_id_ptr(id) - 1

(* The slot after the one the id names *)
SearchFrom(err) ==
  IF id = 0 \/ err # "none" THEN 0 ELSE get_stamp_id_ptr(id) - 1 + 1

(* get_next_device, which waits for the lock that a scan holds throughout. *)
(* The search goes on from the start when the id is not accepted; the      *)
(* error is returned all the same.                                         *)
get_next_device ==
  LET err == IF id = 0 THEN "none" ELSE Lookup(id, Registered, StampOf)
      found == {i \in InUse : i >= SearchFrom(err)}
  IN  /\ phase = "idle" /\ result = "none"
      /\ IF found = {}
         THEN result' = "no_more" /\ UNCHANGED <<id, seen>>
         ELSE /\ id' = IdOf(Min(found))
              /\ result' = err
              /\ seen' = IF err = "none" THEN Append(seen, id') ELSE seen
      /\ UNCHANGED <<drives, stamp, attached, phase, pos, scan_error, unchanged,
                     kept, stayed>>

(* A client starts an enumeration, at first or over again. *)
Start ==
  /\ phase = "idle"
  /\ result # "none" \/ seen = <<>>
  /\ id' = 0 /\ result' = "none" /\ seen' = <<>>
  /\ stayed' = InUse
  /\ UNCHANGED <<drives, stamp, attached, phase, pos, scan_error, unchanged, kept>>

AhciNext ==
  \/ ScanBegin \/ ScanRefused \/ VisitToMark \/ RemoveDrives \/ VisitToAdd
  \/ ScanDone \/ ScanEnd
  \/ \E p \in Place : Plug(p) \/ Unplug(p)
  \/ get_next_device \/ Start

AhciSpec == AhciInit /\ [][AhciNext]_ahciVars
-----------------------------------------------------------------------------
(* After a scan without an error, during which nothing was plugged, the    *)
(* table holds the attached drives of all controllers of the machine, each *)
(* once, although the walk over the buses may visit a place twice.  (One   *)
(* that is visited twice and that its bit fields do not hold is added      *)
(* twice.)                                                                 *)
ScanIsExact ==
  phase = "done" /\ scan_error = "none" /\ unchanged =>
    /\ {PlaceOf(i) : i \in InUse} = {Stored(p) : p \in attached}
    /\ \A p \in attached :
         Stored(p) = p \/ Cardinality({n \in DOMAIN Places : Places[n] = p}) = 1
           => Cardinality({i \in InUse : PlaceOf(i) = Stored(p)}) = 1

(* A drive that is there all the time is not removed by a scan, so that    *)
(* the ids that clients hold of it stay the same, provided that its place  *)
(* is the one its bit fields hold: every scan removes a drive on a port    *)
(* from 16 on and adds it anew.  In particular a scan that another caller  *)
(* upsets by its error does not take what it did not visit for gone.       *)
DrivesAreKept ==
  phase = "done" => \A k \in kept : \E i \in InUse : IdOf(i) = k

(* An enumeration never returns a device twice, and when it ends with      *)
(* ERR_NO_MORE it has returned every drive that was in use all the time.   *)
DevicesEnumerated ==
  /\ IsInjective(seen)
  /\ result = "no_more" => stayed \subseteq {get_stamp_id_ptr(i) - 1 : i \in ToSet(seen)}

(* driver.h on get_next_device: "returns ERR_EXPIRED in case of need to    *)
(* restart enumeration".  There is no need while the drive of the id is    *)
(* in use, so that its id is accepted.                                     *)
UsedIsFound ==
  \A i \in InUse : Lookup(IdOf(i), Registered, StampOf) = "none"
=============================================================================
