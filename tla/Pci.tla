-------------------------------- MODULE Pci ---------------------------------
(***************************************************************************)
(* The PCI configuration space as x86_64/pci.c reads it, and the walk of   *)
(* scan_pci over it.  Config gives, for every function that exists, by its *)
(* bus, slot and function numbers, the fields the walk reads; a function   *)
(* that does not exist reads as all ones.                                  *)
(***************************************************************************)
EXTENDS Integers, Sequences, SequencesExt

CONSTANT Config

PCI_TYPE_PCI_TO_PCI_BRIDGE == \h0604
PCI_TYPE_SERIAL_ATA == \h0106

(* The numbers of buses, slots and functions that an address can name *)
ASSUME AddressAssumption ==
  DOMAIN Config \subseteq (0 .. 255) \X (0 .. 31) \X (0 .. 7)

(* A bridge leads to a bus of a higher number.  Without this, as for a     *)
(* bridge that no firmware has configured and whose secondary bus is 0,    *)
(* the recursion of scan_bus does not end.                                 *)
ASSUME PciAssumption ==
  \A a \in DOMAIN Config :
    /\ Config[a].vendor \in 0 .. \hFFFE
    /\ Config[a].type = PCI_TYPE_PCI_TO_PCI_BRIDGE
         => Config[a].secondary \in a[1] + 1 .. 255
-----------------------------------------------------------------------------
get_pci_bus(device) == device \div 2 ^ 16 % 2 ^ 8
get_pci_slot(device) == device \div 2 ^ 8 % 2 ^ 8
get_pci_func(device) == device % 2 ^ 8

get_pci_device(bus, slot, func) == bus * 2 ^ 16 + slot * 2 ^ 8 + func

(* The address written to the port, without its enable bit and register *)
get_addr(device) ==
  get_pci_bus(device) * 2 ^ 16 + get_pci_slot(device) * 2 ^ 11
    + get_pci_func(device) * 2 ^ 8

(* The function that the host bridge selects for an address: 8, 5 and 3    *)
(* bits of it                                                              *)
Selected(addr) ==
  <<addr \div 2 ^ 16 % 2 ^ 8, addr \div 2 ^ 11 % 2 ^ 5, addr \div 2 ^ 8 % 2 ^ 3>>

AllOnes == [vendor |-> \hFFFF, type |-> \hFFFF, multiple |-> TRUE,
            secondary |-> \hFF, pi |-> {}]

(* The fields of a device, each by its name *)
read_pci_field(device) ==
  LET a == Selected(get_addr(device))
  IN  IF a \in DOMAIN Config THEN Config[a] ELSE AllOnes

Exists(device) == read_pci_field(device).vendor # \hFFFF
-----------------------------------------------------------------------------
(* What scan_func calls proc with, given the results below for the buses *)
scan_func(type, bus, slot, func, below) ==
  LET dev == get_pci_device(bus, slot, func)
      is == read_pci_field(dev).type
  IN  (IF type = -1 \/ type = is THEN <<dev>> ELSE <<>>)
        \o (IF is = PCI_TYPE_PCI_TO_PCI_BRIDGE
            THEN below[read_pci_field(dev).secondary] ELSE <<>>)

scan_slot(type, bus, slot, below) ==
  IF ~Exists(get_pci_device(bus, slot, 0)) THEN <<>>
  ELSE scan_func(type, bus, slot, 0, below) \o
       (IF ~read_pci_field(get_pci_device(bus, slot, 0)).multiple THEN <<>>
        ELSE FlattenSeq([func \in 1 .. 7 |->
               IF Exists(get_pci_device(bus, slot, func))
               THEN scan_func(type, bus, slot, func, below) ELSE <<>>]))

scan_bus(type) ==
  LET scan[bus \in 0 .. 255] ==
        FlattenSeq([i \in 1 .. 32 |-> scan_slot(type, bus, i - 1, scan)])
  IN  scan

(* The devices proc is called with, in order.  The functions of device 0   *)
(* after the first, up to one that is missing, are other host bridges, and *)
(* their numbers those of their buses.                                     *)
scan_pci(type) ==
  LET missing == {func \in 1 .. 7 : ~Exists(get_pci_device(0, 0, func))}
  IN  scan_bus(type)[0] \o
      (IF ~read_pci_field(0).multiple THEN <<>>
       ELSE FlattenSeq([func \in 1 .. 7 |->
              IF \E m \in missing : m <= func THEN <<>>
              ELSE scan_bus(type)[func]]))
=============================================================================
