------------------------------- MODULE MCAhci -------------------------------
(* Three ports and a table of two drives: the first port, the last that a  *)
(* signed field of 5 bits can hold, and the one after it.  The host bridge *)
(* has a second function, so that bus 1, which a bridge leads to as well,  *)
(* is walked twice; one controller is a function other than the first of a *)
(* slot of it, the other is behind two bridges, the first of them in the   *)
(* last slot.  A third device's class is neither of the two.               *)
EXTENDS Ahci

Device(type, multiple, secondary, pi) ==
  [vendor |-> \h8086, type |-> type, multiple |-> multiple,
   secondary |-> secondary, pi |-> pi]

Bridge(secondary) == Device(PCI_TYPE_PCI_TO_PCI_BRIDGE, FALSE, secondary, {})

MCConfig ==
  (<<0, 0, 0>> :> Device(\h0600, TRUE, 0, {}))
    @@ (<<0, 0, 1>> :> Device(\h0600, TRUE, 0, {}))
    @@ (<<0, 1, 0>> :> Bridge(1))
    @@ (<<0, 31, 0>> :> Bridge(2))
    @@ (<<1, 1, 0>> :> Device(\h0200, TRUE, 0, {}))
    @@ (<<1, 1, 2>> :> Device(PCI_TYPE_SERIAL_ATA, TRUE, 0, {0, 15}))
    @@ (<<2, 0, 0>> :> Bridge(4))
    @@ (<<4, 3, 0>> :> Device(PCI_TYPE_SERIAL_ATA, FALSE, 0, {16}))

ASSUME WalkEnds /\ WalkReachesAll
=============================================================================
