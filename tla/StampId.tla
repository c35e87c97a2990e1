------------------------------ MODULE StampId -------------------------------
(***************************************************************************)
(* Ids of stamp_id.h: the address of a structure in the low bits and, in   *)
(* the STAMP_ID_STAMP_BITS high ones, the stamp the structure got when it  *)
(* was registered, so that an id outlives neither a removal nor a second   *)
(* registration at the same address.  Addresses are below 2^PtrBits.       *)
(***************************************************************************)
EXTENDS Integers

CONSTANTS
  PtrBits,     \* 52 in the code
  StampBits    \* STAMP_ID_STAMP_BITS, 12 in the code

ASSUME StampIdAssumption == PtrBits \in Nat \ {0} /\ StampBits \in Nat \ {0}

Stamps == 0 .. 2 ^ StampBits - 1
Pointers == 1 .. 2 ^ PtrBits - 1

get_stamp_id(ptr, stamp) == ptr + stamp * 2 ^ PtrBits

get_stamp_id_ptr(id) == id % 2 ^ PtrBits

get_stamp_id_stamp(id) == id \div 2 ^ PtrBits

(* The value of *global_stamp after assign_stamp_id_stamp, which hands the *)
(* value before to the structure.                                          *)
NextStamp(global) == (global + 1) % 2 ^ StampBits

(* WITH_STAMP_ID: the error for an id, given which structures have their   *)
(* magic and which stamp each has                                          *)
Lookup(id, registered, stamp) ==
  IF get_stamp_id_ptr(id) \notin registered THEN "not_found"
  ELSE IF stamp[get_stamp_id_ptr(id)] # get_stamp_id_stamp(id) THEN "expired"
  ELSE "none"
=============================================================================
