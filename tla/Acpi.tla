-------------------------------- MODULE Acpi --------------------------------
(***************************************************************************)
(* The firmware's tables as x86_64/acpi.c reads them.  A table has an      *)
(* address, a signature and a length; the two root tables list addresses   *)
(* of tables, and the others hold entries, by their distance in bytes from *)
(* the start of the table.  Table 0 is NULL.  A page that is not mapped    *)
(* cannot be read.                                                         *)
(***************************************************************************)
EXTENDS Integers, Sequences, SequencesExt

PAGE_SIZE == 2 ^ 21

PageOf(addr) == addr \div PAGE_SIZE

HeaderSize == 36           \* sizeof(struct acpi_header)
MadtSize == 44             \* sizeof(struct acpi_madt)
SratSize == 48             \* sizeof(struct acpi_srat)
ACPI_MADT_LAPIC_TYPE == 0
ACPI_SRAT_LAPIC_TYPE == 0

(* The pages of tables *)
PagesOf(machine, addrs) ==
  UNION {PageOf(a) .. PageOf(a + machine.tables[a].length - 1) : a \in addrs \ {0}}

(* The RSDP in the EBDA, or the one in the BIOS ROM *)
rsdp(machine) == IF "rsdt" \in DOMAIN machine.ebda THEN machine.ebda ELSE machine.rom

(* What the firmware has to guarantee, as nothing in acpi.c tests it: there *)
(* is an RSDP, and it leads to an RSDT; the addresses in a root table are  *)
(* those of tables; no table begins in one page and ends in another, for   *)
(* only the first would be mapped; and an entry's length is that of an     *)
(* entry, as a length of 0 is followed for ever.                           *)
GoodFirmware(machine) ==
  /\ rsdp(machine).rsdt \in DOMAIN machine.tables
  /\ rsdp(machine).xsdt \in (DOMAIN machine.tables) \cup {0}
  /\ \A addr \in DOMAIN machine.tables :
       LET t == machine.tables[addr]
       IN  /\ addr > 0 /\ PageOf(addr) = PageOf(addr + t.length - 1)
           /\ ToSet(t.tables) \subseteq DOMAIN machine.tables
           /\ \A o \in DOMAIN t.entries :
                /\ t.entries[o].length > 0
                /\ o + t.entries[o].length \in (DOMAIN t.entries) \cup {t.length}
-----------------------------------------------------------------------------
(* The tables that a root table lists, when an address has 2^shift bytes *)
Listed(machine, root, shift) ==
  IF root = 0 THEN <<>>
  ELSE LET t == machine.tables[root]
       IN  SubSeq(t.tables, 1, (t.length - HeaderSize) \div 2 ^ shift)

(* The pages that are mapped afterwards.  An entry of the XSDT has 8 bytes, *)
(* but the shift by 4 counts every 16 bytes of it.                         *)
init_root_tables(machine, mapped) ==
  LET r == rsdp(machine)
  IN  mapped \cup {PageOf(addr) :
                     addr \in {r.rsdt, r.xsdt} \cup ToSet(Listed(machine, r.rsdt, 2))
                                \cup ToSet(Listed(machine, r.xsdt, 4))}

(* The first table of the RSDT with the signature, or NULL *)
find_psdt_table(machine, signature) ==
  LET found == SelectSeq(Listed(machine, rsdp(machine).rsdt, 2),
                         LAMBDA a : machine.tables[a].signature = signature)
  IN  IF found = <<>> THEN 0 ELSE Head(found)

(* The place where get_next_acpi_entry leaves its pointer: that of the     *)
(* next entry of the type after entry, or the first when entry is 0; it is *)
(* beyond the table when there are no more.                                *)
get_next_acpi_entry(table, tsize, entry, type) ==
  LET next[o \in Nat] ==
        IF o >= table.length \/ table.entries[o].type = type THEN o
        ELSE next[o + table.entries[o].length]
  IN  next[IF entry = 0 THEN tsize ELSE entry + table.entries[entry].length]

(* The entries that a loop over get_next_acpi_entry is given *)
EntriesOf(machine, addr, tsize, type) ==
  LET table == machine.tables[addr]
      after[entry \in Nat] ==
        LET o == get_next_acpi_entry(table, tsize, entry, type)
        IN  IF o >= table.length THEN <<>> ELSE <<table.entries[o]>> \o after[o]
  IN  IF addr = 0 THEN <<>> ELSE after[0]
=============================================================================
