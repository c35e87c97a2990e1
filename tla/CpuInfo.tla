------------------------------ MODULE CpuInfo -------------------------------
(***************************************************************************)
(* The processors of the machine as x86_64/cpu_info.c describes them: from *)
(* the instruction CPUID, how many bits of an APIC id number the threads   *)
(* of a core and the cores of a chip; from the MADT, the enabled           *)
(* processors, of which the first MaxCpus are used; from the SRAT, their   *)
(* proximity domains.                                                      *)
(***************************************************************************)
EXTENDS Acpi, FiniteSetsExt

CONSTANTS
  MaxCpus,      \* CONFIG_MAX_CPUS
  QuadBits      \* the bits of a quadword: 64

CPU_VENDOR_UNKNOWN == 0
CPU_VENDOR_INTEL == 1
CPU_VENDOR_AMD == 2

(* The highest bit of value that is set; the instruction leaves its result *)
(* undefined for 0.                                                        *)
bsrq(value) == Max({b \in 0 .. QuadBits - 1 : 2 ^ b <= value})

(* The bits of numbers up to max *)
BitsFor(max) == IF max = 0 THEN 0 ELSE bsrq(max) + 1

Bits(thread, core) == [thread |-> thread, core |-> core]

(* Leaf 0xB gives the bits below the core's and below the chip's number,   *)
(* leaf 4 the highest number of a core in a chip.                          *)
get_thread_core_bits_intel(cpuid) ==
  LET chip == bsrq(cpuid.chip_threads_max - 1) + 1
  IN  IF cpuid.func_max >= 11
      THEN Bits(cpuid.levels[1], cpuid.levels[2] - cpuid.levels[1])
      ELSE IF cpuid.func_max >= 4
      THEN Bits(chip - BitsFor(cpuid.core_index_max), BitsFor(cpuid.core_index_max))
      ELSE Bits(chip, 0)

(* Extended leaf 8 gives the bits of a core's number, or else the highest  *)
(* number.                                                                 *)
get_thread_core_bits_amd(cpuid) ==
  LET chip == bsrq(cpuid.chip_threads_max - 1) + 1
      core == IF cpuid.core_bits # 0 THEN cpuid.core_bits
              ELSE BitsFor(cpuid.core_index_max)
  IN  IF cpuid.ex_func_max >= 8 THEN Bits(chip - core, core) ELSE Bits(0, chip)

get_thread_core_bits(cpuid) ==
  IF cpuid.vendor = CPU_VENDOR_UNKNOWN \/ ~cpuid.multithreading THEN Bits(0, 0)
  ELSE IF cpuid.vendor = CPU_VENDOR_INTEL THEN get_thread_core_bits_intel(cpuid)
  ELSE get_thread_core_bits_amd(cpuid)
-----------------------------------------------------------------------------
(* Faulty variants, each named for what it gets wrong, are kept next to    *)
(* the definition they vary; nothing uses them in the specification.       *)
DomainOf_Disabled(machine, srat, id) ==
  LET own == SelectSeq(EntriesOf(machine, srat, SratSize, ACPI_SRAT_LAPIC_TYPE),
                       LAMBDA e : e.apic_id = id)
      e == Last(own)
  IN  IF own = <<>> THEN 0
      ELSE e.prox_domain0 + e.prox_domain1 * 2 ^ 8 + e.prox_domain2 * 2 ^ 24

(* The domain of the last enabled entry for the id, 0 if there is none *)
DomainOf(machine, srat, id) ==
  LET own == SelectSeq(EntriesOf(machine, srat, SratSize, ACPI_SRAT_LAPIC_TYPE),
                       LAMBDA e : e.enabled /\ e.apic_id = id)
      e == Last(own)
  IN  IF own = <<>> THEN 0
      ELSE e.prox_domain0 + e.prox_domain1 * 2 ^ 8 + e.prox_domain2 * 2 ^ 24

(* The entries that fill_cpu_descs uses, up to the break *)
UsedEntries(machine, madt) ==
  LET enabled == SelectSeq(EntriesOf(machine, madt, MadtSize, ACPI_MADT_LAPIC_TYPE),
                           LAMBDA e : e.enabled)
  IN  SubSeq(enabled, 1, Min({Len(enabled), MaxCpus}))

(* descs of fill_cpu_descs, by index *)
fill_cpu_descs(machine, madt, srat, bits) ==
  LET used == UsedEntries(machine, madt)
  IN  [i \in 0 .. Len(used) - 1 |->
         LET id == used[i + 1].apic_id
         IN  [id |-> id,
              thread |-> id % 2 ^ bits.thread,
              core |-> id \div 2 ^ bits.thread % 2 ^ bits.core,
              chip |-> id \div 2 ^ (bits.thread + bits.core),
              domain |-> DomainOf(machine, srat, id)]]

(* __cpu_indexes, which is zero where nothing was assigned; of two entries *)
(* with one id the later counts                                            *)
CpuIndexes(descs) ==
  [id \in 0 .. 255 |-> LET own == {i \in DOMAIN descs : descs[i].id = id}
                       IN  IF own = {} THEN 0 ELSE Max(own)]
=============================================================================
