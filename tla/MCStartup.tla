----------------------------- MODULE MCStartup ------------------------------
(* Four processors of which the second boots, on machines that differ in   *)
(* one respect each from the first: how the processor describes itself,    *)
(* where the root tables are, whether there is an SRAT, a processor too    *)
(* many, and how fast the timer is.  The kernel's end is such that one of  *)
(* the task segments has other middle bits in its address than the first.  *)
EXTENDS Startup

MCKernelEnd == \h53BFC0

Lapic(id, enabled) ==
  [type |-> 0, length |-> 8, apic_id |-> id, enabled |-> enabled]

Domain(id, enabled, domain) ==
  [type |-> 0, length |-> 16, apic_id |-> id, enabled |-> enabled, domain |-> domain,
   prox_domain0 |-> domain % 2 ^ 8, prox_domain1 |-> domain \div 2 ^ 8 % 2 ^ 16,
   prox_domain2 |-> domain \div 2 ^ 24]

Other(length) == [type |-> 1, length |-> length]

Table(signature, tsize, entries) ==
  LET at[n \in 1 .. Len(entries) + 1] ==
        IF n = 1 THEN tsize ELSE at[n - 1] + entries[n - 1].length
  IN  [signature |-> signature, length |-> at[Len(entries) + 1], tables |-> <<>>,
       entries |-> [o \in {at[n] : n \in 1 .. Len(entries)} |->
                      entries[CHOOSE n \in 1 .. Len(entries) : at[n] = o]]]

Root(signature, size, tables) ==
  [signature |-> signature, length |-> HeaderSize + size * Len(tables),
   tables |-> tables, entries |-> <<>>]

Addr(page) == page * PAGE_SIZE + \h1000

Madt == Table("APIC", MadtSize,
  <<Lapic(4, TRUE), Lapic(6, FALSE), Other(12), Lapic(1, TRUE), Lapic(9, TRUE),
    Lapic(0, TRUE), Other(10)>>)

Srat == Table("SRAT", SratSize,
  <<Domain(1, TRUE, \h2030405), Other(40), Domain(4, FALSE, 7), Domain(9, TRUE, 1)>>)

Tables(apic, rsdt, xsdt) ==
  (Addr(65) :> Root("RSDT", 4, rsdt)) @@ (Addr(66) :> Root("XSDT", 8, xsdt))
    @@ (Addr(67) :> Table("FACP", HeaderSize, <<>>))
    @@ (Addr(68) :> apic) @@ (Addr(69) :> Srat)

All == <<Addr(67), Addr(68), Addr(69)>>

Cpuid(vendor, func_max, ex_func_max, chip_threads_max) ==
  [vendor |-> vendor, func_max |-> func_max, ex_func_max |-> ex_func_max,
   multithreading |-> TRUE, chip_threads_max |-> chip_threads_max,
   levels |-> <<1, 3>>, core_index_max |-> 3, core_bits |-> 0]

First ==
  [ebda |-> [rsdt |-> Addr(65), xsdt |-> Addr(66)], rom |-> <<>>,
   tables |-> Tables(Madt, All, All), madt |-> Addr(68), srat |-> Addr(69),
   cpuid |-> Cpuid(CPU_VENDOR_INTEL, 11, 8, 16), thread_bits |-> 1, core_bits |-> 2,
   bsp_id |-> 1, ticks |-> 31, mem_higher |-> 130048]

(* The processors, with the bits of a thread's and of a core's number *)
With(cpuid, thread_bits, core_bits) ==
  [First EXCEPT !.cpuid = cpuid, !.thread_bits = thread_bits, !.core_bits = core_bits]

Processors ==
  {With(Cpuid(CPU_VENDOR_INTEL, 4, 0, 8), 1, 2),
   With([Cpuid(CPU_VENDOR_INTEL, 4, 0, 2) EXCEPT !.core_index_max = 0], 1, 0),
   With(Cpuid(CPU_VENDOR_INTEL, 2, 0, 2), 1, 0),
   With([Cpuid(CPU_VENDOR_INTEL, 11, 8, 1) EXCEPT !.multithreading = FALSE], 0, 0),
   With(Cpuid(CPU_VENDOR_AMD, 1, 8, 4), 0, 2),
   With([Cpuid(CPU_VENDOR_AMD, 1, 8, 16) EXCEPT !.core_bits = 3], 1, 3),
   With(Cpuid(CPU_VENDOR_AMD, 1, 7, 4), 0, 2),
   With(Cpuid(CPU_VENDOR_UNKNOWN, 11, 8, 16), 0, 0)}

MCMachines ==
  {First} \cup Processors
    \cup {[First EXCEPT !.ticks = t] : t \in {10, 32, 63}}
    \cup {[First EXCEPT !.ebda = <<>>, !.rom = [rsdt |-> Addr(65), xsdt |-> 0]],
          [First EXCEPT !.srat = 0,
             !.tables = Tables(Madt, SubSeq(All, 1, 2), SubSeq(All, 1, 2))],
          [First EXCEPT !.tables = Tables(Table("APIC", MadtSize,
             <<Lapic(2, TRUE), Lapic(1, TRUE), Lapic(3, TRUE), Lapic(5, TRUE),
               Lapic(9, TRUE)>>), All, All)],
          [First EXCEPT !.mem_higher = 7168]}

ASSUME EnoughMemory
=============================================================================
