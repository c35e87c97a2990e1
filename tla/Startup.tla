------------------------------ MODULE Startup -------------------------------
(***************************************************************************)
(* boot64 as a whole: what it finds out and sets up on the boot processor  *)
(* before it starts the others (ACPI tables, processors, memory, interrupt *)
(* tables, APIC timer), and then the steps of Boot with what they do to    *)
(* these.  The other processor a of Boot is the one whose APIC id is in    *)
(* descs[a], as start_ap_cpu sends its messages there; it finds out its    *)
(* own number from its id.                                                 *)
(*                                                                         *)
(* The APIC timer's register has RegBits bits, 32 in the code; intervals   *)
(* are in microseconds.                                                    *)
(***************************************************************************)
EXTENDS Boot, CpuInfo

CONSTANTS
  Machines,       \* what the program may be started on
  KernelEnd,      \* CONFIG_KERNEL_ADDR + __lds_kernel_size
  ThreadSize,     \* sizeof(struct thread_data)
  RegBits         \* the bits of LAPIC_TIMER_INITIAL_REG

(* The processor has one of the ways to describe itself that cpu_info.c    *)
(* knows, with at least two threads to a chip where it says that there may *)
(* be more than one; the boot processor is among those used; and the timer *)
(* counts at least once per tick of the scheduler.                         *)
ASSUME StartupAssumption ==
  /\ MaxCpus \in Nat \ {0}
  /\ KernelEnd \in Nat /\ KernelEnd > 2 ^ 20 /\ ThreadSize \in Nat
  /\ RegBits \in Nat /\ QuadBits \in Nat /\ RegBits < QuadBits
  /\ \A m \in Machines :
       /\ GoodFirmware(m)
       /\ m.cpuid.multithreading => m.cpuid.chip_threads_max > 1
       /\ m.ticks \in 10 .. 2 ^ RegBits - 1

(* These are machines with Cpus processors to use, each with an APIC id of *)
(* its own, of which Bsp is the one that boots.                            *)
ASSUME MachinesAssumption ==
  \A m \in Machines :
    LET used == UsedEntries(m, find_psdt_table(m, "APIC"))
    IN  /\ Len(used) = Cpus /\ used[Bsp + 1].apic_id = m.bsp_id
        /\ \A j, k \in 1 .. Cpus :
             /\ used[j].apic_id \in 0 .. 255
             /\ used[j].apic_id = used[k].apic_id => j = k

(* The laws of powers for these constants, which hold whatever they are;   *)
(* the provers know ^ for given numbers only.                              *)
ASSUME RegPowers ==
  /\ \A b \in 0 .. QuadBits - 1 : 2 ^ b \in Nat \ {0}
  /\ \A b \in RegBits .. QuadBits - 1 : 2 ^ b >= 2 ^ RegBits
  /\ \A b \in RegBits + 1 .. QuadBits - 1 : 2 ^ b >= 2 * 2 ^ RegBits

VARIABLES
  machine,
  phase,              \* how far boot64 is on the boot processor
  mapped,             \* the pages that are mapped
  madt, srat,
  descs, __cpu_indexes, __bsp_cpu,
  next_free,          \* of kmalloc
  stacks,             \* isr_stacks and ap_boot_stack
  tss,                \* the address and ists[0] of every task segment
  gdt, present,       \* the descriptors of the task segments; the IDT's gates
  tr,                 \* the selector each CPU has loaded, 0 before
  timer_10ms_ticks,
  lapic               \* the APIC timer of each CPU

setup == <<machine, phase, mapped, madt, srat, descs, __cpu_indexes, __bsp_cpu,
           next_free, stacks, tss, gdt, present, tr, timer_10ms_ticks, lapic>>

StackSize == \h1000         \* CONFIG_ISR_STACK_SIZE, CONFIG_AP_BOOT_STACK_SIZE
TssSize == 104              \* sizeof(struct task_segment)
INT_VECTOR_APIC_SPURIOUS == 32
INT_VECTOR_APIC_TIMER == 33
INT_VECTOR_SCHEDULER_TASK == 34
LapicPage == \h7F7          \* of LAPIC_ADDR
CONFIG_SCHEDULER_TICK_INTERVAL == 1000
AP_CPU_TIMEOUT == 20000     \* AP_CPU_INIT_TIMEOUT and AP_CPU_RETRY_TIMEOUT

(* A timer that has stopped; that of an APIC which is not enabled *)
Stopped == [interval |-> 0, initial |-> 0, divide |-> 1, periodic |-> FALSE]
Off == [interval |-> 0, initial |-> 0, divide |-> 0, periodic |-> FALSE]

StartupInit ==
  /\ BootInit
  /\ machine \in Machines
  /\ phase = "acpi"
  /\ mapped = PageOf(\h100000) .. PageOf(KernelEnd - 1)
  /\ madt = 0 /\ srat = 0
  /\ descs = <<>> /\ __cpu_indexes = CpuIndexes(<<>>) /\ __bsp_cpu = 0
  /\ next_free = 0 /\ stacks = [isr |-> 0, ap |-> 0]
  /\ tss = <<>> /\ gdt = <<>> /\ present = {}
  /\ tr = [c \in Cpu |-> 0]
  /\ timer_10ms_ticks = 0 /\ lapic = [c \in Cpu |-> Off]

(* A step of boot64 that reads tables: it faults where they are not mapped. *)
Reads(addrs, next) ==
  phase' = IF PagesOf(machine, addrs) \subseteq mapped' THEN next ELSE "fault"

init_acpi ==
  LET r == rsdp(machine)
  IN  /\ phase = "acpi"
      /\ mapped' = init_root_tables(machine, mapped)
      /\ madt' = find_psdt_table(machine, "APIC")
      /\ srat' = find_psdt_table(machine, "SRAT")
      /\ Reads({r.rsdt, r.xsdt} \cup ToSet(Listed(machine, r.rsdt, 2)), "cpu_info")
      /\ UNCHANGED <<bootVars, machine, descs, __cpu_indexes, __bsp_cpu, next_free, stacks,
                     tss, gdt, present, tr, timer_10ms_ticks, lapic>>

init_cpu_info ==
  /\ phase = "cpu_info"
  /\ descs' = fill_cpu_descs(machine, madt, srat, get_thread_core_bits(machine.cpuid))
  /\ __cpu_indexes' = CpuIndexes(descs')
  /\ __bsp_cpu' = __cpu_indexes'[machine.bsp_id]
  /\ UNCHANGED mapped
  /\ Reads({madt, srat}, "memory")
  /\ UNCHANGED <<bootVars, machine, madt, srat, next_free, stacks, tss, gdt, present, tr,
                 timer_10ms_ticks, lapic>>

(* With __map_memory: whole pages of the memory, given in KB above 1 MB *)
init_memory ==
  /\ phase = "memory"
  /\ next_free' = KernelEnd
  /\ mapped' = mapped \cup 0 .. (machine.mem_higher + 1024) \div 2 ^ 11 - 1
  /\ phase' = "interrupts"
  /\ UNCHANGED <<bootVars, machine, madt, srat, descs, __cpu_indexes, __bsp_cpu, stacks,
                 tss, gdt, present, tr, timer_10ms_ticks, lapic>>
-----------------------------------------------------------------------------
get_cpus == Cardinality(DOMAIN descs)
is_int_reserved(vector) == vector = 15 \/ vector \in 20 .. 31

(* The vectors that create_idt installs a handler for *)
Faults == {v \in 0 .. 19 : ~is_int_reserved(v)} \ {1, 9}

(* A task segment's descriptor, its base in four fields *)
TssDesc(addr) ==
  [base0 |-> addr % 2 ^ 16, base1 |-> addr \div 2 ^ 16 % 2 ^ 8,
   base2 |-> addr \div 2 ^ 24 % 2 ^ 8, base3 |-> (addr \div 2 ^ 24) \div 2 ^ 8]

(* The top of a CPU's stack in isr_stacks *)
IsrStackTop_Bottom(isr_stacks, cpu) == isr_stacks + cpu * StackSize

IsrStackTop(isr_stacks, cpu) == isr_stacks + (cpu + 1) * StackSize

Selector(cpu) == 8 * 3 + 16 * cpu

(* create_gdt, create_idt and load_gdt_idt_tr *)
init_interrupts ==
  LET segments == next_free + get_cpus * StackSize
  IN  /\ phase = "interrupts"
      /\ stacks' = [stacks EXCEPT !.isr = next_free]
      /\ next_free' = segments + get_cpus * TssSize
      /\ tss' = [a \in {segments + n * TssSize : n \in DOMAIN descs} |->
                   IsrStackTop(next_free, (a - segments) \div TssSize)]
      /\ gdt' = [n \in DOMAIN descs |-> TssDesc(segments + n * TssSize)]
      /\ present' = Faults
      /\ tr' = [tr EXCEPT ![__bsp_cpu] = Selector(__cpu_indexes[machine.bsp_id])]
      /\ phase' = "apic"
      /\ UNCHANGED <<bootVars, machine, mapped, madt, srat, descs, __cpu_indexes, __bsp_cpu,
                     timer_10ms_ticks, lapic>>

(* init_apic with adjust_lapic_timer, which lets the timer run for 10 ms   *)
(* once the gates are there, then init_pci                                 *)
init_apic ==
  /\ phase = "apic"
  /\ mapped' = mapped \cup {LapicPage}
  /\ present' = present \cup {INT_VECTOR_APIC_SPURIOUS, INT_VECTOR_APIC_TIMER}
  /\ timer_10ms_ticks' = machine.ticks
  /\ lapic' = [lapic EXCEPT ![__bsp_cpu] = Stopped]
  /\ phase' = "sti"
  /\ UNCHANGED <<bootVars, machine, madt, srat, descs, __cpu_indexes, __bsp_cpu, next_free,
                 stacks, tss, gdt, tr>>

(* sti, and start_ap_cpus up to its loop, which is that of Boot *)
start_ap_cpus ==
  /\ phase = "sti"
  /\ IF get_cpus = 1 THEN UNCHANGED <<stacks, next_free>>
     ELSE /\ stacks' = [stacks EXCEPT !.ap = next_free]
          /\ next_free' = next_free + StackSize
  /\ phase' = "started"
  /\ UNCHANGED <<bootVars, machine, mapped, madt, srat, descs, __cpu_indexes, __bsp_cpu,
                 tss, gdt, present, tr, timer_10ms_ticks, lapic>>
-----------------------------------------------------------------------------
(* By how many bits a number of ticks is too long for the register *)
extra_bits(initial) == bsrq(initial) - (RegBits - 1)

Scaled_Cut(initial) == [initial |-> initial % 2 ^ RegBits, divide |-> 1]

(* The count and the divisor for a number of ticks *)
Scaled(initial) ==
  IF extra_bits(initial) \in 1 .. 7
  THEN [initial |-> initial \div 2 ^ extra_bits(initial), divide |-> 2 ^ extra_bits(initial)]
  ELSE [initial |-> IF initial = 0 THEN 1 ELSE initial, divide |-> 1]

(* With more than seven extra bits there is no divisor and the CPU panics: *)
(* it gets no further than this step.                                      *)
start_apic_timer(cpu, interval, periodic) ==
  LET initial == (interval * timer_10ms_ticks) \div 10000
      s == Scaled(initial)
  IN  /\ extra_bits(initial) <= 7
      /\ lapic' = [lapic EXCEPT ![cpu] =
                     [interval |-> interval, initial |-> s.initial,
                      divide |-> s.divide, periodic |-> periodic]]

(* The steps of Boot on the boot processor *)
BspStarts ==
  /\ phase = "started"
  /\ \/ /\ SendInit \/ SendStartup \/ WaitAgain
        /\ start_apic_timer(Bsp, AP_CPU_TIMEOUT, FALSE)
        /\ UNCHANGED <<present, next_free>>
     \/ /\ init_scheduler
        /\ start_apic_timer(Bsp, CONFIG_SCHEDULER_TICK_INTERVAL, TRUE)
        /\ present' = present \cup {INT_VECTOR_SCHEDULER_TASK}
        /\ UNCHANGED next_free
     \/ /\ start_kmain_thread
        /\ next_free' = next_free + ThreadSize
        /\ UNCHANGED <<lapic, present>>
     \/ /\ Skip \/ InitTimeout \/ Answered \/ Retry \/ Panic \/ StartedAll
        /\ UNCHANGED <<lapic, present, next_free>>
  /\ UNCHANGED <<machine, phase, mapped, madt, srat, descs, __cpu_indexes, __bsp_cpu,
                 stacks, tss, gdt, tr, timer_10ms_ticks>>

(* And on another, which sets up its task register and its APIC first *)
ApStarts(a) ==
  /\ \/ /\ ApInit(a)
        /\ tr' = [tr EXCEPT ![a] = Selector(__cpu_indexes[descs[a].id])]
        /\ lapic' = [lapic EXCEPT ![a] = Stopped]
     \/ /\ ApInitScheduler(a)
        /\ start_apic_timer(a, CONFIG_SCHEDULER_TICK_INTERVAL, TRUE)
        /\ UNCHANGED tr
     \/ /\ ApLoad(a) \/ ApStore(a) \/ ApReturn(a)
        /\ UNCHANGED <<tr, lapic>>
  /\ UNCHANGED <<machine, phase, mapped, madt, srat, descs, __cpu_indexes, __bsp_cpu,
                 next_free, stacks, tss, gdt, present, timer_10ms_ticks>>

Boot64 ==
  \/ init_acpi \/ init_cpu_info \/ init_memory \/ init_interrupts \/ init_apic
  \/ start_ap_cpus \/ BspStarts

StartupNext == Boot64 \/ \E a \in Ap : ApStarts(a)

StartupSpec ==
  /\ StartupInit /\ [][StartupNext]_<<bootVars, setup>>
  /\ WF_<<bootVars, setup>>(Boot64)
  /\ \A a \in Ap : WF_<<bootVars, setup>>(ApStarts(a))
-----------------------------------------------------------------------------
(* The descriptors that cpu_info.c makes are those of the machine: the     *)
(* enabled processors in the order of the MADT, as many as are supported,  *)
(* each found again by its APIC id, the boot processor by its own; the     *)
(* numbers of a thread, its core and its chip make up the APIC id, as the  *)
(* processor divides it; and the domain is that of the SRAT.               *)
CpuDescsAreExact ==
  phase \notin {"acpi", "cpu_info", "fault"} =>
    LET entries == machine.tables[machine.madt].entries
        lapics == {o \in DOMAIN entries : entries[o].type = 0 /\ entries[o].enabled}
        domains == IF machine.srat = 0 THEN {}
                   ELSE {e \in Range(machine.tables[machine.srat].entries) :
                           e.type = 0 /\ e.enabled}
    IN  /\ get_cpus = Min({Cardinality(lapics), MaxCpus})
        /\ DOMAIN descs = 0 .. get_cpus - 1
        /\ descs[__bsp_cpu].id = machine.bsp_id
        /\ \A n \in DOMAIN descs :
             LET d == descs[n]
             IN  /\ \E o \in lapics : /\ entries[o].apic_id = d.id
                                      /\ Cardinality({p \in lapics : p < o}) = n
                 /\ __cpu_indexes[d.id] = n
                 /\ d.id = d.thread + (d.core + d.chip * 2 ^ machine.core_bits)
                                        * 2 ^ machine.thread_bits
                 /\ d.thread < 2 ^ machine.thread_bits
                 /\ d.core < 2 ^ machine.core_bits
                 /\ \A e \in domains : e.apic_id = d.id => d.domain = e.domain
                 /\ (\A e \in domains : e.apic_id # d.id) => d.domain = 0

(* An APIC timer that runs counts down over the interval it was started    *)
(* for, to within one step of its divisor, its count fits into the         *)
(* register, and the one of a CPU that schedules is periodic.              *)
TimerIsClose ==
  \A c \in Cpu :
    LET t == lapic[c]
    IN  /\ t \notin {Off, Stopped} =>
             /\ t.initial \in 1 .. 2 ^ RegBits - 1
             /\ t.initial * t.divide * 10000 <= t.interval * machine.ticks
             /\ t.interval * machine.ticks < (t.initial + 1) * t.divide * 10000
        /\ c \in ticking => t.periodic /\ t.interval = CONFIG_SCHEDULER_TICK_INTERVAL

(* The interrupt stacks fit into the memory, which nothing tests *)
EnoughMemory ==
  \A m \in Machines :
    /\ m.mem_higher \in Nat
    /\ KernelEnd + Cpus * StackSize <= ((m.mem_higher + 1024) \div 2 ^ 11) * PAGE_SIZE

(* The task segment that a CPU finds through its task register, as the     *)
(* processor puts the base together (external)                             *)
SegmentOf(c) ==
  LET d == gdt[(tr[c] - 24) \div 16]
  IN  d.base0 + d.base1 * 2 ^ 16 + d.base2 * 2 ^ 24 + (d.base3 * 2 ^ 24) * 2 ^ 8

(* The CPUs that an interrupt can reach.  Interrupts are on early: on the  *)
(* boot processor since the display lock was first released in init_vga,   *)
(* on another since it printed in init_interrupts.  But those of the PIC   *)
(* are masked (boot32.c, boot64.c), so that none comes before the CPU's    *)
(* APIC is enabled.                                                        *)
ApicOn == {c \in Cpu : lapic[c] # Off}

(* Whatever the order in which the processors come up, a CPU that can be   *)
(* interrupted handles it on a stack of its own, in memory that is         *)
(* allocated and mapped and that nothing else uses, and the gates for what *)
(* its APIC may send are present.                                          *)
InterruptsAreReady ==
  \A c \in ApicOn :
    /\ {INT_VECTOR_APIC_SPURIOUS, INT_VECTOR_APIC_TIMER} \subseteq present
    /\ isr = "timer" => INT_VECTOR_SCHEDULER_TASK \in present
    /\ SegmentOf(c) \in DOMAIN tss
    /\ LET top == tss[SegmentOf(c)]
       IN  /\ top - StackSize >= KernelEnd /\ top <= next_free
           /\ \A a \in DOMAIN tss : a + TssSize <= top - StackSize \/ top <= a
           /\ stacks.ap + StackSize <= top - StackSize \/ top <= stacks.ap
           /\ {PageOf(top - StackSize), PageOf(top - 1)} \subseteq mapped
           /\ \A d \in ApicOn \ {c} :
                LET other == tss[SegmentOf(d)]
                IN  other <= top - StackSize \/ top <= other - StackSize
=============================================================================
