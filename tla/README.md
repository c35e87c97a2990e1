# Toy, in TLA+

A verification project for the kernel core of *toy*: the preemptive
multiprocessor scheduler, its synchronisation primitives, the tables that hand
out ids of drivers and drives, the PCI walk, the page map, the boot of the
machine from its firmware tables to the kmain thread, and the display. Paths
below are relative to the repository; the code is in `src/src/`.

## The system

| Component | State | Operations | Talks to |
|---|---|---|---|
| per-CPU run queue and timer, `schedule.c` | per priority an active and an expired list, `priority_mask`, `current_priority`, `load_context`; per thread `quantum`, `context` | `timer`, `do_resume_task`, `do_pause_task` | entered by the timer interrupt and by tasks |
| spinlocks, `x86_64/sync.inc`, `sync.c` | `busy`; per CPU the outermost lock, the interrupt flag | `acquire_spinlock` (limited or not), `release_spinlock`, `set_outer_spinlock` | used by everything |
| multiprocessor scheduler, `schedule.c`, `x86_64/schedule.c` | lists `all` and `inactive`, thread states, one task slot per CPU, pending interrupts | attach, detach, resume, pause, stop, `pause_this_thread`, task interrupt, self-halt | CPUs send each other tasks and spin for the answer |
| mutex, `sync.h`, `sync.c` | `mlock`, `ilock`, queue of nodes from a pool | acquire, release, `__sleep_in_mutex`, `__awake_in_mutex` | pauses and resumes threads |
| sleep, `sync.c` | per CPU an ordered list of nodes, `ticks`, `timer_ticks` | `sleep`, `sleep_timer_proc` | runs inside the timer interrupt |
| stamp ids, `stamp_id.h` | a stamp per structure and a global one | make, split, look up | threads, drivers, drives |
| driver registry, `driver.c` | doubly linked list | add, remove, enumerate | under a mutex |
| AHCI drives, `x86_64/ahci.c` | a table of drives | scan, enumerate | walks the PCI bus; under a mutex |
| page map, `x86_64/page_map.c`, `boot32.c` | three levels of tables, the TLB | `create_page_map`, `map_page`, `unmap_page`, `get_page_mapping` | read by the processor |
| PCI access, `x86_64/pci.c` | the configuration space | `read_pci_field`, `scan_pci` | calls back for every device it finds |
| boot, `x86_64/boot64.c`, `apic.c` | `started_cpus`, one boot stack, the timer vector | `boot64`, `start_ap_cpus`, `start_ap_cpu`, `boot64_ap`, `init_scheduler` | processors, by messages and a shared counter |
| ACPI and CPU topology, `x86_64/acpi.c`, `cpu_info.c` | `rsdp`, `madt`, `srat`; processor descriptors, indexes by APIC id | `init_acpi`, `get_next_acpi_entry`, `init_cpu_info` | maps the pages of the firmware's tables |
| interrupts, APIC timer, memory, `x86_64/interrupt.c`, `apic.c`, `memory.c` | task segments, descriptors, gates, task registers; `timer_10ms_ticks`; `next_free` | `init_interrupts`, `init_apic`, `start_apic_timer`, `kmalloc` | every processor loads its own |
| display, `common.c`, `x86_64/vga.c` | the screen, its cursor, one lock | `kprintf`, `kclear`, `PANIC`, the fault handler | called on every CPU, also at its end |

What is hard in this code: threads of several CPUs inside the scheduler at the
same time; a CPU that changes another CPU's queue by an interrupt and waits for
it with a lock held; a thread that pauses itself, and so must leave its own
stack before anybody resumes it; interrupts that arrive between two
instructions of a lock function; a wake-up that races a thread on its way to
sleep; timers that must be set again; processors that answer late or not at
all while they are started on one stack, and find their number and their
interrupt stack through what the firmware says of them; a report of a fault on
a CPU that was in the middle of something; ids that outlive what they name; pools
and tables that are full.

What makes it correct: a thread is in exactly one place and executes on one CPU
at most; no runnable thread is lost or starves; spinlocks exclude, disable
interrupts and enable them again; nobody sleeps in a mutex or in `sleep`
without something that will wake it, and nobody wakes early; enumerations are
complete whatever is added and removed meanwhile; a page is mapped where the
processor looks for it; every processor is known by one number and takes
interrupts on a stack of its own; the scheduler takes over when every processor
is ready; what is printed can be read, the last words of a CPU too.

## Modules

    RunQueue       the queues of one CPU as data: operators only
      CpuQueue     one CPU, every operation one step          (abstract)
      Scheduler    several CPUs, calls, locks, tasks, interrupts
        Uniprocessor   Scheduler on one CPU                   implements CpuQueue
    LinkedList     what a walk over next fields finds: operators only
      RunList      the linked lists of schedule.c             implements CpuQueue
    Spinlock       lock, outer lock, interrupt flag
    Mutex          on spinlocks and pausing threads
    Sleep          on spinlocks, pausing threads and the timer
    StampId        ids: operators only
      Driver       the driver registry, with LinkedList
      Ahci         the drive table, with Pci
    Pci            configuration space and the walk over it: operators only
    PageMap        the page tables, and how the processor reads them
    Boot           the start of the processors
    Acpi           the firmware's tables: operators only
      CpuInfo      the processors of the machine: operators only
        Startup    boot64 as a whole: CpuInfo, then Boot, with memory,
                   interrupt tables and timers
    Display        kprintf and the ends of a CPU that print

    ListProofs         sequences without repetitions, linked lists
      RunQueueProofs   lemmas on the operators of RunQueue
        CpuProofs      about CpuQueue, Boot and Startup
        SchedulerProofs   about Scheduler and Uniprocessor
      RunListProofs    about RunList
      DriverProofs     about Driver, and Mutex, which guards it
      X86Proofs        about Spinlock, Ahci and PageMap
    SleepProofs        about Sleep

A specification that shares a proof module with another has a name of its own
(`DriverSpec`, `BootSpec`, `StartupSpec`, `AhciSpec`, `PageMapSpec`, and
`DriverInit`, `DriverNext` and so on); elsewhere it is `Spec`.

`MC*` modules give the constants small values. `PROJECT.json` maps every
definition to the lines it models. Definitions named `X_Something` next to a
definition `X` are faulty variants, which say what a property protects against
(put in the place of `X`, TLC reports the property); no specification uses them.

**RunQueue, CpuQueue.** A queue is a record of the two sequences per priority,
`current_priority` and `load_context`; `priority_mask` and `total_threads` are
computed from it. `Resumed`, `Paused`, `Switched` are the bodies of
`do_resume_task`, `do_pause_task` and `timer`. In CpuQueue a thread's state,
quantum and context, `MSR_FS_BASE` (`fs`) and what the CPU executes (`frame`)
are added. A context is the thread whose code it is, or NULL for the idle loop:
all a property can tell apart. `Tick` has three parts: load the first thread,
count down, switch.

**RunList.** The same code at the level of pointers: `next`, `prev`, `active`,
`active_tail`, `expired_head`, `expired_tail`, the mask as a set of bits, the
counters. The threads of a list share the same two link fields, in the queues
and on the `all` and `inactive` lists. The refinement mapping reads the lists
into sequences; `ImplementsCpuQueue` is checked with CpuQueue's fairness.

**Spinlock.** `acquire_spinlock` is four steps (name the CPU and claim its outer
lock; `cli`; exchange; return), as an interrupt may come between them. Agents are
threads and the timer procedure of each CPU. `Nested` lists which lock is taken
under which by the callers in schedule.c and sync.c (`all.lock` before
`inactive.lock` before a CPU's lock, a caller's lock before these, the memory's
under a caller's); the lock functions themselves test no order. An interrupt may
arrive between the claim and `cli`, switch threads and let the thread go on on
another CPU, as the code does not prevent it. `hit` is a history variable: this
has happened, and the CPUs have not been out of all locks with interrupts
enabled since. Three of the properties say nothing from there on: it is the only
way to break them, and does break each (see *Disagreements*).

**Scheduler.** A CPU is outside any call with interrupts enabled, or at a `pc`
inside one. What a call does under `inactive.lock` between two waits is one
step. `LocalTask` and `SendTask` are `run_cpu_task` for the own and for another
CPU, `TaskInterrupt` is the handler, `Complete` and `CompleteSelf` the rest of
the call. A thread that pauses itself goes through `halt`, `unlock_inactive`
and `unlock_user`, the three releases of `do_self_halt_task`. Timer procedures
may call `resume_thread` (`TimerWithProc`), as `sleep_timer_proc` does. Ids are
threads here; stamps are the subject of StampId and Sleep. A thread is attached
by its owner from one place, as boot and tests do it.

**Uniprocessor.** The same with one CPU, where every task is run in place. A
thread that is pausing itself has already left its queue while its CPU still
executes it; the refinement mapping has the CPU halted from then on.

**Mutex, Sleep.** `pause_this_thread(&lock)` pauses and releases in one step.
The code releases the lock last, after the thread is on the inactive list; until
then nobody else gets it, and what others can do to the thread meanwhile (stop
it) does not depend on the lock, so that it might as well happen afterwards. The
exception is a lock that is never released, which the run `lock_left` is about.
`resume_thread` fails for a thread that is not paused. `kmalloc` never fails
today, but the pool interface can, and the code handles it: `MaxNodes` bounds
the pool. In Sleep, `sleep` has named its list (`called`) before it disables
interrupts, and the thread may be moved right there; `crossed`, a history
variable, has the CPUs whose list or timer was then changed from another CPU,
and of which nothing more is claimed (see *Disagreements*). Periods are in
microseconds and cut to ticks as the code cuts them; `until` remembers what was
asked for. A stopped thread leaves its node behind and may be attached and sleep
again, under another stamp; one that a third party resumes leaves it under the
same stamp. Time is counted until the last sleep that begins by tick `LastCall`
must be over. `exposed` in Mutex is a history variable: `__awake_in_mutex` has
released `mlock` under the thread it woke (see *Disagreements*), and not
everybody who got in since has left.

**StampId, Driver, Ahci.** An id is a number, address plus stamp times
2^PtrBits. The functions of both components run under a mutex and are single
steps, except `scan_devices`, whose visits to the ports are steps as drives may
come and go meanwhile. `attached` stands for the port registers. Drive fields
keep the width and the sign of their bit fields. That a mutex excludes is an
assumption of both: it does not once the last sleeper has been woken (see
*Disagreements*), and then nothing is promised of the list or the table either.
`scan_error` is written without the mutex by a caller that cannot wait for it
(`ScanRefused`, ahci.c:138), while another scan goes on; what a scan returns to
its own caller may be that of the other, and is not modelled.
`create_mutex` may fail by its type, and `AddDrive` has both outcomes.

**Pci.** `Config` has the functions of the machine by bus, slot and function
number, with the fields the walk reads. `get_addr` and `Selected` (external) go
through the address that is written to the port. `scan_pci` is the sequence of
devices its procedure is called with; the recursion over bridges is a recursive
function of the bus. `Places` of Ahci, the order of the visits, is computed from
it, so that a function, slot or bus that the walk missed or repeated shows in
the drive table.

**PageMap.** The tables are a function from table and entry to descriptors,
laid out as `create_page_map` does it; `get_page_desc` computes a place in them,
and `PageWalk` (external) is what the processor does. Fields are cut to their
widths, which are constants, and `AsInt` is the promotion of a bit field to
`int`. `Access` puts a translation into the TLB.

**Boot.** `bsp` is the place of the boot processor in `boot64` and
`start_ap_cpu`, `ap` that of each other processor, from `off` over `boot64_ap`
to `halt`. A startup message may be lost (`SendStartup`); a processor may answer
in any round, or after the message was sent again. `started_cpus++` is a load
and a store. `Answered`, `WaitAgain`, `Retry` and `Panic` are what the boot
processor does when the timer has woken it. `isr` is the common handler of the
timer vector, which `init_scheduler` of the boot processor changes.

**Acpi, CpuInfo.** A machine is a record: what the EBDA and the BIOS ROM hold,
tables by their address with entries by their offset, the CPUID leaves that are
read, the speed of the timer, the amount of memory. `init_root_tables` gives the
pages that are mapped afterwards; `get_next_acpi_entry` steps over entries by
their length. `GoodFirmware` is what the code takes for granted.

**Startup.** `boot64` from its first call: one action per function it calls, in
order (`phase`), then Boot's actions, each conjoined with what it does to the
timer, the gates and the memory, and the same for `boot64_ap`. Processor `a` of
Boot is the one that `descs[a]` names, and it finds its own number again through
`__cpu_indexes`. `ApicOn` has the CPUs that an interrupt can reach: the
interrupt flag is set from the first release of the display lock on (`init_vga`
on the boot processor), but the PIC's lines are masked, and nothing arrives
before `init_apic` enables the local APIC. `start_apic_timer` with a count that
no divisor brings into the register panics: the CPU gets no further. A step that
reads a table whose page is not mapped goes to `fault`. `SegmentOf` (external)
puts a task segment's address together as the processor does. Addresses and
sizes are those of the code, pages of 2 MB included; the timer's register has
`RegBits` bits, so that scaling happens, and `bsrq` searches a word of
`QuadBits` bits (32 and 64 in the code).

**Display.** A format is a sequence of characters and conversions, cut to the
widths `IntBits` and `LongBits` as the code cuts them; `Converted` follows
`kprintf` and `ultoa`, while `Meaning` says which numeral is meant. `put_char` is
one step, under the lock. `Fault` gives up what the CPU was doing and prints the
handler's report, `calls` being what it has still to print; a CPU in `ending`
halts after that. A fault inside `kprintf` leaves the lock `Lost`: its CPU will
spin on it and never release it. A CPU clears the screen as often as it likes,
so that others may be first to take the lock without end (`Overtaken`).

## Runs

| Run | What it shows | Bounds |
|---|---|---|
| `run_list` | `ListsAreLinked`: lists, counters, mask and thread states agree; `QueueIsExact`: the queue holds exactly the running threads, once; `NextThreadExists`: the timer finds a thread where it dereferences one; `FsIsCurrent`: FS names the thread that executes; `NoStarvation`: a running thread is current again and again unless a more urgent one is there; and the pointers implement CpuQueue | 3 threads, 2 of one priority; quantum 1 (count and switch both happen) |
| `spinlock` | `MutualExclusion`, `HoldersRunUninterrupted`, `InterruptsComeBack`, and `NoStandstill`: while somebody spins some holder executes and does not | 2 CPUs, 3 threads that move, `inactive.lock` and a CPU's lock under it, the first also taken with a number of tries; interrupts wherever they are enabled |
| `scheduler` | `SingleExecution`, `InactiveIsQuiet`; `Placement`: an attached thread is in one place; `TaskIsOwned`: no task is overwritten or run twice; `TaskSucceeds`: the retry loop of `deactivate_thread` is never needed; `CallsGoOn`: while CPUs are inside calls one of them goes on, but for a CPU that waits for an interrupt on one that spins (`CrossWait`) and for a lock that a self-halt has left behind (`LockLeft`), both of which happen | 2 CPUs, kmain on the first and one free thread; quantum 0 (every tick switches; counting is `run_list`'s) |
| `uniprocessor` | one CPU implements CpuQueue, and deadlock is checked | 3 threads, 2 priorities, quantum 1 |
| `lock_left` | TLC finds `NoLockLeft` violated: a CPU leaves `pause_this_thread` with its lock still taken (first of the *Disagreements*) | those of `scheduler` |
| `mutex` | `NoLostWakeup`: a sleeper is queued, and somebody will wake it; `MutualExclusion`: no two threads have the mutex unless the last sleeper was woken; `SleepersWake` | 4 threads: an owner, two in the queue and one that finds no node; sleepers are stopped |
| `sleep` | `TimerArmed`: the timer is set for the first sleeper; `NeverEarly`: the timer resumes nobody a tick or more before its period is over, by rounding or by the node of a stopped thread; `SleepersWake`; all of them where no thread of another CPU changed the list or the timer | 2 CPUs, 2 threads that move at any time, ticks of 2 and periods of 1 and 3 microseconds (neither a whole number of ticks, one less than a tick), one restart, one node left behind |
| `driver` | `ListIsLinked`; `EnumerationComplete`: no id twice, and none missed of the drivers that stayed | 3 drivers of 2 types, 5 adds: drivers are added again in the middle of an enumeration |
| `ahci` | `ScanIsExact`: an undisturbed scan without error leaves the attached drives of all controllers, each once; `DrivesAreKept`: a drive that stays keeps its id; `DevicesEnumerated` | ports 0, 15 and 16, a table of 2 (so that it is full), 4 adds; callers that are refused during a scan; controllers in a function other than the first and behind two bridges, and a bus that is walked twice |
| `page_map` | `MapsAsRequested`: the translation of the page asked for changes as requested, and no other; `GetTellsTheTruth`: `get_page_mapping` agrees with what the processor uses, kept translations included; `BootMapping`: only the kernel is mapped by boot, to itself | 8 pages in tables of 2, so that there are two PDPTs with two directories each; addresses not aligned, with the top bit of an int, and beyond an int |
| `startup` | `CpuDescsAreExact`: the descriptors are those of the machine; `OneOnStack`: one processor at a time uses the boot stack; `InterruptsAreReady`: a CPU whose APIC is enabled has its own stack and gates; `TimerIsClose`: timers run for the interval asked for; `ReadyForScheduler`: all are set up when the timer becomes the scheduler's; `BootEnds`: in kmain or in a panic | 4 processors, the second boots (one before and two after it); 2 rounds per try (10 in the code); 16 machines: every branch of the CPUID code, RSDP in either place, with and without SRAT and XSDT, a processor too many, little memory, timers below, at and above what fits |
| `display` | `ScreenShowsText`: the screen is the end of what was printed, call after call; `FaultsAreReported`: a CPU that panics or faults gets its report printed, unless a fault inside `kprintf` took the lock with it or others are always first | 2 CPUs, 2 calls beside the reports and any number of clears; a screen of 2 rows of 3 (each call wraps or scrolls); int of 4 bits and long of 5 with their extreme values, which fill the buffer exactly |

Two or three threads suffice for a list to be empty, to have one element, and
to have a first, a middle and a last one; two CPUs for every pairwise race, and
all locks of the scheduler are taken by one CPU at a time. `MaxAdds` stays below
the number of stamps, as ids are only meant to be kept that long: an id kept
over 4096 registrations is accepted wrongly.

Deadlock is checked except where the system really may stop: in `spinlock`
(`NoStandstill` says more precisely when), in `scheduler` (CPUs may wait for
each other, see *Disagreements*; `CallsGoOn` says when, and `uniprocessor`
checks deadlock for one CPU), in `mutex` (all threads may have been stopped), in
`startup` (which ends) and in `display` (where all CPUs may have ended).

## Fairness

- CpuQueue: weak fairness of `Tick`, the periodic APIC timer.
- Spinlock: weak fairness of a CPU's step once it is in a function or holds a
  lock; no property of the run needs it.
- Scheduler: weak fairness of a call's steps; strong fairness of the timer and
  task interrupts, as the local APIC keeps them pending until interrupts are
  enabled, however short that is.
- Mutex: weak fairness of the steps of a thread that is not paused, and whoever
  has the mutex releases it. `ilock` is a spinlock and not fair: threads that
  find no node and try again for ever can starve the one that releases, which
  is why `SleepersWake` excepts `[]<>OutOfNodes`.
- Sleep: strong fairness of a thread's steps and of a CPU's timer, whose
  enabledness alternates with that of other threads of the CPU.
- Boot: weak fairness of the boot processor, as each `hlt` ends with the timer
  started before it, and of each processor that has begun `boot64_ap`. None of
  the startup message: it may get lost both times, and boot ends in a panic.
  Startup has the same, the steps before the loop included, which wait for
  nothing.
- Display: weak fairness of a CPU's step in a call. The lock is not fair, and a
  CPU may be passed over for ever by others that take it again and again, which
  `FaultsAreReported` excepts.

## Proofs

Each theorem holds for every value of the constants that meets the assumptions
of its module; the numbers in the configurations do not matter. Safety is proved
from an inductive invariant: it holds initially, every action keeps it (a lemma
per action, or per group of actions that touch the same state), and it implies
the property. TLC has checked each of these invariants on the instance of the
component's run as well.

| Module | Theorems | of the runs' properties |
|---|---|---|
| `CpuProofs` | `TypeCorrect`, `QueueHoldsTheRunnable`, `TimerFindsAThread`, `FsNamesTheCurrent` | of CpuQueue, which the run's lists implement: `QueueIsExact`, `NextThreadExists`, `FsIsCurrent` |
| | `BootTypeCorrect`, `StackIsPrivate`, `SchedulerComesLast`, and `StartupImplementsBoot`, `StartupStackIsPrivate`, `StartupSchedulerComesLast` | `OneOnStack`, `ReadyForScheduler` |
| | `TimersAreClose`, `InterruptsGetReady` | `TimerIsClose`, `InterruptsAreReady` |
| `RunListProofs` | `ListsStayLinked`, `ListsHoldTheRunnable`, `TailIsAThread`, `ListsImplementQueue` | `ListsAreLinked`, `QueueIsExact`, `NextThreadExists`; the initial state and the steps of `ImplementsCpuQueue` |
| `SchedulerProofs` | `TypeCorrect`, `OneCpuPerThread`, `InactiveThreadsRest`, `EveryThreadHasAPlace`, `TasksAreOwned`, `TasksSucceed`, `NoOtherStandstill` | all six of `scheduler` |
| | `CallsAreAtomic` | the steps of Uniprocessor's `ImplementsCpuQueue` |
| `DriverProofs` | `DriverListLinked`, `EnumerationIsComplete` | `ListIsLinked`, `EnumerationComplete` |
| | `MutexTypeCorrect`, `WakeupIsNeverLost`, `OneAcquires` | `NoLostWakeup`, `MutualExclusion` |
| `SleepProofs` | `TimerIsArmed`, `NobodyElseInTheList`, `NobodyWakesEarly` | `TimerArmed`, `NeverEarly` |
| `X86Proofs` | `TypeCorrect`, `Exclusion`, `HoldersRun`, `ComeBack`, `SomebodyGoesOn` | all four of `spinlock` |
| | `DevicesAreEnumerated`, `ScanKeepsDrives`, `ScanFindsAll` | `DevicesEnumerated`, `DrivesAreKept`, `ScanIsExact` |
| | `MapsExactly`, `GetIsTrue`, `BootMappingStays` | `MapsAsRequested`, `GetTellsTheTruth`, `BootMapping` |

Some theorems have a hypothesis beside the assumptions of the module: that there
is one CPU (`OneCpu`, for `CallsAreAtomic`), that the walk over the
buses ends (`WalkEnds`) and reaches every controller (`WalkReachesAll`, for
`ScanFindsAll` only), that the interrupt stacks fit into the memory
(`EnoughMemory`). TLC evaluates each of them on the instance of its run, where
the MC module assumes it.

**Spinlock.** `TypeCorrect` needs `CallOK` (a call under way has a lock and a
CPU). `Exclusion` holds wherever interrupts arrive: only `Take`, `Release` and
`HaltRelease` touch `busy` and `held`, and together. The others have no
hypothesis about interrupts either, but the exception `hit`. None is inductive;
`hit \/ Contract` is: `Contract` says, for each CPU and each place in the code,
which lock is the outer one and whether interrupts are enabled (a thread's outer
lock is the one all others it holds are nested in, or the one it is about to
take or has just released), and that an agent no CPU executes is in no call and
holds nothing. `LocalStep` and `SwitchStep` carry the contract of the other CPUs
along, and when all is quiet again the contract holds anew (`QuietAgain`, for
which `AtHome` keeps a thread on one CPU). `SomebodyGoesOn` follows a spinning
agent to the holder of its lock, who may spin on a lock further down only: along
`Nested`, which has no circle, one comes to a holder who does not spin.

**RunQueue.** `RunQueueProofs` has no theorem about a system, but what the others
rest on. A queue is `WellFormed` if a thread is in one list only, that of its
priority, a priority with expired threads has active ones, and
`current_priority` has threads unless the queue is empty. `ResumedFacts`,
`PausedFacts`, `SwitchedFacts` and `LoadedFacts` say that the operations keep
this, what they do to the set of threads, and when the current thread stays
current. Under them are lemmas on lists (`AppendFacts`, `TailFacts`,
`RemoveFacts`) and on the least set bit of the mask (`HighestFacts`).

**Linked lists.** `Linked(N, null, next, prev, s, h)` of `ListProofs` says that
the nodes of the sequence `s`, without repetition, are linked both ways from the
head `h`. `WalkOfLinked` shows that a walk over `next` then finds `s`, by the
least number of steps for which it would not (`LeastExists`, which stands in for
induction), and `LinkedPush` and its fellows what adding a node and taking one
out do to `s`.

**RunList.** `LinkInv`: the queues of every priority, the inactive list and the
list of all threads are linked, each thread is on the one its state names, and
counters, mask and `current_priority` agree with them. All lists but `all` share
two link fields, so that every action has to leave the lists it does not touch
alone (`Keeps`). `QueueIsExact` and `NextThreadExists` of the lists follow from
`LinkInv` too. `ListsImplementQueue` then shows, action by action, that the
sequences change as CpuQueue has it.

**CpuQueue.** `QueueInv`: the queue is well formed, its threads are those in
state running, a saved context is the thread's own or the idle loop's, and
`FsIsCurrent`, which is inductive with the rest. Counting occurrences
(`QueueIsExact`) comes last, from the lists having no thread twice.

**Scheduler.** `SchedInv` has thirteen parts. `LockInv` says at which places a
CPU holds `inactive.lock`, so that at most one call is between its decision and
its end; `OpInv`, `CallInv` and `AttachInv` what that call is about. `PlaceInv`
is the inductive form of `Placement`. The heart of it are `PendingInv` and
`HasRunInv`: from the moment a call has chosen its CPU until the task has run,
the thread to pause is in that CPU's queue (or the one to resume in none), and
from then until the call ends it is the other way round, although its `state`
and the inactive list say so only at the end. `CpuLockInv` and `IpiInv` tie a
CPU's lock and its pending interrupt to that call. `FrameInv`, `HaltInv` and
`CtxInv` say what a CPU executes: nothing, its current thread, or the thread
whose self-halt is under way, which is the call that still holds
`inactive.lock`. `SingleExecution` follows as two CPUs that execute the same
thread would both have it in their queues, or one would be halting while the
other has resumed it.

`NoOtherStandstill` adds `AllLockInv` (`all.lock` is held by a call on its way to
`inactive.lock`). It goes from the lock a CPU spins on to its holder: `all.lock`
leads to `inactive.lock`, whose holder is between its decision and its end, and
then either goes on or waits for a task interrupt. That the CPU it waits for can
take the interrupt is what `CrossWait` denies; that the caller's lock has a
holder who is on its way is what `LockLeft` denies.

**Uniprocessor.** `CallsAreAtomic` is the refinement, step by step: under
`SchedInv` and `QuantumInv` (the thread being resumed has got its quantum) each
action of Scheduler is an action of CpuQueue under the mapping or changes
nothing there. `LocalTask` is the step that counts for resume, pause and stop,
even for a thread that pauses itself and executes three steps more;
`SameOperators` identifies the operators of the instance with those of
RunQueue. The initial state is that of CpuQueue after Attach and Resume of
kmain, so that only the steps are compared.

**Driver.** The argument is the order of the stamps: a driver is put in front of
the list with a stamp above all others, so that stamps fall along the list
(`ListInv`), and an enumeration walks down them. `ClientInv` says of each client
that what it was given has falling stamps (`Descends`), and that of the drivers
that stayed all those it was not given are still ahead of it.

**Mutex.** `NoLostWakeup` is not inductive: what saves a thread that is about to
sleep is that it tries `mlock` again under `ilock`. `WakeInv` says who holds
`ilock` at which place (`InnerLock`), that the queue is exactly the sleepers and
those stopped in their sleep, and empty when `mlock` is free (`QueueOK`), that
whoever was handed the mutex has it (`HandedOver`), and that a busy `mlock` is
somebody's who will release it (`BusyIsServed`). `OneOwner` adds for
`MutualExclusion` that there is one such thread unless `exposed`.

**Sleep.** `SleepInv`: the lists are `Ordered` (for which `InsertedFacts` shows
what the loop of `sleep` does to a list), a thread inside the call has chosen a
list, and is on a CPU (`Chosen`), whoever changes a list has its lock (`Locked`),
a sleeper whose list is not `crossed` has a node in it, of its id and not before
its time (`Queued`), and `TimerArmed`. Threads move at any time: what a thread
does to a list or a timer that is not its CPU's is taken out by `crossed`. For
`NobodyWakesEarly` one needs the arithmetic of the rounding (`PeriodFacts`).
`ListIsPrivate` is what `sleep_timer_proc` relies on when it takes no lock: the
CPU of a thread that is at work in that CPU's list has its interrupts masked.

**Boot, Startup.** Neither property is inductive: that a processor is off the
stack when the next one is started rests on the count. The invariant adds
`LoopOK` (the processors before `i` are done, those after it are off), `CountOK`
(as long as processor `i` has not stored, `started_cpus` is what the boot
processor read before it sent the message, so a count above that is its answer;
and a value it has loaded is still current) and `TickOK` (a processor past
`init_scheduler` ticks; the handler is the scheduler's only after the loop). The
steps of Startup are steps of Boot or invisible to it, whatever the machine, so
that the theorems hold of boot64 as a whole. For `TimersAreClose` one adds
`SetupOK` (before the loop Boot has not moved; the timer's speed is known from
`init_apic` on; a processor that ticks is past its `init_scheduler`, so that
nobody resets its timer again) and what `start_apic_timer` computes for the two
intervals it is called with (`ScaledFacts`). For `InterruptsGetReady` one adds
`TablesOK`: where the task segments, their descriptors and the stacks are once
they are laid out, that nothing allocated later is below them, and that a
processor past its initialisation has loaded its own selector; and `ApicsOK`:
where an APIC is enabled by then. That two processors never load the same
selector comes from `MachineFacts`: what `init_cpu_info` makes of the entries the
firmware lists gives every processor back by its id (`MachinesAssumption`).

**Ahci.** `TableOK` has the types. `ClientOK`, for `DevicesEnumerated`, says that
an enumeration goes up through the slots and that every slot in use all the time
was returned or is still ahead. For a scan, `KeptOK` says that a drive that stays
was found again or has its place still ahead of the walk, so that the sweep
leaves it alone, also when a refused caller writes `scan_error` in the middle;
two places whose fields hold them are not confused
(`PlacesOK`). `ScanOK` says, phase by phase, that what was marked is attached
and, while drives are added, that the table holds the attached drives whose
places were passed. That the walk over the buses ends depends on the firmware
and is a hypothesis.

**PageMap.** `MapOK`: from the PML4 the processor gets to the table that
`get_page_desc` computes (`Leads`), and the descriptor of a page that was never
touched is the one boot32 made. It is kept because no two pages have the same
place, and no page has one in a table of the upper levels (`PlacesDiffer`, from
the layout of `create_page_map`). `TlbOK`: a translation that is kept is that of
the tables. The rest is arithmetic on fields: `PhysFacts` for the address that
`map_page` splits, `SaidPhys` for the one that `get_page_mapping` puts together.

What is model-checked only, and why:

- `NoStarvation`, `BootEnds`, `FaultsAreReported`, both `SleepersWake`, and the
  fairness of the two `ImplementsCpuQueue`: liveness, which rests on ENABLED;
- `CpuDescsAreExact`: it compares what the walk over the entries of a table
  computes, and the division of an APIC id, with the machine. The walk is a
  recursive function of offsets of which only those where an entry begins mean
  anything, and how CPUID describes a processor is only known by the machines of
  the run;
- `ScreenShowsText`: that `ultoa` writes the numeral that is meant is an
  induction over digits, and the screen is compared with a fold over all that
  was printed; no proof of it has been tried.

## Disagreements

TLC finds these, where the code does something else than it, a comment or a test
says. The first is a run of its own and listed as a finding; each other takes
one change to a configuration, or to a property whose exception it is.

- Run `lock_left`: `do_self_halt_task` reads `task->lock` (schedule.c:487) after it
  has released the locks that protect it; if another CPU sends a task in
  between, the caller's spinlock is never released. `schedule.h:60`: "released
  atomically (within an interrupt)". It is an exception of `CallsGoOn`.
- `CrossWait`, the other exception of `CallsGoOn`: `run_cpu_task` (schedule.c:174)
  waits for another CPU's task interrupt while that CPU spins, interrupts
  disabled, on the `inactive.lock` the first one holds. Both hang.
- `INVARIANT OnlyOneAcquired` in `Mutex.cfg`: `__awake_in_mutex` (sync.c:63)
  releases `mlock` when it has woken the last sleeper, although that thread now
  has the mutex; the next thread to try gets it too. `test/sync.c:36`: "make
  sure only one acquired". `MutualExclusion` shows that this is the only way.
- `hit`, the exception of Spinlock's properties: an interrupt between the claim
  of the outer lock (sync.inc:27) and `cli` switches to a thread that takes its
  locks with interrupts enabled. `sync.h:16`: "disables interrupts". Interrupts
  may stay disabled, and all CPUs may end up spinning.
- `crossed`, the exception of Sleep's properties: a thread moved to another CPU
  right after `sleep()` has chosen its list (sync.c:92) sets the timer of the
  wrong CPU and never wakes.
- `LeftBehind`, an exception of `NeverEarly`: a sleeper that a third party resumes
  leaves its node in the list, and when it sleeps again it is woken by the old
  one (sync.c:86).
- `lock = Lost`, the exception of `FaultsAreReported`: a fault inside `kprintf` is
  reported by `kprintf` (interrupt.c:65), which waits for the lock its own CPU
  holds. The CPU hangs without a word, and so does every other that prints after
  it.
- `INVARIANT OwnContext` in `RunList.cfg`: a thread that is paused by another
  CPU before its first tick has loaded it gets the idle loop as its context
  (schedule.c:467). `test/schedule.c:91`: "making sure it runs".
- `INVARIANT TypeRespected` in `Driver.cfg`: the first driver is returned
  whatever type was asked for (driver.c:64). `driver.h:40`.
- `INVARIANT RestartIsExpired` in `Driver.cfg`: an enumeration whose driver was
  removed gets ERR_NOT_FOUND. `driver.h:42`: "returns ERR_EXPIRED in case of
  need to restart enumeration".
- `INVARIANT UsedIsFound` in `Ahci.cfg`: `remove_drive` clears the magic of the
  first slot instead of the drive's (ahci.c:125).
- A drive on a port from 16 on is removed and added by every scan, as `hba_port`
  is a signed field of 5 bits (ahci.c:31): the proviso of `DrivesAreKept`.
  If the bus is walked twice in a scan, as bus 1 is when the host bridge has a
  second function and a bridge leads there too (pci.c:76), it is in the table
  twice: the proviso of `ScanIsExact`.
- `get_page_mapping` returns an address with bit 31 set, such as that of the
  APIC, with all higher bits set (page_map.c:26): the proviso of
  `GetTellsTheTruth`.
- `init_root_tables` counts XSDT entries in units of 16 bytes (acpi.c:56) and
  maps half of them. Nothing reads the rest: tables are looked up in the RSDT
  only, so that a machine whose RSDT is empty has no processors.

## What is taken for granted

The assumptions of the modules are evaluated by TLC on every run. Those that
restrict the machine, because the code does not test for it: `GoodFirmware`
(there is an RSDP with an RSDT, addresses lead to tables, a table lies in one
page of 2 MB, no entry has length 0: acpi.c:46, 50 and 99); `PciAssumption` (a
bridge leads to a higher bus; one that was never configured leads to bus 0 and
the recursion does not end: pci.c:43); `StartupAssumption` (a chip that says it
may have several threads has more than one, as `bsrq(0)` is undefined:
cpu_info.c:67; the timer counts at least once per tick); `MachinesAssumption`
(the firmware lists as many processors as are started, with different APIC ids,
and the one that boots in its place: cpu_info.c takes them as they come).
`AddressAssumption` and `PageMapAssumption` are about widths: a PCI address fits
its fields; an address has the bits of two ints, the kernel and its page map are
below the 4 GB that boot32 can address, and one PML4 suffices. `PowerLaws` of
PageMap and `RegPowers` of Startup are no restriction: they state the laws of
powers of two for the constants of the module, as the provers know powers of
given numbers only. Those of the scheduler are about the callers: a thread is
attached from one place (schedule.c:66).

## Not modelled

- `boot16` and `boot32` apart from the page map: assembly on one processor.
- `write_pci_field`, `dispose_ahci`, `set_vga_cell`, the accessors of vga.c:
  nobody calls them. The string functions of common.c, and colours.
- `kfree` and `free_block` do nothing in the code; the memory allocator is
  marked as dummy. The display's lock is taken as Spinlock describes it.
- The save and restore of registers around a handler, which is assembly: an
  interrupt saves a frame and runs with interrupts disabled, in Spinlock and
  Scheduler. The stack overrun check of the timer only panics, like a fault in
  Display.
- TLBs of processors other than the one that maps a page: the code never
  invalidates them, and maps pages at boot and for new controllers only.
- `hlt` that is reached after the timer has fired (apic.c:113): the processor
  would not wake; Boot's fairness takes it that it does.
- `run_time`, the argument checks of `attach_thread`, the drives' own mutexes, which
  only `remove_drive` takes (that creating one may fail is modelled).
- Tests: read for what they say of the code.

## Left

`CpuDescsAreExact` could be proved with the walk of Acpi as a function of the
places where entries begin, as ListProofs does it for linked lists, and with a
statement of how a processor's CPUID leaves give the bits of its APIC ids.
Lemmas on StampId for ids kept over 2^StampBits registrations have no use: the
code accepts such an id for another registration (stamp_id.h:32).
