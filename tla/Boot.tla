-------------------------------- MODULE Boot --------------------------------
(***************************************************************************)
(* The start of the processors: boot64 of the boot processor, from the     *)
(* point where it has set up interrupts, goes through the others in order. *)
(* start_ap_cpu of x86_64/apic.c sends INIT, then the startup message, and *)
(* waits for the processor to count itself, in rounds of the APIC timer;   *)
(* if it does not, the message is sent once more, and then boot64 panics.  *)
(*                                                                         *)
(* A startup message may get lost, and a processor may take any time for   *)
(* each of its steps.  It ignores a message unless it waits for one.  All  *)
(* of them use one stack, ap_boot_stack, until they have counted           *)
(* themselves; a processor that only has to return from boot64_ap finds    *)
(* the return address there that the next one writes again.  started_cpus  *)
(* is incremented by a load and a store.                                   *)
(***************************************************************************)
EXTENDS Integers

CONSTANTS
  Cpus,      \* get_cpus()
  Bsp,       \* get_bsp_cpu()
  Rounds     \* AP_CPU_STARTUP_TIMEOUT / AP_CPU_RETRY_TIMEOUT, 10 in the code

ASSUME BootAssumption ==
  /\ Cpus \in Nat \ {0} /\ Bsp \in 0 .. Cpus - 1
  /\ Rounds \in Nat \ {0}

VARIABLES
  bsp,            \* where the boot processor is
  i, cpus,        \* the loop variable of start_ap_cpus, cpus of start_ap_cpu
  try, round,     \* the loop variables of start_ap_cpu
  started_cpus,
  ap,             \* where each of the other processors is
  loaded,         \* the value of started_cpus it has loaded
  isr,            \* the handler of INT_VECTOR_APIC_TIMER
  ticking         \* the CPUs whose APIC timer is periodic

bspVars == <<bsp, i, cpus, try, round, isr>>
apVars == <<started_cpus, ap, loaded, ticking>>
bootVars == <<bsp, i, cpus, try, round, started_cpus, ap, loaded, isr, ticking>>

Cpu == 0 .. Cpus - 1
Ap == Cpu \ {Bsp}

(* "boot" to "store" is boot64_ap as far as it needs the stack *)
Booting == {"boot", "scheduler", "load", "store"}
Stage == {"off", "reset", "return", "halt"} \cup Booting

BootTypeOK ==
  /\ bsp \in {"next", "init", "startup", "wait", "panic",
              "scheduler", "kmain", "halt"}
  /\ i \in 0 .. Cpus /\ cpus \in Nat /\ try \in 0 .. 1
  /\ round \in 0 .. Rounds - 1
  /\ started_cpus \in Nat
  /\ ap \in [Ap -> Stage] /\ loaded \in [Ap -> Nat]
  /\ isr \in {"empty", "timer"} /\ ticking \subseteq Cpu

BootInit ==
  /\ bsp = "next" /\ i = 0 /\ cpus = 0 /\ try = 0 /\ round = 0
  /\ started_cpus = 1
  /\ ap = [a \in Ap |-> "off"] /\ loaded = [a \in Ap |-> 0]
  /\ isr = "empty" /\ ticking = {}
-----------------------------------------------------------------------------
(* The loop of start_ap_cpus.  INIT resets the processor, which then waits *)
(* for a startup message.                                                  *)
Skip ==
  /\ bsp = "next" /\ i = Bsp
  /\ i' = i + 1
  /\ UNCHANGED <<bsp, cpus, try, round, isr, apVars>>

SendInit ==
  /\ bsp = "next" /\ i \in Ap
  /\ ap' = [ap EXCEPT ![i] = "reset"]
  /\ bsp' = "init"
  /\ UNCHANGED <<i, cpus, try, round, isr, started_cpus, loaded, ticking>>

InitTimeout ==
  /\ bsp = "init"
  /\ cpus' = started_cpus /\ try' = 0
  /\ bsp' = "startup"
  /\ UNCHANGED <<i, round, isr, apVars>>

SendStartup ==
  /\ bsp = "startup"
  /\ ap' \in {ap, IF ap[i] = "reset" THEN [ap EXCEPT ![i] = "boot"] ELSE ap}
  /\ bsp' = "wait" /\ round' = 0
  /\ UNCHANGED <<i, cpus, try, isr, started_cpus, loaded, ticking>>

(* The timer that start_ap_cpu waits for with hlt has elapsed. *)
Answered ==
  /\ bsp = "wait" /\ cpus < started_cpus
  /\ bsp' = "next" /\ i' = i + 1
  /\ UNCHANGED <<cpus, try, round, isr, apVars>>

WaitAgain ==
  /\ bsp = "wait" /\ cpus >= started_cpus /\ round < Rounds - 1
  /\ round' = round + 1
  /\ UNCHANGED <<bsp, i, cpus, try, isr, apVars>>

(* Faulty variants, each named for what it gets wrong, are kept next to    *)
(* the definition they vary; nothing uses them in the specification.       *)
Retry_Uncounted ==
  /\ bsp = "wait" /\ cpus >= started_cpus /\ round = Rounds - 1 /\ try = 0
  /\ bsp' = "startup"
  /\ UNCHANGED <<i, cpus, try, round, isr, apVars>>

Retry ==
  /\ bsp = "wait" /\ cpus >= started_cpus /\ round = Rounds - 1 /\ try = 0
  /\ try' = 1 /\ bsp' = "startup"
  /\ UNCHANGED <<i, cpus, round, isr, apVars>>

Panic_GoesOn ==
  /\ bsp = "wait" /\ cpus >= started_cpus /\ round = Rounds - 1 /\ try = 1
  /\ bsp' = "next" /\ i' = i + 1
  /\ UNCHANGED <<cpus, try, round, isr, apVars>>

Panic ==
  /\ bsp = "wait" /\ cpus >= started_cpus /\ round = Rounds - 1 /\ try = 1
  /\ bsp' = "panic"
  /\ UNCHANGED <<i, cpus, try, round, isr, apVars>>

StartedAll ==
  /\ bsp = "next" /\ i = Cpus
  /\ bsp' = "scheduler"
  /\ UNCHANGED <<i, cpus, try, round, isr, apVars>>

(* init_scheduler on the boot processor installs the handlers and starts   *)
(* its timer; then init_sync and start_kmain_thread.  Both handlers are in *)
(* the first 64 KB of the kernel, so that set_isr changes one field only.  *)
init_scheduler ==
  /\ bsp = "scheduler"
  /\ isr' = "timer" /\ ticking' = ticking \cup {Bsp}
  /\ bsp' = "kmain"
  /\ UNCHANGED <<i, cpus, try, round, started_cpus, ap, loaded>>

start_kmain_thread ==
  /\ bsp = "kmain"
  /\ bsp' = "halt"
  /\ UNCHANGED <<i, cpus, try, round, isr, apVars>>
-----------------------------------------------------------------------------
(* boot64_ap *)
ApGoes(a, from, to) ==
  /\ ap[a] = from
  /\ ap' = [ap EXCEPT ![a] = to]
  /\ UNCHANGED bspVars

ApInit_NoScheduler(a) ==
  /\ ApGoes(a, "boot", "load")
  /\ UNCHANGED <<started_cpus, loaded, ticking>>

ApInit(a) ==
  /\ ApGoes(a, "boot", "scheduler")
  /\ UNCHANGED <<started_cpus, loaded, ticking>>

ApInitScheduler(a) ==
  /\ ApGoes(a, "scheduler", "load")
  /\ ticking' = ticking \cup {a}
  /\ UNCHANGED <<started_cpus, loaded>>

ApLoad(a) ==
  /\ ApGoes(a, "load", "store")
  /\ loaded' = [loaded EXCEPT ![a] = started_cpus]
  /\ UNCHANGED <<started_cpus, ticking>>

ApStore(a) ==
  /\ ApGoes(a, "store", "return")
  /\ started_cpus' = loaded[a] + 1
  /\ UNCHANGED <<loaded, ticking>>

ApReturn(a) ==
  /\ ApGoes(a, "return", "halt")
  /\ UNCHANGED <<started_cpus, loaded, ticking>>
-----------------------------------------------------------------------------
BspStep ==
  \/ Skip \/ SendInit \/ InitTimeout \/ SendStartup
  \/ Answered \/ WaitAgain \/ Retry \/ Panic
  \/ StartedAll \/ init_scheduler \/ start_kmain_thread

ApStep(a) ==
  ApInit(a) \/ ApInitScheduler(a) \/ ApLoad(a) \/ ApStore(a) \/ ApReturn(a)

BootNext == BspStep \/ \E a \in Ap : ApStep(a)

BootSpec == BootInit /\ [][BootNext]_bootVars /\ WF_bootVars(BspStep) /\ \A a \in Ap : WF_bootVars(ApStep(a))
-----------------------------------------------------------------------------
(* One processor at a time uses ap_boot_stack, whatever is retried and     *)
(* however late an answer comes; so no increment of started_cpus is lost.  *)
OneOnStack ==
  \A a, b \in Ap : ap[a] \in Booting /\ ap[b] \in Booting => a = b

(* When the timer interrupt becomes the scheduler's, which happens for all *)
(* processors at once, every one of them has set itself up and ticks.      *)
ReadyForScheduler ==
  isr = "timer" => ticking = Cpu /\ \A a \in Ap : ap[a] \in {"return", "halt"}

(* The boot processor ends in kmain's thread or in a panic, and in the     *)
(* first case every other processor ends up waiting for work.              *)
BootEnds ==
  <>[](\/ bsp = "panic"
       \/ bsp = "halt" /\ \A a \in Ap : ap[a] = "halt")
=============================================================================
