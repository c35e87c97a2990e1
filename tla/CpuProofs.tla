----------------------------- MODULE CpuProofs ------------------------------
(***************************************************************************)
(* Proofs about CpuQueue, for every set of threads, every number of        *)
(* priorities and every quantum: the queue of a CPU holds the runnable     *)
(* threads exactly, the timer always finds a thread to run, and            *)
(* MSR_FS_BASE names the thread that runs.                                 *)
(*                                                                         *)
(* Then about Boot, which brings the CPUs to where they have such a queue, *)
(* for any number of processors, whichever of them boots and however many  *)
(* rounds are waited; and about boot64 as a whole, on any machine: its     *)
(* steps are steps of Boot, the APIC timers count what they should, and    *)
(* interrupts are taken on stacks of their own.                            *)
(***************************************************************************)
EXTENDS CpuQueue, Startup, RunQueueProofs

(* The queue is well formed and holds the threads that are running. *)
RunningInQueue ==
  /\ WellFormed(rq)
  /\ \A t \in Thread : t \in Members(rq) <=> state[t] = "running"

(* A thread's saved context is its own code, or the idle loop where it was *)
(* paused before the timer had loaded it.                                  *)
OwnOrIdle == \A t \in Thread : ctx[t] \in {t, NULL}

QueueInv == TypeOK /\ RunningInQueue /\ OwnOrIdle /\ FsIsCurrent

LEMMA QueueInit == Init => QueueInv
<1> SUFFICES ASSUME Init PROVE QueueInv
  OBVIOUS
<1>1. RunningInQueue /\ IsIdle(rq)
  BY EmptyFacts DEF Init, RunningInQueue
<1>2. TypeOK
  <2>1. rq \in Queue
    BY <1>1 DEF RunningInQueue, WellFormed
  <2>2. 0 \in 0 .. Quantum
    BY QuantumAssumption
  <2> QED
    BY <2>1, <2>2 DEF Init, TypeOK, States
<1>3. OwnOrIdle /\ FsIsCurrent
  BY <1>1 DEF Init, OwnOrIdle, FsIsCurrent
<1> QED
  BY <1>1, <1>2, <1>3 DEF QueueInv

LEMMA ResumeStep ==
  ASSUME QueueInv, NEW t \in Thread, Resume(t)
  PROVE  QueueInv'
<1> USE DEF QueueInv
<1>1. t \notin Members(rq) /\ WellFormed(rq)
  BY DEF Resume, RunningInQueue
<1>2. /\ WellFormed(rq') /\ Members(rq') = Members(rq) \cup {t}
      /\ ~IsIdle(rq')
      /\ IsIdle(rq) => rq'.load
      /\ ~IsIdle(rq) => Current(rq') = Current(rq) /\ rq'.load = rq.load
  BY <1>1, ResumedFacts DEF Resume
<1>3. TypeOK'
  <2>1. rq' \in Queue
    BY <1>2 DEF WellFormed
  <2>2. Quantum \in 0 .. Quantum
    BY QuantumAssumption
  <2> QED
    BY <2>1, <2>2 DEF Resume, TypeOK, States
<1>4. RunningInQueue'
  BY <1>2 DEF Resume, RunningInQueue, TypeOK
<1>5. OwnOrIdle' /\ FsIsCurrent'
  BY <1>2 DEF Resume, OwnOrIdle, FsIsCurrent
<1> QED
  BY <1>3, <1>4, <1>5

LEMMA DeactivateStep ==
  ASSUME QueueInv, NEW t \in Thread, NEW to \in {"paused", "stopped"},
         Deactivate(t, to)
  PROVE  QueueInv'
<1> USE DEF QueueInv
<1>1. t \in Members(rq) /\ WellFormed(rq) /\ ~IsIdle(rq)
  BY WellFormedFacts DEF Deactivate, RunningInQueue
<1>2. /\ WellFormed(rq') /\ Members(rq') = Members(rq) \ {t}
      /\ IsCurrent(rq, t) => IsIdle(rq') \/ rq'.load
      /\ ~IsCurrent(rq, t) =>
           ~IsIdle(rq') /\ Current(rq') = Current(rq) /\ rq'.load = rq.load
  BY <1>1, PausedFacts DEF Deactivate
<1>3. TypeOK'
  <2>1. rq' \in Queue
    BY <1>2 DEF WellFormed
  <2>2. 0 \in 0 .. Quantum
    BY QuantumAssumption
  <2> QED
    BY <2>1, <2>2 DEF Deactivate, TypeOK, States
<1>4. RunningInQueue'
  BY <1>2 DEF Deactivate, RunningInQueue, TypeOK
<1>5. OwnOrIdle' /\ FsIsCurrent'
  <2>1. CASE IsCurrent(rq, t)
    <3>1. frame \in {t, NULL}
      BY <2>1 DEF IsCurrent, FsIsCurrent
    <3> QED
      BY <1>2, <2>1, <3>1 DEF Deactivate, OwnOrIdle, FsIsCurrent, TypeOK
  <2>2. CASE ~IsCurrent(rq, t)
    BY <1>1, <1>2, <2>2 DEF Deactivate, OwnOrIdle, FsIsCurrent
  <2> QED
    BY <2>1, <2>2
<1> QED
  BY <1>3, <1>4, <1>5

LEMMA TickStep ==
  ASSUME QueueInv, Tick
  PROVE  QueueInv'
<1> USE DEF QueueInv
<1>1. CASE TickLoad
  <2>1. /\ ~IsIdle(rq) /\ WellFormed(rq) /\ Current(rq) \in Thread
        /\ WellFormed(rq') /\ Members(rq') = Members(rq)
        /\ ~IsIdle(rq') /\ Current(rq') = Current(rq) /\ rq'.load = FALSE
    BY <1>1, WellFormedFacts, LoadedFacts DEF TickLoad, RunningInQueue
  <2>2. TypeOK'
    BY <1>1, <2>1 DEF TickLoad, TypeOK, WellFormed
  <2>3. RunningInQueue'
    BY <1>1, <2>1 DEF TickLoad, RunningInQueue
  <2>4. OwnOrIdle' /\ FsIsCurrent'
    BY <1>1, <2>1 DEF TickLoad, OwnOrIdle, FsIsCurrent
  <2> QED
    BY <2>2, <2>3, <2>4
<1>2. CASE TickCount
  <2>1. Current(rq) \in Thread
    BY <1>2, WellFormedFacts DEF TickCount, RunningInQueue
  <2>2. quantum[Current(rq)] - 1 \in 0 .. Quantum
    BY <1>2, <2>1, QuantumAssumption DEF TickCount, KeepsRunning, TypeOK
  <2>3. TypeOK'
    BY <1>2, <2>2 DEF TickCount, TypeOK
  <2> QED
    BY <1>2, <2>3 DEF TickCount, RunningInQueue, OwnOrIdle, FsIsCurrent
<1>3. CASE TickSwitch
  <2>1. PICK t \in Thread : t = Current(rq)
    BY <1>3, WellFormedFacts DEF TickSwitch, RunningInQueue
  <2>2. /\ WellFormed(rq) /\ ~IsIdle(rq) /\ ~rq.load
        /\ rq' = Switched(rq)
    BY <1>3 DEF TickSwitch, RunningInQueue
  <2>3. /\ WellFormed(rq') /\ Members(rq') = Members(rq)
        /\ ~IsIdle(rq') /\ rq'.load = rq.load
    BY <2>2, SwitchedFacts
  <2>4. Current(rq') \in Thread
    BY <2>3, WellFormedFacts
  <2>5. /\ quantum' = [quantum EXCEPT ![t] = Quantum]
        /\ ctx' = [ctx EXCEPT ![t] = frame]
        /\ Current(rq') # t => fs' = Current(rq') /\ frame' = ctx[Current(rq')]
        /\ Current(rq') = t => fs' = fs /\ frame' = frame
        /\ state' = state
    BY <1>3, <2>1, <2>2 DEF TickSwitch
  <2>6. fs = t /\ frame \in {t, NULL}
    BY <2>1, <2>2 DEF FsIsCurrent
  <2>7. TypeOK'
    <3>1. rq' \in Queue
      BY <2>3 DEF WellFormed
    <3>2. Quantum \in 0 .. Quantum
      BY QuantumAssumption
    <3> QED
      BY <2>4, <2>5, <2>6, <3>1, <3>2 DEF TypeOK
  <2>8. RunningInQueue'
    BY <2>3, <2>5 DEF RunningInQueue
  <2>9. OwnOrIdle'
    BY <2>5, <2>6 DEF OwnOrIdle, TypeOK
  <2>10. FsIsCurrent'
    BY <2>2, <2>3, <2>4, <2>5, <2>6 DEF FsIsCurrent, OwnOrIdle
  <2> QED
    BY <2>7, <2>8, <2>9, <2>10
<1> QED
  BY <1>1, <1>2, <1>3 DEF Tick

LEMMA Inductive == Spec => []QueueInv
<1>1. QueueInv /\ [Next]_vars => QueueInv'
  <2> SUFFICES ASSUME QueueInv, [Next]_vars PROVE QueueInv'
    OBVIOUS
  <2>1. CASE UNCHANGED vars
    BY <2>1
    DEF vars, QueueInv, TypeOK, RunningInQueue, OwnOrIdle, FsIsCurrent
  <2>2. ASSUME NEW t \in Thread,
               SetContext(t) \/ Attach(t) \/ Detach(t) \/ StopPaused(t)
        PROVE  QueueInv'
    BY <2>2
    DEF SetContext, Attach, Detach, StopPaused, QueueInv, TypeOK, States,
        RunningInQueue, OwnOrIdle, FsIsCurrent
  <2> QED
    BY <2>1, <2>2, ResumeStep, DeactivateStep, TickStep DEF Next
<1> QED
  BY QueueInit, <1>1, PTL DEF Spec, Steps
-----------------------------------------------------------------------------
(* How often a thread is in a list without repetitions *)
LEMMA OccurrencesFacts ==
  ASSUME NEW s \in Seq(Thread), NEW t, Distinct(s)
  PROVE  Occurrences(t, s) = IF t \in ToSet(s) THEN 1 ELSE 0
<1> DEFINE I == {n \in DOMAIN s : s[n] = t}
<1>1. CASE t \in ToSet(s)
  <2>1. PICK n \in DOMAIN s : s[n] = t
    BY <1>1 DEF ToSet
  <2>2. I = {n}
    BY <2>1 DEF Distinct
  <2>3. Cardinality({n}) = 1
    BY FS_Singleton
  <2> QED
    BY <1>1, <2>2, <2>3 DEF Occurrences
<1>2. CASE t \notin ToSet(s)
  <2>1. I = {}
    BY <1>2 DEF ToSet
  <2>2. Cardinality({}) = 0
    BY FS_EmptySet
  <2> QED
    BY <1>2, <2>1, <2>2 DEF Occurrences
<1> QED
  BY <1>1, <1>2

(* Every variable of CpuQueue stays within its type. *)
THEOREM TypeCorrect == Spec => []TypeOK
<1>1. QueueInv => TypeOK
  BY DEF QueueInv
<1> QED
  BY Inductive, <1>1, PTL

(* The lists of a CPU hold exactly the threads in THREAD_STATE_RUNNING,    *)
(* each once and under its own priority.                                   *)
THEOREM QueueHoldsTheRunnable == Spec => []QueueIsExact
<1>1. QueueInv => QueueIsExact
  <2> SUFFICES ASSUME QueueInv, NEW t \in Thread, NEW p \in Prio
               PROVE  Occurrences(t, rq.active[p]) + Occurrences(t, rq.expired[p])
                        = IF state[t] = "running" /\ Priority[t] = p THEN 1 ELSE 0
    BY DEF QueueIsExact
  <2>1. WellFormed(rq) /\ (t \in Members(rq) <=> state[t] = "running")
    BY DEF QueueInv, RunningInQueue
  <2>2. /\ rq.active[p] \in Seq(Thread) /\ rq.expired[p] \in Seq(Thread)
        /\ Apart(rq, p)
    BY <2>1 DEF WellFormed, Queue, ListsOK
  <2>3. /\ Occurrences(t, rq.active[p]) = IF t \in ToSet(rq.active[p]) THEN 1 ELSE 0
        /\ Occurrences(t, rq.expired[p]) = IF t \in ToSet(rq.expired[p]) THEN 1 ELSE 0
    BY <2>2, OccurrencesFacts DEF Apart
  <2>4. t \in At(rq, p) <=> t \in Members(rq) /\ Priority[t] = p
    BY <2>1, <2>2, WellFormedFacts DEF Apart
  <2>5. /\ t \in At(rq, p) <=> t \in ToSet(rq.active[p]) \/ t \in ToSet(rq.expired[p])
        /\ ~(t \in ToSet(rq.active[p]) /\ t \in ToSet(rq.expired[p]))
    BY <2>2 DEF At, Apart
  <2> QED
    BY <2>1, <2>3, <2>4, <2>5
<1> QED
  BY Inductive, <1>1, PTL

(* The timer handler finds a thread wherever it looks for one without a    *)
(* test.                                                                   *)
THEOREM TimerFindsAThread == Spec => []NextThreadExists
<1>1. QueueInv => NextThreadExists
  BY WellFormedFacts DEF QueueInv, RunningInQueue, NextThreadExists, Mask
<1> QED
  BY Inductive, <1>1, PTL

(* __get_thread answers the thread that runs on the CPU. *)
THEOREM FsNamesTheCurrent == Spec => []FsIsCurrent
<1>1. QueueInv => FsIsCurrent
  BY DEF QueueInv
<1> QED
  BY Inductive, <1>1, PTL
-----------------------------------------------------------------------------
Done == {"return", "halt"}

(* The loop of start_ap_cpus: the processors before i are done and tick,   *)
(* those after it are off, and i itself is where start_ap_cpu has got to.  *)
LoopOK ==
  /\ \A a \in Ap : a < i => ap[a] \in Done
  /\ \A a \in Ap : a > i => ap[a] = "off"
  /\ bsp = "next" => \A a \in Ap : a = i => ap[a] = "off"
  /\ bsp = "init" => i \in Ap /\ ap[i] = "reset"
  /\ bsp \in {"startup", "wait", "panic"} => i \in Ap /\ ap[i] # "off"
  /\ bsp \in {"scheduler", "kmain", "halt"} => i = Cpus

(* While the processor being started has not counted itself, started_cpus  *)
(* is what start_ap_cpu read before it sent the first startup message.     *)
CountOK ==
  /\ bsp \in {"startup", "wait", "panic"} /\ ap[i] \notin Done => started_cpus = cpus
  /\ \A a \in Ap : ap[a] = "store" => loaded[a] = started_cpus

TickOK ==
  /\ \A a \in Ap : ap[a] \in {"load", "store"} \cup Done => a \in ticking
  /\ isr = "timer" => bsp \in {"kmain", "halt"} /\ Bsp \in ticking

BootInv == BootTypeOK /\ LoopOK /\ CountOK /\ TickOK

LEMMA BootInvInit == BootInit => BootInv
  BY BootAssumption
     DEF BootInit, BootInv, BootTypeOK, LoopOK, CountOK, TickOK, Ap, Cpu, Stage, Booting, Done

(* The boot processor *)
LEMMA BspKeepsInv ==
  ASSUME BootInv, BspStep
  PROVE  BootInv'
<1> USE BootAssumption DEF BootInv, BootTypeOK, LoopOK, CountOK, TickOK, Ap, Cpu, Stage,
                           Booting, Done, apVars
<1>1. CASE Skip
  BY <1>1 DEF Skip
<1>2. CASE SendInit
  BY <1>2 DEF SendInit
<1>3. CASE InitTimeout
  BY <1>3 DEF InitTimeout
<1>4. CASE SendStartup
  BY <1>4 DEF SendStartup
<1>5. CASE Answered
  <2>1. i \in Ap /\ ap[i] \in Done
    BY <1>5 DEF Answered
  <2> QED
    BY <1>5, <2>1 DEF Answered
<1>6. CASE WaitAgain
  BY <1>6 DEF WaitAgain
<1>7. CASE Retry
  BY <1>7 DEF Retry
<1>8. CASE Panic
  BY <1>8 DEF Panic
<1>9. CASE StartedAll
  BY <1>9 DEF StartedAll
<1>10. CASE init_scheduler
  BY <1>10 DEF init_scheduler
<1>11. CASE start_kmain_thread
  BY <1>11 DEF start_kmain_thread
<1> QED
  BY <1>1, <1>2, <1>3, <1>4, <1>5, <1>6, <1>7, <1>8, <1>9, <1>10, <1>11
     DEF BspStep

(* A processor that boots is the one the boot processor waits for. *)
LEMMA BootingIsCurrent ==
  ASSUME BootInv, NEW a \in Ap, ap[a] \in Booting
  PROVE  a = i /\ bsp \in {"startup", "wait", "panic"}
  BY BootAssumption DEF BootInv, BootTypeOK, LoopOK, Ap, Cpu, Stage, Booting, Done

(* The other processors *)
LEMMA ApKeepsInv ==
  ASSUME BootInv, NEW a \in Ap, ApStep(a)
  PROVE  BootInv'
<1> USE BootAssumption DEF BootInv, BootTypeOK, LoopOK, CountOK, TickOK, Ap, Cpu, Stage,
                           Booting, Done, bspVars
<1>1. CASE ApInit(a)
  BY <1>1, BootingIsCurrent DEF ApInit, ApGoes
<1>2. CASE ApInitScheduler(a)
  BY <1>2, BootingIsCurrent DEF ApInitScheduler, ApGoes
<1>3. CASE ApLoad(a)
  BY <1>3, BootingIsCurrent DEF ApLoad, ApGoes
<1>4. CASE ApStore(a)
  BY <1>4, BootingIsCurrent DEF ApStore, ApGoes
<1>5. CASE ApReturn(a)
  BY <1>5 DEF ApReturn, ApGoes
<1> QED
  BY <1>1, <1>2, <1>3, <1>4, <1>5 DEF ApStep

LEMMA BootInvStep == BootInv /\ [BootNext]_bootVars => BootInv'
<1>1. BootInv /\ UNCHANGED bootVars => BootInv'
  BY DEF BootInv, BootTypeOK, LoopOK, CountOK, TickOK, bootVars
<1> QED
  BY <1>1, BspKeepsInv, ApKeepsInv DEF BootNext

LEMMA BootInvHolds == BootSpec => []BootInv
  BY BootInvInit, BootInvStep, PTL DEF BootSpec

(* The variables of boot64 and start_ap_cpu keep their types; in           *)
(* particular i never passes the number of processors.                     *)
THEOREM BootTypeCorrect == BootSpec => []BootTypeOK
  BY BootInvHolds, PTL DEF BootInv

LEMMA PrivateByInv == BootInv => OneOnStack
  BY BootingIsCurrent DEF OneOnStack

LEMMA ReadyByInv == BootInv => ReadyForScheduler
<1>1. ASSUME BootInv, isr = "timer"
      PROVE  ticking = Cpu /\ \A a \in Ap : ap[a] \in {"return", "halt"}
  <2>1. i = Cpus /\ Bsp \in ticking /\ ticking \subseteq Cpu
    BY <1>1 DEF BootInv, BootTypeOK, LoopOK, TickOK
  <2>2. \A a \in Ap : ap[a] \in Done
    <3>1. \A a \in Ap : a < i
      BY <2>1, BootAssumption DEF Ap, Cpu
    <3> QED
      BY <1>1, <3>1 DEF BootInv, LoopOK
  <2>3. \A a \in Ap : a \in ticking
    BY <1>1, <2>2 DEF BootInv, TickOK
  <2>4. Cpu \subseteq ticking
    BY <2>1, <2>3 DEF Ap
  <2> QED
    BY <2>1, <2>2, <2>4 DEF Done
<1> QED
  BY <1>1 DEF ReadyForScheduler

(* However many processors there are and however late they answer, two of  *)
(* them are never on ap_boot_stack at the same time.                       *)
THEOREM StackIsPrivate == BootSpec => []OneOnStack
  BY BootInvHolds, PrivateByInv, PTL

(* The scheduler's timer handler is installed only after every processor   *)
(* has set itself up.                                                      *)
THEOREM SchedulerComesLast == BootSpec => []ReadyForScheduler
  BY BootInvHolds, ReadyByInv, PTL
-----------------------------------------------------------------------------
(* What boot64 does before the loop is not seen by Boot, and what it does  *)
(* in the loop to memory, gates and timers does not disturb it.            *)
LEMMA StartupSteps == [StartupNext]_<<bootVars, setup>> => [BootNext]_bootVars
<1> SUFFICES ASSUME [StartupNext]_<<bootVars, setup>> PROVE [BootNext]_bootVars
  OBVIOUS
<1>1. CASE init_acpi \/ init_cpu_info \/ init_memory
  BY <1>1 DEF init_acpi, init_cpu_info, init_memory
<1>2. CASE init_interrupts \/ init_apic \/ start_ap_cpus
  BY <1>2 DEF init_interrupts, init_apic, start_ap_cpus
<1>3. CASE BspStarts
  BY <1>3 DEF BspStarts, BspStep, BootNext
<1>4. ASSUME NEW a \in Ap, ApStarts(a) PROVE BootNext
  BY <1>4 DEF ApStarts, ApStep, BootNext
<1>5. CASE UNCHANGED <<bootVars, setup>>
  BY <1>5
<1> QED
  BY <1>1, <1>2, <1>3, <1>4, <1>5 DEF StartupNext, Boot64

(* boot64 as a whole behaves as Boot says, up to its fairness. *)
THEOREM StartupImplementsBoot == StartupSpec => BootInit /\ [][BootNext]_bootVars
<1>1. StartupInit => BootInit
  BY DEF StartupInit
<1> QED
  BY <1>1, StartupSteps, PTL DEF StartupSpec

LEMMA StartupInv == StartupSpec => []BootInv
<1>1. BootInv /\ [BootNext]_bootVars => BootInv'
  BY BootInvStep
<1> QED
  BY <1>1, BootInvInit, StartupImplementsBoot, PTL

(* OneOnStack, of boot64 as a whole: on no machine do two processors meet  *)
(* on ap_boot_stack.                                                       *)
THEOREM StartupStackIsPrivate == StartupSpec => []OneOnStack
  BY StartupInv, PrivateByInv, PTL

(* ReadyForScheduler, of boot64 as a whole: on no machine does the timer   *)
(* become the scheduler's before every processor has set itself up.        *)
THEOREM StartupSchedulerComesLast == StartupSpec => []ReadyForScheduler
  BY StartupInv, ReadyByInv, PTL
-----------------------------------------------------------------------------
LEMMA MaxFacts ==
  ASSUME NEW n \in Nat, NEW S \in SUBSET (0 .. n), S # {}
  PROVE  Max(S) \in S /\ \A y \in S : y <= Max(S)
<1> DEFINE T == {k \in 0 .. n : n - k \in S}
<1>1. T \in SUBSET Nat /\ T # {}
  <2>1. PICK s \in S : TRUE
    OBVIOUS
  <2>2. n - s \in T
    BY <2>1
  <2> QED
    BY <2>2
<1>2. PICK m \in T : \A k \in T : m <= k
  BY <1>1, LeastExists
<1>3. n - m \in S
  BY <1>2
<1>4. ASSUME NEW y \in S PROVE n - m >= y
  <2>1. n - y \in T
    OBVIOUS
  <2>2. m <= n - y
    BY <1>2, <2>1
  <2> QED
    BY <1>2, <2>2
<1>5. \E x \in S : \A y \in S : x >= y
  BY <1>3, <1>4
<1>6. Max(S) \in S /\ \A y \in S : Max(S) >= y
  BY <1>5, Zenon DEF Max
<1> QED
  BY <1>6

(* bsrq of what the timer is to count, against the bits of its register *)
LEMMA BsrqFacts ==
  ASSUME NEW v \in Nat \ {0}, v < 2 * 2 ^ RegBits
  PROVE  /\ bsrq(v) \in Nat
         /\ v < 2 ^ RegBits => bsrq(v) < RegBits
         /\ v >= 2 ^ RegBits => bsrq(v) = RegBits
<1>1. RegBits \in Nat /\ QuadBits \in Nat /\ RegBits < QuadBits
  BY StartupAssumption
<1>2. PICK n \in Nat : n = QuadBits - 1
  BY <1>1
<1>3. PICK S \in SUBSET (0 .. n) : S = {b \in 0 .. QuadBits - 1 : 2 ^ b <= v}
  BY <1>2
<1>4. 2 ^ 0 = 1
  OBVIOUS
<1>5. 0 \in S
  BY <1>1, <1>3, <1>4
<1>6. PICK x \in S : x = bsrq(v) /\ \A y \in S : y <= x
  BY <1>3, <1>5, MaxFacts DEF bsrq
<1>7. x \in 0 .. QuadBits - 1 /\ 2 ^ x <= v
  BY <1>3, <1>6
<1>8. PICK r \in Nat, p \in Nat : r = 2 ^ RegBits /\ p = 2 ^ x
  BY <1>1, <1>7, RegPowers
<1>9. x >= RegBits => p >= r
  BY <1>1, <1>7, <1>8, RegPowers
<1>10. x >= RegBits + 1 => p >= 2 * r
  BY <1>1, <1>7, <1>8, RegPowers
<1>11. v >= r => RegBits \in S
  BY <1>1, <1>3, <1>8
<1>12. v < r => x < RegBits
  BY <1>1, <1>7, <1>8, <1>9
<1>13. v >= r => x = RegBits
  <2>1. x < RegBits + 1
    BY <1>1, <1>7, <1>8, <1>10
  <2> QED
    BY <1>1, <1>6, <1>7, <1>11, <2>1
<1> QED
  BY <1>6, <1>7, <1>8, <1>12, <1>13

(* What start_apic_timer writes for the two intervals it is called with *)
LEMMA ScaledFacts ==
  ASSUME NEW n \in {CONFIG_SCHEDULER_TICK_INTERVAL, AP_CPU_TIMEOUT},
         NEW t \in 10 .. 2 ^ RegBits - 1
  PROVE  \E k \in 1 .. 2 ^ RegBits - 1, d \in 1 .. 2 :
           /\ Scaled((n * t) \div 10000) = [initial |-> k, divide |-> d]
           /\ k * d * 10000 <= n * t /\ n * t < (k + 1) * d * 10000
<1>1. RegBits \in Nat /\ QuadBits \in Nat /\ RegBits < QuadBits
  BY StartupAssumption
<1>2. PICK r \in Nat \ {0} : r = 2 ^ RegBits
  BY <1>1, RegPowers
<1>3. t \in Nat /\ t >= 10 /\ t < r
  BY <1>2
<1>4. n * t = 1000 * t \/ n * t = 20000 * t
  BY DEF CONFIG_SCHEDULER_TICK_INTERVAL, AP_CPU_TIMEOUT
<1>5. PICK z \in Nat : z = n * t /\ z >= 10000 /\ z < 20000 * r
  BY <1>3, <1>4
<1>6. PICK v \in Nat : v = z \div 10000 /\ 10000 * v <= z /\ z < 10000 * (v + 1)
  OBVIOUS
<1>7. v >= 1 /\ v < 2 * r
  BY <1>5, <1>6
<1>8. /\ bsrq(v) \in Nat
      /\ v < r => bsrq(v) < RegBits
      /\ v >= r => bsrq(v) = RegBits
  BY <1>2, <1>7, BsrqFacts
<1>9. CASE v < r
  <2>1. bsrq(v) - (RegBits - 1) \notin 1 .. 7
    BY <1>1, <1>8, <1>9
  <2>2. Scaled(v) = [initial |-> v, divide |-> 1]
    BY <1>7, <2>1 DEF Scaled, extra_bits
  <2>3. v \in 1 .. 2 ^ RegBits - 1
    BY <1>2, <1>7, <1>9
  <2>4. v * 1 * 10000 <= z /\ z < (v + 1) * 1 * 10000
    BY <1>6
  <2> QED
    BY <1>5, <1>6, <2>2, <2>3, <2>4
<1>10. CASE v >= r
  <2>1. bsrq(v) - (RegBits - 1) = 1
    BY <1>1, <1>8, <1>10
  <2>2. 2 ^ 1 = 2
    OBVIOUS
  <2>3. Scaled(v) = [initial |-> v \div 2, divide |-> 2]
    <3>1. bsrq(v) - (RegBits - 1) \in 1 .. 7
      BY <2>1
    <3>2. Scaled(v) = [initial |-> v \div 2 ^ (bsrq(v) - (RegBits - 1)),
                       divide |-> 2 ^ (bsrq(v) - (RegBits - 1))]
      BY <3>1, Zenon DEF Scaled, extra_bits
    <3> QED
      BY <2>1, <2>2, <3>2, Zenon
  <2>4. PICK k \in Nat : k = v \div 2 /\ 2 * k <= v /\ v < 2 * k + 2
    OBVIOUS
  <2>5. k \in 1 .. 2 ^ RegBits - 1
    BY <1>2, <1>3, <1>7, <1>10, <2>4
  <2>6. k * 2 * 10000 <= z /\ z < (k + 1) * 2 * 10000
    BY <1>6, <2>4
  <2> QED
    BY <1>5, <1>6, <2>3, <2>4, <2>5, <2>6
<1> QED
  BY <1>2, <1>9, <1>10
-----------------------------------------------------------------------------
(* What runs counts what it should. *)
CloseTo(t, ticks) ==
  /\ t.initial \in 1 .. 2 ^ RegBits - 1
  /\ t.initial * t.divide * 10000 <= t.interval * ticks
  /\ t.interval * ticks < (t.initial + 1) * t.divide * 10000

(* boot64 has not begun to start the others before it is done with itself, *)
(* and a processor that ticks has got that far.                            *)
SetupOK ==
  /\ machine \in Machines
  /\ phase # "started" => bsp = "next" /\ ticking = {} /\ \A a \in Ap : ap[a] = "off"
  /\ phase \in {"sti", "started"} => timer_10ms_ticks = machine.ticks
  /\ Bsp \in ticking => bsp \in {"kmain", "halt"}
  /\ \A a \in Ap : a \in ticking => ap[a] \in {"load", "store"} \cup Done

TimersOK ==
  /\ DOMAIN lapic = Cpu /\ lapic = [c \in Cpu |-> lapic[c]]
  /\ \A c \in Cpu : lapic[c] \notin {Off, Stopped} => CloseTo(lapic[c], machine.ticks)
  /\ \A c \in ticking : lapic[c].periodic /\ lapic[c].interval = CONFIG_SCHEDULER_TICK_INTERVAL

LEMMA TimersShow ==
  ASSUME BootInv, TimersOK
  PROVE  TimerIsClose
  BY DEF TimersOK, TimerIsClose, CloseTo

LEMMA StartTimerFacts ==
  ASSUME SetupOK, TimersOK, phase = "started", NEW c \in Cpu, NEW per \in BOOLEAN,
         NEW n \in {CONFIG_SCHEDULER_TICK_INTERVAL, AP_CPU_TIMEOUT},
         start_apic_timer(c, n, per), machine' = machine
  PROVE  /\ DOMAIN lapic' = Cpu /\ lapic' = [x \in Cpu |-> lapic'[x]]
         /\ \A x \in Cpu : lapic'[x] \notin {Off, Stopped} => CloseTo(lapic'[x], machine.ticks)
         /\ \A x \in Cpu : x # c => lapic'[x] = lapic[x]
         /\ lapic'[c].periodic = per /\ lapic'[c].interval = n
<1>1. machine.ticks \in 10 .. 2 ^ RegBits - 1 /\ timer_10ms_ticks = machine.ticks
  BY StartupAssumption DEF SetupOK
<1>2. PICK k \in 1 .. 2 ^ RegBits - 1, d \in 1 .. 2 :
           /\ Scaled((n * machine.ticks) \div 10000) = [initial |-> k, divide |-> d]
           /\ k * d * 10000 <= n * machine.ticks /\ n * machine.ticks < (k + 1) * d * 10000
  BY <1>1, ScaledFacts
<1>3. PICK s : s = Scaled((n * timer_10ms_ticks) \div 10000)
  OBVIOUS
<1>4. s = [initial |-> k, divide |-> d]
  BY <1>1, <1>2, <1>3
<1>5. lapic' = [lapic EXCEPT ![c] = [interval |-> n, initial |-> s.initial,
                                     divide |-> s.divide, periodic |-> per]]
  <2>1. lapic' = [lapic EXCEPT ![c] =
                    [interval |-> n, initial |-> Scaled((n * timer_10ms_ticks) \div 10000).initial,
                     divide |-> Scaled((n * timer_10ms_ticks) \div 10000).divide,
                     periodic |-> per]]
    BY DEF start_apic_timer
  <2> QED
    BY <1>3, <2>1
<1>6. PICK t : t = [interval |-> n, initial |-> k, divide |-> d, periodic |-> per]
  OBVIOUS
<1>7. lapic' = [lapic EXCEPT ![c] = t]
  BY <1>4, <1>5, <1>6
<1>8. CloseTo(t, machine.ticks)
  BY <1>2, <1>6 DEF CloseTo
<1>9. \A x \in Cpu : lapic'[x] = IF x = c THEN t ELSE lapic[x]
  BY <1>7 DEF TimersOK
<1>10. DOMAIN lapic' = Cpu /\ lapic' = [x \in Cpu |-> lapic'[x]]
  BY <1>7 DEF TimersOK
<1> QED
  BY <1>6, <1>8, <1>9, <1>10 DEF TimersOK

LEMMA StoppedTimerFacts ==
  ASSUME TimersOK, NEW c, lapic' = [lapic EXCEPT ![c] = Stopped], machine' = machine,
         ticking' = ticking, c \notin ticking, ticking \subseteq Cpu
  PROVE  TimersOK'
<1>1. DOMAIN lapic' = Cpu /\ lapic' = [x \in Cpu |-> lapic'[x]]
  BY DEF TimersOK
<1>2. \A x \in Cpu : lapic'[x] = IF x = c THEN Stopped ELSE lapic[x]
  BY DEF TimersOK
<1>3. Cpu' = Cpu /\ Stopped' = Stopped /\ Off' = Off
  BY DEF Cpu, Stopped, Off
<1>4. \A x \in Cpu : lapic'[x] \notin {Off, Stopped} => CloseTo(lapic'[x], machine'.ticks)
  BY <1>2 DEF TimersOK
<1>5. \A x \in ticking : lapic'[x].periodic /\ lapic'[x].interval = CONFIG_SCHEDULER_TICK_INTERVAL
  BY <1>2 DEF TimersOK
<1> QED
  BY <1>1, <1>3, <1>4, <1>5 DEF TimersOK, CloseTo

LEMMA SameTimerFacts ==
  ASSUME TimersOK, lapic' = lapic, machine' = machine, ticking' = ticking
  PROVE  TimersOK'
  BY DEF TimersOK, CloseTo, Cpu, Stopped, Off

LEMMA SetupInit == StartupInit => SetupOK /\ TimersOK
<1> SUFFICES ASSUME StartupInit PROVE SetupOK /\ TimersOK
  OBVIOUS
<1>1. /\ machine \in Machines /\ phase = "acpi" /\ bsp = "next" /\ ticking = {}
      /\ ap = [a \in Ap |-> "off"] /\ lapic = [c \in Cpu |-> Off]
  BY DEF StartupInit, BootInit
<1> QED
  BY <1>1 DEF SetupOK, TimersOK

(* The steps before the loop leave the variables of Boot alone. *)
LEMMA SetupBefore ==
  ASSUME BootInv, SetupOK, TimersOK,
         init_acpi \/ init_cpu_info \/ init_memory \/ init_interrupts \/ init_apic \/ start_ap_cpus
  PROVE  SetupOK' /\ TimersOK'
<1>1. /\ machine' = machine /\ phase # "started" /\ phase' # phase
      /\ bsp' = bsp /\ ticking' = ticking /\ ap' = ap
  BY DEF init_acpi, init_cpu_info, init_memory, init_interrupts, init_apic, start_ap_cpus, Reads,
         bootVars
<1>2. phase' \in {"sti", "started"} => timer_10ms_ticks' = machine.ticks
  BY DEF init_acpi, init_cpu_info, init_memory, init_interrupts, init_apic, start_ap_cpus, Reads,
         SetupOK
<1>3. SetupOK'
  BY <1>1, <1>2 DEF SetupOK
<1>4. CASE init_apic
  <2>1. lapic' = [lapic EXCEPT ![__bsp_cpu] = Stopped] /\ ticking = {}
    BY <1>1, <1>4 DEF init_apic, SetupOK
  <2>2. __bsp_cpu \notin ticking /\ ticking \subseteq Cpu
    BY <2>1
  <2>3. TimersOK'
    BY <1>1, <2>1, <2>2, StoppedTimerFacts
  <2> QED
    BY <1>3, <2>3
<1>5. CASE lapic' = lapic
  BY <1>1, <1>3, <1>5, SameTimerFacts
<1>6. init_apic \/ lapic' = lapic
  BY DEF init_acpi, init_cpu_info, init_memory, init_interrupts, start_ap_cpus
<1> QED
  BY <1>3, <1>4, <1>5, <1>6

LEMMA SetupBsp ==
  ASSUME BootInv, SetupOK, TimersOK, BspStarts
  PROVE  SetupOK' /\ TimersOK'
<1>0. /\ phase = "started" /\ phase' = phase /\ machine' = machine
      /\ timer_10ms_ticks' = timer_10ms_ticks /\ Bsp \in Cpu /\ ticking \subseteq Cpu
  BY BootAssumption DEF BspStarts, BootInv, BootTypeOK, Cpu
<1>1. CASE (SendInit \/ SendStartup \/ WaitAgain) /\ start_apic_timer(Bsp, AP_CPU_TIMEOUT, FALSE)
  <2>1. ticking' = ticking /\ bsp \in {"next", "startup", "wait"} /\ bsp' \in {"init", "wait"}
    BY <1>1 DEF SendInit, SendStartup, WaitAgain, apVars
  <2>2. Bsp \notin ticking
    BY <2>1 DEF SetupOK
  <2>3. \A a \in Ap : a \in ticking => ap'[a] \in {"load", "store"} \cup Done
    <3>1. CASE SendInit
      BY <3>1 DEF SendInit, SetupOK, BootInv, BootTypeOK, LoopOK, Done
    <3>2. CASE SendStartup
      BY <3>2 DEF SendStartup, SetupOK, BootInv, BootTypeOK, LoopOK, Done
    <3>3. CASE WaitAgain
      BY <3>3 DEF WaitAgain, SetupOK, apVars
    <3> QED
      BY <1>1, <3>1, <3>2, <3>3
  <2>4. SetupOK'
    BY <1>0, <2>1, <2>2, <2>3 DEF SetupOK, Ap, Cpu, Done
  <2>5. /\ DOMAIN lapic' = Cpu /\ lapic' = [x \in Cpu |-> lapic'[x]]
        /\ \A x \in Cpu : lapic'[x] \notin {Off, Stopped} => CloseTo(lapic'[x], machine.ticks)
        /\ \A x \in Cpu : x # Bsp => lapic'[x] = lapic[x]
    BY <1>0, <1>1, StartTimerFacts
  <2>6. \A c \in ticking : lapic'[c].periodic /\ lapic'[c].interval = CONFIG_SCHEDULER_TICK_INTERVAL
    BY <1>0, <2>2, <2>5 DEF TimersOK
  <2>7. TimersOK'
    BY <1>0, <2>1, <2>5, <2>6 DEF TimersOK, CloseTo, Cpu, Stopped, Off
  <2> QED
    BY <2>4, <2>7
<1>2. CASE init_scheduler /\ start_apic_timer(Bsp, CONFIG_SCHEDULER_TICK_INTERVAL, TRUE)
  <2>1. ticking' = ticking \cup {Bsp} /\ bsp' = "kmain" /\ ap' = ap
    BY <1>2 DEF init_scheduler
  <2>2. SetupOK'
    BY <1>0, <2>1 DEF SetupOK, Ap
  <2>3. /\ DOMAIN lapic' = Cpu /\ lapic' = [x \in Cpu |-> lapic'[x]]
        /\ \A x \in Cpu : lapic'[x] \notin {Off, Stopped} => CloseTo(lapic'[x], machine.ticks)
        /\ \A x \in Cpu : x # Bsp => lapic'[x] = lapic[x]
        /\ lapic'[Bsp].periodic = TRUE /\ lapic'[Bsp].interval = CONFIG_SCHEDULER_TICK_INTERVAL
    BY <1>0, <1>2, StartTimerFacts
  <2>4. \A c \in ticking' : lapic'[c].periodic /\ lapic'[c].interval = CONFIG_SCHEDULER_TICK_INTERVAL
    BY <1>0, <2>1, <2>3 DEF TimersOK
  <2>5. TimersOK'
    BY <1>0, <2>3, <2>4 DEF TimersOK, CloseTo, Cpu, Stopped, Off
  <2> QED
    BY <2>2, <2>5
<1>3. CASE (start_kmain_thread \/ Skip \/ InitTimeout \/ Answered \/ Retry \/ Panic \/ StartedAll)
            /\ lapic' = lapic
  <2>1. /\ ticking' = ticking /\ ap' = ap
        /\ bsp \in {"kmain", "halt"} => bsp' \in {"kmain", "halt"}
    BY <1>3 DEF start_kmain_thread, Skip, InitTimeout, Answered, Retry, Panic, StartedAll, apVars
  <2>2. SetupOK'
    BY <1>0, <2>1 DEF SetupOK
  <2> QED
    BY <1>0, <1>3, <2>1, <2>2, SameTimerFacts
<1> QED
  BY <1>1, <1>2, <1>3 DEF BspStarts

LEMMA SetupAp ==
  ASSUME BootInv, SetupOK, TimersOK, NEW a \in Ap, ApStarts(a)
  PROVE  SetupOK' /\ TimersOK'
<1>0. /\ phase' = phase /\ machine' = machine /\ bsp' = bsp
      /\ timer_10ms_ticks' = timer_10ms_ticks /\ a \in Cpu /\ a # Bsp /\ ticking \subseteq Cpu
      /\ ap[a] # "off"
  BY BootAssumption DEF ApStarts, ApInit, ApInitScheduler, ApLoad, ApStore, ApReturn, ApGoes,
                        bspVars, BootInv, BootTypeOK, Cpu, Ap
<1>1. phase = "started"
  BY <1>0 DEF SetupOK
<1>2. CASE ApInit(a) /\ lapic' = [lapic EXCEPT ![a] = Stopped]
  <2>1. ap[a] = "boot" /\ ap' = [ap EXCEPT ![a] = "scheduler"] /\ ticking' = ticking
    BY <1>2 DEF ApInit, ApGoes
  <2>2. a \notin ticking
    BY <2>1 DEF SetupOK, Done
  <2>3. SetupOK'
    BY <1>0, <1>1, <2>1, <2>2 DEF SetupOK, BootInv, BootTypeOK, Ap
  <2> QED
    BY <1>0, <1>2, <2>1, <2>2, <2>3, StoppedTimerFacts
<1>3. CASE ApInitScheduler(a) /\ start_apic_timer(a, CONFIG_SCHEDULER_TICK_INTERVAL, TRUE)
  <2>1. ap' = [ap EXCEPT ![a] = "load"] /\ ticking' = ticking \cup {a}
    BY <1>3 DEF ApInitScheduler, ApGoes
  <2>2. SetupOK'
    BY <1>0, <1>1, <2>1 DEF SetupOK, BootInv, BootTypeOK, Ap
  <2>3. /\ DOMAIN lapic' = Cpu /\ lapic' = [x \in Cpu |-> lapic'[x]]
        /\ \A x \in Cpu : lapic'[x] \notin {Off, Stopped} => CloseTo(lapic'[x], machine.ticks)
        /\ \A x \in Cpu : x # a => lapic'[x] = lapic[x]
        /\ lapic'[a].periodic = TRUE /\ lapic'[a].interval = CONFIG_SCHEDULER_TICK_INTERVAL
    BY <1>0, <1>1, <1>3, StartTimerFacts
  <2>4. \A c \in ticking' : lapic'[c].periodic /\ lapic'[c].interval = CONFIG_SCHEDULER_TICK_INTERVAL
    BY <1>0, <2>1, <2>3 DEF TimersOK
  <2>5. TimersOK'
    BY <1>0, <2>3, <2>4 DEF TimersOK, CloseTo, Cpu, Stopped, Off
  <2> QED
    BY <2>2, <2>5
<1>4. CASE (ApLoad(a) \/ ApStore(a) \/ ApReturn(a)) /\ lapic' = lapic
  <2>1. PICK s \in {"store"} \cup Done : ap' = [ap EXCEPT ![a] = s]
    BY <1>4 DEF ApLoad, ApStore, ApReturn, ApGoes, Done
  <2>2. ticking' = ticking
    BY <1>4 DEF ApLoad, ApStore, ApReturn
  <2>3. SetupOK'
    BY <1>0, <1>1, <2>1, <2>2 DEF SetupOK, BootInv, BootTypeOK, Ap
  <2> QED
    BY <1>0, <1>4, <2>2, <2>3, SameTimerFacts
<1> QED
  BY <1>2, <1>3, <1>4 DEF ApStarts

LEMMA SetupStep ==
  BootInv /\ SetupOK /\ TimersOK /\ [StartupNext]_<<bootVars, setup>> => SetupOK' /\ TimersOK'
<1> SUFFICES ASSUME BootInv, SetupOK, TimersOK, [StartupNext]_<<bootVars, setup>>
             PROVE  SetupOK' /\ TimersOK'
  OBVIOUS
<1>1. CASE UNCHANGED <<bootVars, setup>>
  <2>1. /\ lapic' = lapic /\ machine' = machine /\ ticking' = ticking /\ phase' = phase
        /\ bsp' = bsp /\ ap' = ap /\ timer_10ms_ticks' = timer_10ms_ticks
    BY <1>1 DEF bootVars, setup
  <2> QED
    BY <2>1, SameTimerFacts DEF SetupOK
<1>2. CASE Boot64
  BY <1>2, SetupBefore, SetupBsp DEF Boot64
<1>3. ASSUME NEW a \in Ap, ApStarts(a) PROVE SetupOK' /\ TimersOK'
  BY <1>3, SetupAp
<1> QED
  BY <1>1, <1>2, <1>3 DEF StartupNext

LEMMA SetupHolds == StartupSpec => [](SetupOK /\ TimersOK)
  BY SetupInit, SetupStep, StartupInv, PTL DEF StartupSpec

(* A timer that runs counts down over the interval it was started for, to  *)
(* within one step of its divisor, whatever the width of the register and  *)
(* however fast the timer; and that of a CPU that schedules is periodic.   *)
THEOREM TimersAreClose == StartupSpec => []TimerIsClose
  BY SetupHolds, StartupInv, TimersShow, PTL
-----------------------------------------------------------------------------
(* Where boot64 puts the interrupt stacks and the task segments *)
SegmentAt(n) == KernelEnd + Cpus * StackSize + n * TssSize
MemPages == (machine.mem_higher + 1024) \div 2 ^ 11
Counted == get_cpus = Cpus /\ DOMAIN descs = Cpu
LaidOut == phase \in {"apic", "sti", "started"}
Up == {"scheduler", "load", "store"} \cup Done

(* The processors are found again by their numbers and by their ids. *)
DescsOK ==
  /\ Counted /\ __bsp_cpu = Bsp /\ __cpu_indexes[machine.bsp_id] = Bsp
  /\ \A n \in Cpu : __cpu_indexes[descs[n].id] = n

SegmentsOK ==
  /\ DOMAIN tss = {SegmentAt(n) : n \in Cpu}
  /\ \A n \in Cpu : tss[SegmentAt(n)] = IsrStackTop(KernelEnd, n)
  /\ \A n \in Cpu : gdt[n] = TssDesc(SegmentAt(n))
  /\ next_free \in Nat /\ next_free >= SegmentAt(Cpus)

TablesOK ==
  /\ DOMAIN tr = Cpu
  /\ phase = "cpu_info" => madt = find_psdt_table(machine, "APIC")
  /\ phase \notin {"acpi", "cpu_info", "fault"} => DescsOK
  /\ phase = "interrupts" => next_free = KernelEnd
  /\ phase = "interrupts" \/ LaidOut => 0 .. MemPages - 1 \subseteq mapped
  /\ LaidOut => SegmentsOK /\ tr[Bsp] = Selector(Bsp)
  /\ phase \in {"sti", "started"} => {INT_VECTOR_APIC_SPURIOUS, INT_VECTOR_APIC_TIMER} \subseteq present
  /\ phase # "started" => stacks.ap = 0
  /\ DOMAIN stacks = {"isr", "ap"}
  /\ phase = "started" =>
       stacks.ap \in Nat /\ (stacks.ap = 0 \/ stacks.ap >= SegmentAt(Cpus))
  /\ isr = "timer" => INT_VECTOR_SCHEDULER_TASK \in present
  /\ \A a \in Ap : ap[a] \in Up => tr[a] = Selector(a)

(* Where an APIC is on *)
ApicsOK ==
  /\ lapic[Bsp] # Off => phase \in {"sti", "started"}
  /\ \A a \in Ap : lapic[a] # Off => ap[a] \in Up

LEMMA CountsFacts ==
  /\ Cpus \in Nat \ {0} /\ KernelEnd \in Nat /\ KernelEnd >= 8192 /\ ThreadSize \in Nat
  /\ StackSize = 4096 /\ TssSize = 104 /\ StackSize \in Nat /\ TssSize \in Nat
  BY BootAssumption, StartupAssumption, SMT DEF StackSize, TssSize

LEMMA SegmentAtFacts ==
  ASSUME NEW n \in Cpu
  PROVE  /\ SegmentAt(n) \in Nat
         /\ SegmentAt(n) >= KernelEnd + Cpus * StackSize
         /\ (SegmentAt(n) - (KernelEnd + Cpus * StackSize)) \div TssSize = n
  BY CountsFacts, SMT DEF SegmentAt, Cpu

(* The base of a task segment, taken apart and put together *)
LEMMA BaseFacts ==
  ASSUME NEW addr \in Nat
  PROVE  TssDesc(addr).base0 + TssDesc(addr).base1 * 2 ^ 16 + TssDesc(addr).base2 * 2 ^ 24
           + (TssDesc(addr).base3 * 2 ^ 24) * 2 ^ 8 = addr
<1>1. 2 ^ 8 = 256 /\ 2 ^ 16 = 256 * 256 /\ 2 ^ 24 = 256 * 256 * 256
  BY SMT
<1>2. PICK u \in Nat, b0 \in Nat : u = addr \div 2 ^ 16 /\ b0 = addr % 2 ^ 16 /\ addr = 256 * 256 * u + b0
  BY <1>1, SMT
<1>3. PICK w \in Nat, b1 \in Nat : w = addr \div 2 ^ 24 /\ b1 = u % 2 ^ 8 /\ u = 256 * w + b1
  BY <1>1, <1>2, SMT
<1>4. PICK b3 \in Nat, b2 \in Nat : b3 = w \div 2 ^ 8 /\ b2 = w % 2 ^ 8 /\ w = 256 * b3 + b2
  BY <1>1, SMT
<1>5. TssDesc(addr) = [base0 |-> b0, base1 |-> b1, base2 |-> b2, base3 |-> b3]
  BY <1>2, <1>3, <1>4, SMT DEF TssDesc
<1>6. b0 + b1 * 2 ^ 16 + b2 * 2 ^ 24 + (b3 * 2 ^ 24) * 2 ^ 8 = addr
  BY <1>1, <1>2, <1>3, <1>4, SMT
<1> QED
  BY <1>5, <1>6, SMT

LEMMA SegmentOfIs ==
  ASSUME SegmentsOK, NEW c \in Cpu, tr[c] = Selector(c)
  PROVE  SegmentOf(c) = SegmentAt(c)
<1>1. (tr[c] - 24) \div 16 = c
  BY CountsFacts, SMT DEF Selector, Cpu
<1>2. gdt[(tr[c] - 24) \div 16] = TssDesc(SegmentAt(c))
  BY <1>1 DEF SegmentsOK
<1>3. PICK d : d = gdt[(tr[c] - 24) \div 16]
  OBVIOUS
<1>4. SegmentOf(c) = d.base0 + d.base1 * 2 ^ 16 + d.base2 * 2 ^ 24 + (d.base3 * 2 ^ 24) * 2 ^ 8
  BY <1>3, SMT DEF SegmentOf
<1> QED
  BY <1>2, <1>3, <1>4, SegmentAtFacts, BaseFacts, SMT

LEMMA ReadyByTables ==
  ASSUME EnoughMemory, BootInv, SetupOK, TablesOK, ApicsOK
  PROVE  InterruptsAreReady
<1> SUFFICES ASSUME NEW c \in ApicOn
    PROVE  /\ {INT_VECTOR_APIC_SPURIOUS, INT_VECTOR_APIC_TIMER} \subseteq present
           /\ isr = "timer" => INT_VECTOR_SCHEDULER_TASK \in present
           /\ SegmentOf(c) \in DOMAIN tss
           /\ LET top == tss[SegmentOf(c)]
              IN  /\ top - StackSize >= KernelEnd /\ top <= next_free
                  /\ \A a \in DOMAIN tss : a + TssSize <= top - StackSize \/ top <= a
                  /\ stacks.ap + StackSize <= top - StackSize \/ top <= stacks.ap
                  /\ {PageOf(top - StackSize), PageOf(top - 1)} \subseteq mapped
                  /\ \A d \in ApicOn \ {c} :
                       LET other == tss[SegmentOf(d)]
                       IN  other <= top - StackSize \/ top <= other - StackSize
  BY Zenon DEF InterruptsAreReady
<1>0. ASSUME NEW x \in ApicOn
      PROVE  /\ x \in Cpu /\ phase \in {"sti", "started"}
             /\ x # Bsp => x \in Ap /\ ap[x] \in Up
  <2>1. x \in Cpu /\ lapic[x] # Off
    BY DEF ApicOn
  <2>2. CASE x = Bsp
    BY <2>1, <2>2 DEF ApicsOK
  <2>3. CASE x # Bsp
    <3>1. x \in Ap /\ ap[x] \in Up /\ ap[x] # "off"
      BY <2>1, <2>3 DEF ApicsOK, Ap, Up, Done
    <3> QED
      BY <2>1, <3>1 DEF SetupOK
  <2> QED
    BY <2>2, <2>3
<1>1. phase \in {"sti", "started"}
  BY <1>0
<1>2. /\ SegmentsOK /\ stacks.ap \in Nat /\ (stacks.ap = 0 \/ stacks.ap >= SegmentAt(Cpus))
      /\ 0 .. MemPages - 1 \subseteq mapped
      /\ {INT_VECTOR_APIC_SPURIOUS, INT_VECTOR_APIC_TIMER} \subseteq present
      /\ isr = "timer" => INT_VECTOR_SCHEDULER_TASK \in present
  BY <1>1 DEF TablesOK, LaidOut
<1>3. ASSUME NEW x \in ApicOn PROVE x \in Cpu /\ tr[x] = Selector(x)
  BY <1>0, <1>1 DEF TablesOK, LaidOut
<1>4. ASSUME NEW x \in ApicOn
      PROVE  /\ x \in Cpu /\ SegmentOf(x) \in DOMAIN tss
             /\ tss[SegmentOf(x)] = KernelEnd + (x + 1) * StackSize
  <2>1. x \in Cpu /\ SegmentOf(x) = SegmentAt(x)
    BY <1>2, <1>3, SegmentOfIs
  <2> QED
    BY <1>2, <2>1 DEF SegmentsOK, IsrStackTop
<1>5. c \in Cpu /\ c \in Nat /\ c + 1 <= Cpus
  BY <1>4, CountsFacts DEF Cpu
<1>6. PICK top \in Nat : top = tss[SegmentOf(c)] /\ top = KernelEnd + (c + 1) * 4096
  BY <1>4, <1>5, CountsFacts
<1>7. PICK low \in Nat : low = KernelEnd + Cpus * 4096
  BY CountsFacts
<1>8. top <= low /\ top - 4096 >= KernelEnd
  BY <1>5, <1>6, <1>7, CountsFacts
<1>9. SegmentAt(Cpus) \in Nat /\ SegmentAt(Cpus) >= low
  BY <1>7, CountsFacts DEF SegmentAt
<1>10. top <= next_free
  BY <1>2, <1>8, <1>9 DEF SegmentsOK
<1>11. ASSUME NEW a \in DOMAIN tss PROVE top <= a
  <2>1. PICK n \in Cpu : a = SegmentAt(n)
    BY <1>2, <1>11 DEF SegmentsOK
  <2> QED
    BY <1>7, <1>8, <2>1, SegmentAtFacts, CountsFacts
<1>12. stacks.ap + StackSize <= top - StackSize \/ top <= stacks.ap
  <2>1. CASE stacks.ap = 0
    BY <1>8, <2>1, CountsFacts
  <2>2. CASE stacks.ap >= SegmentAt(Cpus)
    BY <1>2, <1>8, <1>9, <2>2
  <2> QED
    BY <1>2, <2>1, <2>2
<1>13. {PageOf(top - StackSize), PageOf(top - 1)} \subseteq mapped
  <2>1. PICK m \in Nat : m = MemPages
    <3>1. machine.mem_higher \in Nat
      BY DEF EnoughMemory, SetupOK
    <3>2. 2 ^ 11 = 2048
      BY SMT
    <3> QED
      BY <3>1, <3>2 DEF MemPages
  <2>2. low <= m * PAGE_SIZE
    BY <1>7, <2>1, CountsFacts DEF EnoughMemory, SetupOK, MemPages
  <2>4. ASSUME NEW x \in Nat, x < top PROVE PageOf(x) \in 0 .. m - 1
    <3>1. PICK p \in Nat \ {0} : p = PAGE_SIZE
      BY SMT DEF PAGE_SIZE
    <3>2. PICK q \in Nat, r \in 0 .. p - 1 : q = x \div p /\ x = p * q + r
      BY SMT
    <3>3. q < m
      BY <1>8, <2>2, <2>4, <3>1, <3>2, SMT
    <3> QED
      BY <3>1, <3>2, <3>3 DEF PageOf
  <2>5. top - StackSize \in Nat /\ top - StackSize < top /\ top - 1 \in Nat /\ top - 1 < top
    BY <1>8, CountsFacts
  <2> QED
    BY <1>2, <2>1, <2>4, <2>5
<1>14. ASSUME NEW d \in ApicOn \ {c}
       PROVE  tss[SegmentOf(d)] <= top - StackSize \/ top <= tss[SegmentOf(d)] - StackSize
  <2>1. d \in Cpu /\ tss[SegmentOf(d)] = KernelEnd + (d + 1) * StackSize
    BY <1>4
  <2>2. d \in Nat /\ d # c
    BY <2>1, CountsFacts DEF Cpu
  <2> QED
    BY <1>5, <1>6, <2>1, <2>2, CountsFacts
<1>15. top - StackSize >= KernelEnd
  BY <1>8, CountsFacts
<1> QED
  BY <1>2, <1>4, <1>6, <1>10, <1>11, <1>12, <1>13, <1>14, <1>15
-----------------------------------------------------------------------------
LEMMA TablesInit == StartupInit => TablesOK /\ ApicsOK
<1> SUFFICES ASSUME StartupInit PROVE TablesOK /\ ApicsOK
  OBVIOUS
<1>1. /\ phase = "acpi" /\ tr = [c \in Cpu |-> 0] /\ stacks = [isr |-> 0, ap |-> 0]
      /\ isr = "empty" /\ ap = [a \in Ap |-> "off"] /\ lapic = [c \in Cpu |-> Off]
  BY DEF StartupInit, BootInit
<1>2. TablesOK
  BY <1>1 DEF TablesOK, LaidOut, Up, Done
<1>3. Bsp \in Cpu /\ Ap \subseteq Cpu
  BY BootAssumption DEF Cpu, Ap
<1>4. ApicsOK
  BY <1>1, <1>3 DEF ApicsOK
<1> QED
  BY <1>2, <1>4

(* Before the loop nothing of Boot has happened. *)
LEMMA NotStarted ==
  ASSUME BootInv, SetupOK, phase # "started"
  PROVE  isr # "timer" /\ \A a \in Ap : ap[a] = "off"
  BY DEF BootInv, TickOK, SetupOK

LEMMA SingleMax ==
  ASSUME NEW n \in Cpu
  PROVE  Max({n}) = n
<1>1. PICK m \in Nat : m = Cpus - 1 /\ {n} \in SUBSET (0 .. m)
  BY CountsFacts DEF Cpu
<1> QED
  BY <1>1, MaxFacts

(* What init_cpu_info makes of the entries that it uses *)
LEMMA MachineFacts ==
  ASSUME NEW m \in Machines, NEW sr, NEW bits,
         NEW d, d = fill_cpu_descs(m, find_psdt_table(m, "APIC"), sr, bits)
  PROVE  /\ DOMAIN d = Cpu /\ Cardinality(DOMAIN d) = Cpus
         /\ CpuIndexes(d)[m.bsp_id] = Bsp
         /\ \A n \in Cpu : CpuIndexes(d)[d[n].id] = n
<1>1. PICK used : used = UsedEntries(m, find_psdt_table(m, "APIC"))
  OBVIOUS
<1>2. /\ Len(used) = Cpus /\ used[Bsp + 1].apic_id = m.bsp_id
      /\ \A j, k \in 1 .. Cpus :
           /\ used[j].apic_id \in 0 .. 255
           /\ used[j].apic_id = used[k].apic_id => j = k
  BY <1>1, MachinesAssumption, Zenon
<1>3. DOMAIN d = Cpu
  BY <1>1, <1>2, Zenon DEF fill_cpu_descs, Cpu
<1>4. ASSUME NEW n \in Cpu PROVE d[n].id = used[n + 1].apic_id
  BY <1>1, <1>2 DEF fill_cpu_descs, Cpu
<1>5. Cardinality(DOMAIN d) = Cpus
  <2>1. Cpus \in Nat /\ 0 <= Cpus - 1 /\ Cpus - 1 \in Int
    BY CountsFacts
  <2> QED
    BY <1>3, <2>1, FS_Interval DEF Cpu
<1>6. ASSUME NEW n \in Cpu PROVE CpuIndexes(d)[d[n].id] = n
  <2>1. n + 1 \in 1 .. Cpus /\ \A k \in Cpu : k + 1 \in 1 .. Cpus
    BY CountsFacts DEF Cpu
  <2>2. PICK x \in 0 .. 255 : x = d[n].id
    BY <1>2, <1>4, <2>1
  <2>3. ASSUME NEW k \in Cpu, d[k].id = x PROVE k = n
    <3>1. k + 1 = n + 1
      BY <1>2, <1>4, <2>1, <2>2, <2>3
    <3> QED
      BY <3>1, CountsFacts DEF Cpu
  <2>4. {k \in DOMAIN d : d[k].id = x} = {n}
    BY <1>3, <2>2, <2>3
  <2>5. CpuIndexes(d)[x] = Max({n})
    BY <2>4 DEF CpuIndexes
  <2> QED
    BY <2>2, <2>5, SingleMax
<1>7. CpuIndexes(d)[m.bsp_id] = Bsp
  <2>1. Bsp \in Cpu
    BY BootAssumption DEF Cpu
  <2>2. d[Bsp].id = m.bsp_id
    BY <1>2, <1>4, <2>1
  <2> QED
    BY <1>6, <2>1, <2>2
<1> QED
  BY <1>3, <1>5, <1>6, <1>7

LEMMA DescsMade ==
  ASSUME SetupOK, TablesOK, init_cpu_info
  PROVE  DescsOK'
<1>1. /\ descs' = fill_cpu_descs(machine, madt, srat, get_thread_core_bits(machine.cpuid))
      /\ __cpu_indexes' = CpuIndexes(descs') /\ __bsp_cpu' = __cpu_indexes'[machine.bsp_id]
      /\ machine' = machine /\ phase = "cpu_info"
  BY DEF init_cpu_info
<1>2. machine \in Machines /\ madt = find_psdt_table(machine, "APIC")
  BY <1>1 DEF SetupOK, TablesOK
<1>3. PICK d : d = descs'
  OBVIOUS
<1>4. /\ DOMAIN d = Cpu /\ Cardinality(DOMAIN d) = Cpus
      /\ CpuIndexes(d)[machine.bsp_id] = Bsp
      /\ \A n \in Cpu : CpuIndexes(d)[d[n].id] = n
  BY <1>1, <1>2, <1>3, MachineFacts
<1> QED
  BY <1>1, <1>3, <1>4 DEF DescsOK, Counted, get_cpus, Cpu

LEMMA DescsSame ==
  ASSUME DescsOK, UNCHANGED <<machine, descs, __cpu_indexes, __bsp_cpu>>
  PROVE  DescsOK'
  BY DEF DescsOK, Counted, get_cpus, Cpu

LEMMA TablesEarly ==
  ASSUME BootInv, SetupOK, TablesOK, init_acpi \/ init_cpu_info \/ init_memory
  PROVE  TablesOK'
<1>1. isr # "timer" /\ (\A a \in Ap : ap[a] = "off") /\ phase # "started"
  BY NotStarted DEF init_acpi, init_cpu_info, init_memory
<1>2. tr' = tr /\ stacks' = stacks /\ isr' = isr /\ ap' = ap /\ machine' = machine
  BY DEF init_acpi, init_cpu_info, init_memory, bootVars
<1>3. phase' \in {"cpu_info", "memory", "interrupts", "fault"}
  BY DEF init_acpi, init_cpu_info, init_memory, Reads
<1>4. phase' = "interrupts" => next_free' = KernelEnd /\ 0 .. MemPages - 1 \subseteq mapped'
  BY DEF init_acpi, init_cpu_info, init_memory, Reads, MemPages
<1>5. phase' \notin {"acpi", "cpu_info", "fault"} => DescsOK'
  <2>1. CASE init_acpi
    BY <2>1 DEF init_acpi, Reads
  <2>2. CASE init_cpu_info
    BY <2>2, DescsMade
  <2>3. CASE init_memory
    BY <2>3, DescsSame DEF init_memory, TablesOK
  <2> QED
    BY <2>1, <2>2, <2>3
<1>6. phase' = "cpu_info" => madt' = find_psdt_table(machine', "APIC")
  BY <1>2 DEF init_acpi, init_cpu_info, init_memory, Reads
<1>7. Cpu' = Cpu /\ Ap' = Ap /\ MemPages' = MemPages
  BY <1>2 DEF Ap, Cpu, MemPages
<1> QED
  BY <1>1, <1>2, <1>3, <1>4, <1>5, <1>6, <1>7 DEF TablesOK, LaidOut, Up, Done

(* create_gdt and create_idt *)
LEMMA SegmentsMade ==
  ASSUME init_interrupts, next_free = KernelEnd, Counted
  PROVE  SegmentsOK'
<1>0. /\ Cpus \in Nat /\ KernelEnd \in Nat
      /\ \A n \in Cpu : SegmentAt(n) = (KernelEnd + Cpus * StackSize) + n * TssSize
  BY CountsFacts DEF SegmentAt
<1>1. PICK s \in Nat : s = KernelEnd + Cpus * StackSize
  BY CountsFacts
<1>2. /\ next_free' = s + Cpus * TssSize
      /\ tss' = [a \in {s + n * TssSize : n \in Cpu} |-> IsrStackTop(KernelEnd, (a - s) \div TssSize)]
      /\ gdt' = [n \in Cpu |-> TssDesc(s + n * TssSize)]
  BY <1>1, Zenon DEF init_interrupts, Counted
<1>3. DOMAIN tss' = {SegmentAt(n) : n \in Cpu}
  BY <1>0, <1>1, <1>2
<1>4. ASSUME NEW n \in Cpu PROVE tss'[SegmentAt(n)] = IsrStackTop(KernelEnd, n)
  <2>1. PICK a : a = SegmentAt(n) /\ a \in {s + m * TssSize : m \in Cpu} /\ (a - s) \div TssSize = n
    BY <1>0, <1>1, SegmentAtFacts
  <2> QED
    BY <1>2, <2>1
<1>5. ASSUME NEW n \in Cpu PROVE gdt'[n] = TssDesc(SegmentAt(n))
  BY <1>0, <1>1, <1>2
<1>6. next_free' \in Nat /\ next_free' >= SegmentAt(Cpus)
  BY <1>1, <1>2, CountsFacts DEF SegmentAt
<1> QED
  BY <1>3, <1>4, <1>5, <1>6 DEF SegmentsOK, SegmentAt, Cpu

LEMMA SegmentsSame ==
  ASSUME SegmentsOK, tss' = tss, gdt' = gdt, next_free' \in Nat, next_free' >= next_free
  PROVE  SegmentsOK'
<1>1. SegmentAt(Cpus) \in Nat
  BY CountsFacts DEF SegmentAt
<1>2. next_free' >= SegmentAt(Cpus)
  BY <1>1 DEF SegmentsOK
<1> QED
  BY <1>2 DEF SegmentsOK, SegmentAt, Cpu

LEMMA TablesInterrupts ==
  ASSUME BootInv, SetupOK, TablesOK, init_interrupts
  PROVE  TablesOK'
<1>1. /\ phase = "interrupts" /\ phase' = "apic" /\ descs' = descs /\ mapped' = mapped
      /\ machine' = machine /\ __cpu_indexes' = __cpu_indexes /\ __bsp_cpu' = __bsp_cpu
      /\ isr' = isr /\ ap' = ap
  BY DEF init_interrupts, bootVars
<1>2. isr # "timer" /\ (\A a \in Ap : ap[a] = "off")
  BY <1>1, NotStarted
<1>3. /\ stacks' = [stacks EXCEPT !.isr = next_free]
      /\ tr' = [tr EXCEPT ![__bsp_cpu] = Selector(__cpu_indexes[machine.bsp_id])]
  BY Zenon DEF init_interrupts
<1>4. stacks'.ap = 0 /\ DOMAIN stacks' = {"isr", "ap"}
  BY <1>1, <1>3 DEF TablesOK
<1>5. DescsOK /\ next_free = KernelEnd /\ 0 .. MemPages - 1 \subseteq mapped
  BY <1>1 DEF TablesOK
<1>6. tr' = [tr EXCEPT ![Bsp] = Selector(Bsp)]
  BY <1>3, <1>5 DEF DescsOK
<1>7. DOMAIN tr' = Cpu /\ tr'[Bsp] = Selector(Bsp)
  <2>1. Bsp \in Cpu
    BY BootAssumption DEF Cpu
  <2> QED
    BY <1>6, <2>1 DEF TablesOK
<1>8. DescsOK'
  BY <1>1, <1>5, DescsSame
<1>9. SegmentsOK'
  BY <1>5, SegmentsMade DEF DescsOK
<1>10. Cpu' = Cpu /\ Ap' = Ap /\ MemPages' = MemPages
  BY <1>1 DEF Ap, Cpu, MemPages
<1> QED
  BY <1>1, <1>2, <1>4, <1>5, <1>7, <1>8, <1>9, <1>10 DEF TablesOK, LaidOut, Up, Done, Selector

LEMMA TablesApic ==
  ASSUME BootInv, SetupOK, TablesOK, init_apic
  PROVE  TablesOK'
<1>1. /\ phase = "apic" /\ phase' = "sti" /\ descs' = descs /\ tr' = tr /\ stacks' = stacks
      /\ machine' = machine /\ __cpu_indexes' = __cpu_indexes /\ __bsp_cpu' = __bsp_cpu
      /\ isr' = isr /\ ap' = ap /\ tss' = tss /\ gdt' = gdt /\ next_free' = next_free
      /\ mapped \subseteq mapped'
      /\ {INT_VECTOR_APIC_SPURIOUS, INT_VECTOR_APIC_TIMER} \subseteq present'
  BY DEF init_apic, bootVars
<1>2. isr # "timer" /\ (\A a \in Ap : ap[a] = "off")
  BY <1>1, NotStarted
<1>3. SegmentsOK' /\ DescsOK'
  <2>1. SegmentsOK /\ DescsOK
    BY <1>1 DEF TablesOK, LaidOut
  <2>2. next_free' \in Nat /\ next_free' >= next_free
    BY <1>1, <2>1 DEF SegmentsOK
  <2> QED
    BY <1>1, <2>1, <2>2, SegmentsSame, DescsSame
<1>4. Cpu' = Cpu /\ Ap' = Ap /\ MemPages' = MemPages
  BY <1>1 DEF Ap, Cpu, MemPages
<1> QED
  BY <1>1, <1>2, <1>3, <1>4 DEF TablesOK, LaidOut, Up, Done, Selector

LEMMA TablesStart ==
  ASSUME BootInv, SetupOK, TablesOK, start_ap_cpus
  PROVE  TablesOK'
<1>1. /\ phase = "sti" /\ phase' = "started" /\ descs' = descs /\ tr' = tr /\ mapped' = mapped
      /\ machine' = machine /\ __cpu_indexes' = __cpu_indexes /\ __bsp_cpu' = __bsp_cpu
      /\ isr' = isr /\ ap' = ap /\ tss' = tss /\ gdt' = gdt /\ present' = present
  BY DEF start_ap_cpus, bootVars
<1>2. isr # "timer" /\ (\A a \in Ap : ap[a] = "off")
  BY <1>1, NotStarted
<1>3. SegmentsOK /\ DescsOK
  BY <1>1 DEF TablesOK, LaidOut
<1>4. /\ next_free' \in Nat /\ next_free' >= next_free
      /\ stacks'.ap \in Nat /\ (stacks'.ap = 0 \/ stacks'.ap >= SegmentAt(Cpus))
      /\ DOMAIN stacks' = {"isr", "ap"}
  <2>1. stacks.ap = 0 /\ DOMAIN stacks = {"isr", "ap"} /\ next_free \in Nat /\ next_free >= SegmentAt(Cpus)
    BY <1>1, <1>3 DEF TablesOK, SegmentsOK
  <2>2. CASE get_cpus = 1
    BY <2>1, <2>2 DEF start_ap_cpus
  <2>3. CASE get_cpus # 1
    <3>1. stacks' = [stacks EXCEPT !.ap = next_free] /\ next_free' = next_free + StackSize
      BY <2>3 DEF start_ap_cpus
    <3> QED
      BY <2>1, <3>1, CountsFacts
  <2> QED
    BY <2>2, <2>3
<1>5. SegmentsOK' /\ DescsOK'
  BY <1>1, <1>3, <1>4, SegmentsSame, DescsSame
<1>6. Cpu' = Cpu /\ Ap' = Ap /\ MemPages' = MemPages /\ SegmentAt(Cpus)' = SegmentAt(Cpus)
  BY <1>1 DEF Ap, Cpu, MemPages, SegmentAt
<1> QED
  BY <1>1, <1>2, <1>4, <1>5, <1>6 DEF TablesOK, LaidOut, Up, Done, Selector

(* What the steps of the loop leave alone *)
LEMMA TablesLoop ==
  ASSUME TablesOK, phase = "started", next_free' \in Nat, next_free' >= next_free,
         present \subseteq present', isr' = "timer" => INT_VECTOR_SCHEDULER_TASK \in present',
         DOMAIN tr' = Cpu, tr'[Bsp] = tr[Bsp],
         \A a \in Ap : ap'[a] \in Up => tr'[a] = Selector(a),
         UNCHANGED <<machine, phase, mapped, descs, __cpu_indexes, __bsp_cpu, stacks, tss, gdt>>
  PROVE  TablesOK'
<1>1. SegmentsOK' /\ DescsOK'
  <2>1. SegmentsOK /\ DescsOK
    BY DEF TablesOK, LaidOut
  <2> QED
    BY <2>1, SegmentsSame, DescsSame
<1>2. Cpu' = Cpu /\ Ap' = Ap /\ MemPages' = MemPages /\ SegmentAt(Cpus)' = SegmentAt(Cpus)
  BY DEF Ap, Cpu, MemPages, SegmentAt
<1>3. stacks.ap \in Nat /\ (stacks.ap = 0 \/ stacks.ap >= SegmentAt(Cpus))
  BY DEF TablesOK
<1>4. /\ 0 .. MemPages - 1 \subseteq mapped /\ DOMAIN stacks = {"isr", "ap"}
      /\ {INT_VECTOR_APIC_SPURIOUS, INT_VECTOR_APIC_TIMER} \subseteq present'
      /\ tr'[Bsp] = Selector(Bsp)
  BY DEF TablesOK, LaidOut
<1> QED
  BY <1>1, <1>2, <1>3, <1>4 DEF TablesOK, LaidOut, Up, Done, Selector

(* What a step of the boot processor does to another *)
LEMMA BspTouches ==
  ASSUME BootInv, BspStarts, NEW a \in Ap
  PROVE  ap'[a] = ap[a] \/ (ap[a] \in {"off", "reset"} /\ ap'[a] \in {"reset", "boot"})
<1>1. CASE SendInit
  BY <1>1 DEF SendInit, BootInv, BootTypeOK, LoopOK
<1>2. CASE SendStartup
  BY <1>2 DEF SendStartup, BootInv, BootTypeOK
<1>3. CASE ap' = ap
  BY <1>3
<1>4. SendInit \/ SendStartup \/ ap' = ap
  BY DEF BspStarts, WaitAgain, init_scheduler, start_kmain_thread, Skip, InitTimeout,
         Answered, Retry, Panic, StartedAll, apVars
<1> QED
  BY <1>1, <1>2, <1>3, <1>4

LEMMA TablesBsp ==
  ASSUME BootInv, SetupOK, TablesOK, BspStarts
  PROVE  TablesOK'
<1>0. /\ phase = "started" /\ tr' = tr /\ Bsp \in Cpu
      /\ UNCHANGED <<machine, phase, mapped, descs, __cpu_indexes, __bsp_cpu, stacks, tss, gdt>>
  BY BootAssumption DEF BspStarts, Cpu
<1>1. DOMAIN tr' = Cpu /\ tr'[Bsp] = tr[Bsp] /\ next_free \in Nat
  BY <1>0 DEF TablesOK, LaidOut, SegmentsOK
<1>2. next_free' \in Nat /\ next_free' >= next_free
  <2>1. next_free' = next_free \/ next_free' = next_free + ThreadSize
    BY DEF BspStarts
  <2> QED
    BY <1>1, <2>1, CountsFacts
<1>3. present \subseteq present' /\ (isr' = "timer" => INT_VECTOR_SCHEDULER_TASK \in present')
  <2>1. CASE init_scheduler /\ present' = present \cup {INT_VECTOR_SCHEDULER_TASK}
    BY <2>1
  <2>2. CASE isr' = isr /\ present' = present
    BY <2>2 DEF TablesOK
  <2>3. \/ init_scheduler /\ present' = present \cup {INT_VECTOR_SCHEDULER_TASK}
        \/ isr' = isr /\ present' = present
    BY DEF BspStarts, SendInit, SendStartup, WaitAgain, start_kmain_thread, Skip, InitTimeout,
           Answered, Retry, Panic, StartedAll
  <2> QED
    BY <2>1, <2>2, <2>3
<1>4. ASSUME NEW a \in Ap, ap'[a] \in Up PROVE tr'[a] = Selector(a)
  <2>1. ap'[a] = ap[a]
    BY <1>4, BspTouches DEF Up, Done
  <2> QED
    BY <1>0, <1>4, <2>1 DEF TablesOK
<1> QED
  BY <1>0, <1>1, <1>2, <1>3, <1>4, TablesLoop

LEMMA TablesAp ==
  ASSUME BootInv, SetupOK, TablesOK, NEW a \in Ap, ApStarts(a)
  PROVE  TablesOK'
<1>0. /\ isr' = isr /\ a \in Cpu /\ a # Bsp /\ ap[a] # "off" /\ DOMAIN ap = Ap
      /\ UNCHANGED <<machine, phase, mapped, descs, __cpu_indexes, __bsp_cpu, next_free, stacks,
                     tss, gdt, present>>
  BY DEF ApStarts, ApInit, ApInitScheduler, ApLoad, ApStore, ApReturn, ApGoes, bspVars, Ap,
         BootInv, BootTypeOK
<1>1. phase = "started"
  BY <1>0 DEF SetupOK
<1>2. next_free' \in Nat /\ next_free' >= next_free
  BY <1>0, <1>1 DEF TablesOK, LaidOut, SegmentsOK
<1>3. PICK t : ap' = [ap EXCEPT ![a] = t]
  BY DEF ApStarts, ApInit, ApInitScheduler, ApLoad, ApStore, ApReturn, ApGoes
<1>4. \A x \in Ap : x # a => ap'[x] = ap[x]
  BY <1>0, <1>3
<1>5. CASE ApInit(a) /\ tr' = [tr EXCEPT ![a] = Selector(__cpu_indexes[descs[a].id])]
  <2>2. __cpu_indexes[descs[a].id] = a
    BY <1>0, <1>1 DEF TablesOK, DescsOK
  <2>3. PICK s : s = Selector(__cpu_indexes[descs[a].id]) /\ s = Selector(a)
    BY <2>2
  <2>4. DOMAIN tr' = Cpu /\ \A x \in Cpu : tr'[x] = IF x = a THEN Selector(a) ELSE tr[x]
    BY <1>5, <2>3 DEF TablesOK
  <2>5. Bsp \in Cpu
    BY BootAssumption DEF Cpu
  <2>6. \A x \in Ap : ap'[x] \in Up => tr'[x] = Selector(x)
    BY <1>4, <2>4 DEF TablesOK, Ap
  <2> QED
    BY <1>0, <1>1, <1>2, <2>4, <2>5, <2>6, TablesLoop DEF TablesOK
<1>6. CASE ~ApInit(a) /\ tr' = tr
  <2>1. ap[a] \in Up
    BY <1>6 DEF ApStarts, ApInitScheduler, ApLoad, ApStore, ApReturn, ApGoes, Up, Done
  <2>2. \A x \in Ap : ap'[x] \in Up => tr'[x] = Selector(x)
    BY <1>4, <1>6, <2>1 DEF TablesOK
  <2>3. DOMAIN tr' = Cpu /\ tr'[Bsp] = tr[Bsp]
    BY <1>6 DEF TablesOK
  <2> QED
    BY <1>0, <1>1, <1>2, <2>2, <2>3, TablesLoop DEF TablesOK
<1> QED
  BY <1>5, <1>6 DEF ApStarts, ApInit, ApInitScheduler, ApLoad, ApStore, ApReturn, ApGoes

LEMMA TablesStep ==
  BootInv /\ SetupOK /\ TablesOK /\ [StartupNext]_<<bootVars, setup>> => TablesOK'
<1> SUFFICES ASSUME BootInv, SetupOK, TablesOK, [StartupNext]_<<bootVars, setup>>
             PROVE  TablesOK'
  OBVIOUS
<1>1. CASE UNCHANGED <<bootVars, setup>>
  BY <1>1 DEF bootVars, setup, TablesOK, LaidOut, DescsOK, Counted, get_cpus, SegmentsOK,
              SegmentAt, MemPages, Cpu, Ap, Up
<1>2. CASE Boot64
  BY <1>2, TablesEarly, TablesInterrupts, TablesApic, TablesStart, TablesBsp DEF Boot64
<1>3. ASSUME NEW a \in Ap, ApStarts(a) PROVE TablesOK'
  BY <1>3, TablesAp
<1> QED
  BY <1>1, <1>2, <1>3 DEF StartupNext

(* An APIC is on only where init_apic has been. *)
LEMMA ApicsStep ==
  BootInv /\ SetupOK /\ TimersOK /\ TablesOK /\ ApicsOK /\ [StartupNext]_<<bootVars, setup>>
    => ApicsOK'
<1> SUFFICES ASSUME BootInv, SetupOK, TimersOK, TablesOK, ApicsOK,
                    [StartupNext]_<<bootVars, setup>>
             PROVE  ApicsOK'
  OBVIOUS
<1>0. /\ Bsp \in Cpu /\ Ap \subseteq Cpu /\ Bsp \notin Ap /\ DOMAIN lapic = Cpu
      /\ Ap' = Ap /\ Off' = Off /\ DOMAIN ap = Ap
  BY BootAssumption DEF Cpu, Ap, TimersOK, Off, BootInv, BootTypeOK
<1>1. CASE UNCHANGED <<bootVars, setup>>
  BY <1>0, <1>1 DEF bootVars, setup, ApicsOK, Up
<1>2. CASE init_acpi \/ init_cpu_info \/ init_memory \/ init_interrupts
  <2>1. lapic' = lapic /\ phase \notin {"sti", "started"} /\ ap' = ap
    BY <1>2 DEF init_acpi, init_cpu_info, init_memory, init_interrupts, bootVars
  <2> QED
    BY <1>0, <2>1 DEF ApicsOK
<1>3. CASE init_apic
  <2>1. /\ lapic' = [lapic EXCEPT ![__bsp_cpu] = Stopped] /\ phase = "apic" /\ phase' = "sti"
        /\ ap' = ap
    BY <1>3 DEF init_apic, bootVars
  <2>2. __bsp_cpu = Bsp
    BY <2>1 DEF TablesOK, DescsOK
  <2>3. \A x \in Ap : lapic'[x] = lapic[x]
    BY <1>0, <2>1, <2>2
  <2> QED
    BY <1>0, <2>1, <2>3 DEF ApicsOK
<1>4. CASE start_ap_cpus
  BY <1>0, <1>4 DEF start_ap_cpus, bootVars, ApicsOK
<1>5. CASE BspStarts
  <2>1. phase' = "started"
    BY <1>5 DEF BspStarts
  <2>2. \A x \in Ap : lapic'[x] = lapic[x]
    <3>1. CASE lapic' = lapic
      BY <3>1
    <3>2. ASSUME NEW n, NEW p, start_apic_timer(Bsp, n, p)
          PROVE  \A x \in Ap : lapic'[x] = lapic[x]
      <4> DEFINE s == Scaled((n * timer_10ms_ticks) \div 10000)
                 t == [interval |-> n, initial |-> s.initial, divide |-> s.divide,
                       periodic |-> p]
      <4>1. lapic' = [lapic EXCEPT ![Bsp] = t]
        BY <3>2, SMT DEF start_apic_timer
      <4> HIDE DEF t
      <4> QED
        BY <1>0, <4>1
    <3> QED
      BY <1>5, <3>1, <3>2 DEF BspStarts
  <2>3. ASSUME NEW x \in Ap, lapic'[x] # Off PROVE ap'[x] \in Up
    <3>1. ap[x] \in Up
      BY <2>2, <2>3 DEF ApicsOK
    <3> QED
      BY <1>5, <3>1, BspTouches DEF Up, Done
  <2> QED
    BY <1>0, <2>1, <2>3 DEF ApicsOK
<1>6. ASSUME NEW a \in Ap, ApStarts(a) PROVE ApicsOK'
  <2>1. PICK s : ap' = [ap EXCEPT ![a] = s]
    BY <1>6 DEF ApStarts, ApInit, ApInitScheduler, ApLoad, ApStore, ApReturn, ApGoes
  <2>2. ap'[a] \in Up
    BY <1>0, <1>6 DEF ApStarts, ApInit, ApInitScheduler, ApLoad, ApStore, ApReturn, ApGoes, Up, Done
  <2>3. \A x \in Ap : x # a => ap'[x] = ap[x]
    BY <1>0, <2>1
  <2>4. \A x \in Cpu : x # a => lapic'[x] = lapic[x]
    <3>1. lapic' = lapic \/ \E t : lapic' = [lapic EXCEPT ![a] = t]
      BY <1>6 DEF ApStarts, start_apic_timer
    <3> QED
      BY <1>0, <3>1
  <2>5. phase' = phase
    BY <1>6 DEF ApStarts
  <2> QED
    BY <1>0, <2>2, <2>3, <2>4, <2>5 DEF ApicsOK
<1> QED
  BY <1>1, <1>2, <1>3, <1>4, <1>5, <1>6 DEF StartupNext, Boot64

(* With as much memory as the stacks take, every CPU that can be           *)
(* interrupted handles it on a stack of its own with the gates present,    *)
(* however many CPUs there are, whatever their APIC ids and the kernel's   *)
(* size, and in whatever order they come up.                               *)
THEOREM InterruptsGetReady ==
  ASSUME EnoughMemory
  PROVE  StartupSpec => []InterruptsAreReady
<1>1. BootInv /\ SetupOK /\ TablesOK /\ ApicsOK => InterruptsAreReady
  BY ReadyByTables
<1>2. StartupSpec => [](BootInv /\ SetupOK /\ TimersOK)
  BY StartupInv, SetupHolds, PTL
<1> QED
  BY <1>1, <1>2, TablesInit, TablesStep, ApicsStep, PTL DEF StartupSpec
=============================================================================
