------------------------------ MODULE Spinlock ------------------------------
(***************************************************************************)
(* Spinlocks that disable interrupts (x86_64/sync.inc): a CPU remembers in *)
(* __outer_spinlocks the first lock it takes, disables interrupts there,   *)
(* and enables them when it releases that lock.                            *)
(*                                                                         *)
(* What runs on a CPU is a thread, or the CPU's own timer procedure, which *)
(* the timer interrupt calls between set_outer_spinlock(true) and          *)
(* set_outer_spinlock(false); the procedure of CPU c is called c here.     *)
(* Any agent may take any lock, nested as the callers in schedule.c and    *)
(* sync.c nest them (Nested).                                              *)
(*                                                                         *)
(* acquire_spinlock names its CPU, writes the CPU's outer lock and only    *)
(* then executes cli: an interrupt may still come in between, switch       *)
(* threads, run the timer procedure, and let the thread go on on another   *)
(* CPU.  hit is a history variable: such a thing has happened, and not all *)
(* CPUs have been out of all locks, with interrupts enabled, since.        *)
(***************************************************************************)
EXTENDS Integers

CONSTANTS
  Cpu, Thread, Lock,
  Limited,       \* the locks that are acquired with a number of tries
  TimerProc,     \* whether a CPU's timer_ticks may expire
  NULL,          \* no outer lock
  ISR            \* the outer lock set_outer_spinlock(true) pretends

ASSUME SpinlockAssumption ==
  /\ NULL \notin Lock /\ ISR \notin Lock /\ NULL # ISR
  /\ Cpu \cap Thread = {}
  /\ Limited \subseteq Lock /\ TimerProc \in BOOLEAN

VARIABLES
  outer,      \* __outer_spinlocks
  int_on,     \* RFLAGS.IF of a CPU
  busy,       \* lock->busy
  exec,       \* the thread or timer procedure a CPU executes
  home,       \* thread->cpu: where a thread runs
  pc,         \* where in acquire_spinlock or release_spinlock it is
  call,       \* the arguments and locals of that call
  held,       \* the locks a thread or timer procedure holds
  hit         \* an interrupt came between the outer lock and cli

code == <<outer, int_on, busy, exec, home, pc, call, held>>

vars == <<code, hit>>

Agent == Thread \cup Cpu

PC == {"out", "enter", "cli", "xchg", "leave", "halt"}

(* the lock, and the CPU whose outer lock is meant *)
NoCall == [lock |-> NULL, slot |-> NULL]

TypeOK ==
  /\ outer \in [Cpu -> Lock \cup {NULL, ISR}]
  /\ int_on \in [Cpu -> BOOLEAN]
  /\ busy \in [Lock -> BOOLEAN]
  /\ exec \in [Cpu -> Agent]
  /\ home \in [Thread -> Cpu]
  /\ pc \in [Agent -> PC]
  /\ call \in [Agent -> [lock : Lock \cup {NULL}, slot : Cpu \cup {NULL}]]
  /\ held \in [Agent -> SUBSET Lock]
  /\ hit \in BOOLEAN

Init ==
  /\ outer = [c \in Cpu |-> NULL]
  /\ int_on = [c \in Cpu |-> TRUE]
  /\ busy = [l \in Lock |-> FALSE]
  /\ exec \in [Cpu -> Thread]
  /\ home \in [Thread -> Cpu]
  /\ \A c \in Cpu : home[exec[c]] = c
  /\ pc = [a \in Agent |-> "out"]
  /\ call = [a \in Agent |-> NoCall]
  /\ held = [a \in Agent |-> {}]
  /\ hit = FALSE
-----------------------------------------------------------------------------
(* Faulty variants, each named for what it gets wrong, are kept next to    *)
(* the definition they vary; nothing uses them in the specification.       *)
Nested_Reversed ==
  {<<"all", "inactive">>, <<"user", "inactive">>, <<"user", "cpu">>,
   <<"inactive", "cpu">>, <<"user", "memory">>, <<"cpu", "inactive">>}

(* <<k, l>>: some caller takes l while it holds k.  all and inactive are   *)
(* the locks of the thread lists, cpu that of a CPU's task, and user is    *)
(* the lock a thread holds when it pauses itself (a mutex's ilock, the     *)
(* lock of a list of sleepers).  attach_thread and detach_thread take all  *)
(* and inactive; __sleep_in_mutex and sleep take user and then memory, to  *)
(* allocate a node, and, like resume_thread, inactive and cpu.             *)
Nested ==
  {<<"all", "inactive">>, <<"user", "inactive">>, <<"user", "cpu">>,
   <<"inactive", "cpu">>, <<"user", "memory">>}

(* acquire_spinlock, by what agent a does on CPU c: it reads get_cpu(),    *)
(* claims the outer lock, disables interrupts, and exchanges lock->busy    *)
(* until it was free or the tries are used up.                             *)
Call(c, a, l) ==
  /\ pc[a] = "out"
  /\ \A k \in held[a] : <<k, l>> \in Nested
  /\ pc' = [pc EXCEPT ![a] = "enter"]
  /\ call' = [call EXCEPT ![a] = [lock |-> l, slot |-> c]]
  /\ UNCHANGED <<outer, int_on, busy, exec, home, held>>

Enter(c, a) ==
  /\ pc[a] = "enter"
  /\ IF outer[call[a].slot] = NULL
     THEN /\ outer' = [outer EXCEPT ![call[a].slot] = call[a].lock]
          /\ pc' = [pc EXCEPT ![a] = "cli"]
     ELSE /\ pc' = [pc EXCEPT ![a] = "xchg"]
          /\ UNCHANGED outer
  /\ UNCHANGED <<int_on, busy, exec, home, call, held>>

Cli(c, a) ==
  /\ pc[a] = "cli"
  /\ int_on' = [int_on EXCEPT ![c] = FALSE]
  /\ pc' = [pc EXCEPT ![a] = "xchg"]
  /\ UNCHANGED <<outer, busy, exec, home, call, held>>

Return(a) ==
  /\ pc' = [pc EXCEPT ![a] = "out"]
  /\ call' = [call EXCEPT ![a] = NoCall]

Take_NoTest(c, a) ==
  /\ pc[a] = "xchg"
  /\ busy' = [busy EXCEPT ![call[a].lock] = TRUE]
  /\ held' = [held EXCEPT ![a] = @ \cup {call[a].lock}]
  /\ Return(a)
  /\ UNCHANGED <<outer, int_on, exec, home>>

Take(c, a) ==
  /\ pc[a] = "xchg"
  /\ ~busy[call[a].lock]
  /\ busy' = [busy EXCEPT ![call[a].lock] = TRUE]
  /\ held' = [held EXCEPT ![a] = @ \cup {call[a].lock}]
  /\ Return(a)
  /\ UNCHANGED <<outer, int_on, exec, home>>

LeaveOuter_Always(c, s, l) ==
  /\ outer' = [outer EXCEPT ![s] = NULL]
  /\ int_on' = [int_on EXCEPT ![c] = TRUE]

(* What acquire_spinlock and release_spinlock end with: if l is the        *)
(* outer lock of CPU s, it is forgotten and interrupts are enabled.        *)
LeaveOuter(c, s, l) ==
  IF outer[s] = l
  THEN /\ outer' = [outer EXCEPT ![s] = NULL]
       /\ int_on' = [int_on EXCEPT ![c] = TRUE]
  ELSE UNCHANGED <<outer, int_on>>

GiveUp_KeepsOuter(c, a) ==
  /\ pc[a] = "xchg" /\ call[a].lock \in Limited
  /\ busy[call[a].lock]
  /\ Return(a)
  /\ UNCHANGED <<outer, int_on, busy, exec, home, held>>

GiveUp(c, a) ==
  /\ pc[a] = "xchg" /\ call[a].lock \in Limited
  /\ busy[call[a].lock]
  /\ LeaveOuter(c, call[a].slot, call[a].lock)
  /\ Return(a)
  /\ UNCHANGED <<busy, exec, home, held>>

(* Callers release first what they acquired last. *)
Innermost(a, l) ==
  l \in held[a] /\ \A k \in held[a] : <<l, k>> \notin Nested

(* release_spinlock *)
Release(c, a, l) ==
  /\ pc[a] = "out"
  /\ Innermost(a, l)
  /\ busy' = [busy EXCEPT ![l] = FALSE]
  /\ held' = [held EXCEPT ![a] = @ \ {l}]
  /\ call' = [call EXCEPT ![a] = [lock |-> l, slot |-> NULL]]
  /\ pc' = [pc EXCEPT ![a] = "leave"]
  /\ UNCHANGED <<outer, int_on, exec, home>>

Leave(c, a) ==
  /\ pc[a] = "leave"
  /\ LeaveOuter(c, c, call[a].lock)
  /\ Return(a)
  /\ UNCHANGED <<busy, exec, home, held>>
-----------------------------------------------------------------------------
(* do_self_halt_task releases the locks a pausing thread holds from within *)
(* the task interrupt, which it entered with interrupts disabled: first    *)
(* the outer lock, then the locks one by one; iret enables interrupts.     *)
Halt(c, a) ==
  /\ a \in Thread /\ pc[a] = "out" /\ held[a] # {}
  /\ outer' = [outer EXCEPT ![c] = NULL]
  /\ int_on' = [int_on EXCEPT ![c] = FALSE]
  /\ pc' = [pc EXCEPT ![a] = "halt"]
  /\ UNCHANGED <<busy, exec, home, call, held>>

HaltRelease(c, a, l) ==
  /\ pc[a] = "halt" /\ Innermost(a, l)
  /\ busy' = [busy EXCEPT ![l] = FALSE]
  /\ held' = [held EXCEPT ![a] = @ \ {l}]
  /\ UNCHANGED <<outer, int_on, exec, home, pc, call>>

HaltReturn(c, a) ==
  /\ pc[a] = "halt" /\ held[a] = {}
  /\ int_on' = [int_on EXCEPT ![c] = TRUE]
  /\ pc' = [pc EXCEPT ![a] = "out"]
  /\ UNCHANGED <<outer, busy, exec, home, call, held>>
-----------------------------------------------------------------------------
(* A timer interrupt, which may switch threads. *)
Interruptible(c) == int_on[c] /\ exec[c] \in Thread

SwitchTo(c, t) ==
  /\ home[t] = c
  /\ exec' = [exec EXCEPT ![c] = t]

Timer(c, t) ==
  /\ Interruptible(c)
  /\ SwitchTo(c, t)
  /\ UNCHANGED <<outer, int_on, busy, home, pc, call, held>>

(* A thread that is not executing is paused, and resumed on another CPU.   *)
(* The task interrupt finds its old CPU outside of interrupt handlers.     *)
Migrate(t, c) ==
  /\ exec[home[t]] \in Thread \ {t}
  /\ home' = [home EXCEPT ![t] = c]
  /\ UNCHANGED <<outer, int_on, busy, exec, pc, call, held>>

(* handle_timer, around the call of timer_proc_: the interrupted thread,   *)
(* or the one the interrupt has switched to, goes on afterwards.           *)
ProcBegin(c) ==
  /\ TimerProc
  /\ Interruptible(c)
  /\ outer' = [outer EXCEPT ![c] = ISR]
  /\ int_on' = [int_on EXCEPT ![c] = FALSE]
  /\ exec' = [exec EXCEPT ![c] = c]
  /\ UNCHANGED <<busy, home, pc, call, held>>

ProcEnd(c, t) ==
  /\ exec[c] = c /\ pc[c] = "out" /\ held[c] = {}
  /\ outer' = [outer EXCEPT ![c] = NULL]
  /\ int_on' = [int_on EXCEPT ![c] = TRUE]
  /\ SwitchTo(c, t)
  /\ UNCHANGED <<busy, home, pc, call, held>>

(* What the code of agent a does on CPU c, once it has called a function *)
Step(c, a) ==
  \/ Enter(c, a) \/ Cli(c, a) \/ Take(c, a) \/ GiveUp(c, a)
  \/ \E l \in Lock : Release(c, a, l) \/ HaltRelease(c, a, l)
  \/ Leave(c, a) \/ HaltReturn(c, a)

CpuStep(c) ==
  \/ Step(c, exec[c])
  \/ \E t \in Thread : ProcEnd(c, t)

CodeStep(c) ==
  \/ CpuStep(c)
  \/ \E l \in Lock : Call(c, exec[c], l)
  \/ Halt(c, exec[c])
  \/ \E t \in Thread : Timer(c, t) \/ Migrate(t, c)
  \/ ProcBegin(c)

InWindow(a) == pc[a] \in {"enter", "cli"}

(* Nobody is in a lock function or holds a lock, and interrupts are on. *)
Quiet ==
  /\ \A c \in Cpu : outer[c] = NULL /\ int_on[c] /\ exec[c] \in Thread
  /\ \A a \in Agent : pc[a] = "out" /\ held[a] = {}

Record ==
  hit' = /\ hit \/ \E c \in Cpu : InWindow(exec[c]) /\ exec'[c] # exec[c]
         /\ ~Quiet'

Next == \E c \in Cpu : CodeStep(c) /\ Record

(* A CPU keeps executing what it executes, and a caller releases what it   *)
(* has acquired; nobody is obliged to acquire a lock, and nothing is       *)
(* assumed about who gets a lock that several CPUs spin on.                *)
Spec ==
  Init /\ [][Next]_vars /\ \A c \in Cpu : WF_vars(CpuStep(c) /\ Record)
-----------------------------------------------------------------------------
(* busy is set exactly while somebody holds the lock, and then one agent   *)
(* only: no release of an outer or an inner lock, no self-halt and no      *)
(* timer procedure frees a lock of somebody else.                          *)
MutualExclusion ==
  \A l \in Lock :
    /\ \A a, b \in Agent : l \in held[a] /\ l \in held[b] => a = b
    /\ busy[l] <=> \E a \in Agent : l \in held[a]

(* What sync.h says acquire_spinlock does ("disables interrupts"): the     *)
(* holder of a lock is executing, with interrupts disabled, so that        *)
(* whoever spins waits for a CPU that runs.  An interrupt that comes       *)
(* between the outer lock and cli is the only way out of this.             *)
HoldersRunUninterrupted ==
  hit \/ \A a \in Agent :
           held[a] # {} => \E c \in Cpu : exec[c] = a /\ ~int_on[c]

(* A thread that holds no lock and is in no lock function has interrupts   *)
(* enabled: no path leaves them disabled for good, but by an interrupt     *)
(* that comes between the outer lock and cli.                              *)
InterruptsComeBack ==
  hit \/ \A c \in Cpu :
           exec[c] \in Thread /\ pc[exec[c]] = "out" /\ held[exec[c]] = {}
             => int_on[c]

Spins(a) == pc[a] = "xchg" /\ busy[call[a].lock]

(* CPUs never spin at a standstill: while somebody spins on a lock, some   *)
(* holder of a lock executes, with interrupts disabled, and does not spin. *)
(* (That each one gets its lock is not guaranteed: the exchange is not     *)
(* fair.)  The way the callers nest the locks is part of this, and an      *)
(* interrupt between the outer lock and cli the only exception.            *)
NoStandstill ==
  hit \/ ( (\E a \in Agent : Spins(a))
           => \E c \in Cpu : /\ held[exec[c]] # {} /\ ~int_on[c]
                             /\ ~Spins(exec[c]) )
=============================================================================
