----------------------------- MODULE Scheduler ------------------------------
(***************************************************************************)
(* The scheduler of schedule.c on several CPUs: the calls a thread or a    *)
(* timer procedure makes, the locks they take, the tasks a CPU asks        *)
(* another CPU to run, and the interrupts that run them.                   *)
(*                                                                         *)
(* A CPU executes a thread (frame), or waits in __halt (NULL), with        *)
(* interrupts enabled; pc is then "run".  A call disables interrupts as    *)
(* it takes its first lock and enables them as it returns (Spinlock shows  *)
(* under which condition), so that a CPU is inside one call at a time and  *)
(* every other pc means that its interrupts are disabled.  What a call     *)
(* does between two synchronisation points is one step: the lists and the  *)
(* thread states are touched under inactive.lock only, a CPU's queue only  *)
(* by the CPU itself.                                                      *)
(***************************************************************************)
EXTENDS RunQueue

CONSTANTS
  Cpu,
  Affinity,     \* thread->affinity
  Kmain,        \* the thread start_kmain_thread resumes at the end of boot
  TimerProc     \* whether timer procedures call resume_thread

ASSUME SchedulerAssumption ==
  /\ Quantum \in Nat
  /\ NULL \notin Thread /\ NULL \notin Cpu
  /\ Kmain \in Thread
  /\ Affinity \in [Thread -> SUBSET Cpu]
  /\ \A t \in Thread : IsFiniteSet(Affinity[t]) /\ Affinity[t] # {}
  /\ TimerProc \in BOOLEAN

VARIABLES
  all, inactive,   \* the threads of these lists
  state, cpu,      \* thread->state and thread->cpu
  quantum, ctx,    \* thread->quantum and thread->context, as in CpuQueue
  rq, fs, frame,   \* the queue, MSR_FS_BASE and registers of every CPU
  pc, op,          \* where a CPU is inside a call, and the call
  task, ipi,       \* cpud->task, and a task interrupt that is pending
  all_lock, inactive_lock, cpu_lock,   \* who holds all.lock, ...
  user_lock        \* a caller's lock, like ilock of a mutex

lists == <<all, inactive>>
threads == <<state, cpu, quantum, ctx>>
cpus == <<rq, fs, frame>>
tasks == <<task, ipi>>
locks == <<all_lock, inactive_lock, cpu_lock, user_lock>>
vars == <<all, inactive, state, cpu, quantum, ctx, rq, fs, frame, pc, op,
          task, ipi, all_lock, inactive_lock, cpu_lock, user_lock>>

Kind == {"none", "attach", "detach", "resume", "pause", "stop"}
PC == {"run", "user", "all", "inactive", "cpu", "wait", "done",
       "halt", "unlock_inactive", "unlock_user"}

(* A call: what is called for which thread, the CPU that runs its task,    *)
(* and whether the caller holds user_lock.                                 *)
NoOp == [kind |-> "none", thread |-> NULL, target |-> NULL, user |-> FALSE]
NoTask == [type |-> "resume", error |-> "none", thread |-> NULL, lock |-> FALSE]

TypeOK ==
  /\ all \subseteq Thread /\ inactive \subseteq Thread
  /\ state \in [Thread -> {"unknown", "running", "paused", "stopped"}]
  /\ cpu \in [Thread -> Cpu \cup {NULL}]
  /\ quantum \in [Thread -> 0 .. Quantum]
  /\ ctx \in [Thread -> Thread \cup {NULL}]
  /\ rq \in [Cpu -> Queue]
  /\ fs \in [Cpu -> Thread \cup {NULL}]
  /\ frame \in [Cpu -> Thread \cup {NULL}]
  /\ pc \in [Cpu -> PC]
  /\ op \in [Cpu -> [kind : Kind, thread : Thread \cup {NULL},
                     target : Cpu \cup {NULL}, user : BOOLEAN]]
  /\ task \in [Cpu -> [type : {"resume", "pause", "self_halt"},
                       error : {"none", "busy", "not_found"},
                       thread : Thread \cup {NULL}, lock : BOOLEAN]]
  /\ ipi \in [Cpu -> BOOLEAN]
  /\ all_lock \in Cpu \cup {NULL} /\ inactive_lock \in Cpu \cup {NULL}
  /\ cpu_lock \in [Cpu -> Cpu \cup {NULL}]
  /\ user_lock \in Cpu \cup {NULL}

(* boot64 has attached and resumed the kmain thread and halts. *)
Init ==
  /\ all = {Kmain} /\ inactive = {}
  /\ state = [t \in Thread |-> IF t = Kmain THEN "running" ELSE "unknown"]
  /\ \E bsp \in Affinity[Kmain] :
       /\ cpu = [t \in Thread |-> IF t = Kmain THEN bsp ELSE NULL]
       /\ rq = [c \in Cpu |-> IF c = bsp THEN Resumed(EmptyQueue, Kmain)
                                         ELSE EmptyQueue]
  /\ quantum = [t \in Thread |-> IF t = Kmain THEN Quantum ELSE 0]
  /\ ctx = [t \in Thread |-> t]
  /\ fs = [c \in Cpu |-> NULL] /\ frame = [c \in Cpu |-> NULL]
  /\ pc = [c \in Cpu |-> "run"] /\ op = [c \in Cpu |-> NoOp]
  /\ task = [c \in Cpu |-> NoTask] /\ ipi = [c \in Cpu |-> FALSE]
  /\ all_lock = NULL /\ inactive_lock = NULL
  /\ cpu_lock = [c \in Cpu |-> NULL] /\ user_lock = NULL
-----------------------------------------------------------------------------
(* Calls.  The thread that CPU c executes calls a function for thread t;   *)
(* where says which lock the function takes first.                         *)
Begin(c, kind, t, user, where) ==
  /\ op' = [op EXCEPT ![c] = [kind |-> kind, thread |-> t, target |-> NULL,
                              user |-> user]]
  /\ pc' = [pc EXCEPT ![c] = where]

CanCall(c) == pc[c] = "run" /\ frame[c] # NULL

(* set_thread_context, on a thread that is not attached *)
Attaching(t) == \E c \in Cpu : op[c].kind = "attach" /\ op[c].thread = t

set_thread_context(c, t) ==
  /\ CanCall(c)
  /\ t \notin all /\ ~Attaching(t)
  /\ ctx' = [ctx EXCEPT ![t] = t]
  /\ UNCHANGED <<lists, state, cpu, quantum, cpus, pc, op, tasks, locks>>

(* The magic is tested and the state written before the locks are taken;   *)
(* a thread's owner attaches it from one place at a time.                  *)
attach_thread(c, t) ==
  /\ CanCall(c)
  /\ t \notin all /\ ~Attaching(t)
  /\ state' = [state EXCEPT ![t] = "paused"]
  /\ Begin(c, "attach", t, FALSE, "all")
  /\ UNCHANGED <<lists, cpu, quantum, ctx, cpus, tasks, locks>>

detach_thread(c, t) ==
  /\ CanCall(c)
  /\ Begin(c, "detach", t, FALSE, "all")
  /\ UNCHANGED <<lists, threads, cpus, tasks, locks>>

(* resume_thread, pause_thread and stop_thread; the last one is also what  *)
(* __exit_thread calls when the thread's procedure returns                 *)
Request(c, kind, t) ==
  /\ CanCall(c)
  /\ Begin(c, kind, t, FALSE, "inactive")
  /\ UNCHANGED <<lists, threads, cpus, tasks, locks>>

(* A caller takes its own lock and resumes a thread under it, or pauses    *)
(* itself and has the lock released (pause_this_thread).                   *)
LockedResume(c, t) ==
  /\ CanCall(c)
  /\ Begin(c, "resume", t, TRUE, "user")
  /\ UNCHANGED <<lists, threads, cpus, tasks, locks>>

pause_this_thread(c) ==
  /\ CanCall(c)
  /\ fs[c] # NULL
  /\ Begin(c, "pause", fs[c], TRUE, "user")
  /\ UNCHANGED <<lists, threads, cpus, tasks, locks>>
-----------------------------------------------------------------------------
AcquireUser(c) ==
  /\ pc[c] = "user" /\ user_lock = NULL
  /\ user_lock' = c
  /\ pc' = [pc EXCEPT ![c] = "inactive"]
  /\ UNCHANGED <<lists, threads, cpus, op, tasks,
                 all_lock, inactive_lock, cpu_lock>>

AcquireAll(c) ==
  /\ pc[c] = "all" /\ all_lock = NULL
  /\ all_lock' = c
  /\ pc' = [pc EXCEPT ![c] = "inactive"]
  /\ UNCHANGED <<lists, threads, cpus, op, tasks,
                 inactive_lock, cpu_lock, user_lock>>

(* The call of CPU c returns.  Who has resumed a thread under its own lock *)
(* releases that now; who called pause_this_thread leaves it to the call,  *)
(* even to one that fails.                                                 *)
Return(c) ==
  /\ pc' = [pc EXCEPT ![c] = "run"]
  /\ op' = [op EXCEPT ![c] = NoOp]
  /\ user_lock' = IF op[c].user /\ op[c].kind = "resume" THEN NULL ELSE user_lock

(* The rest of attach_thread and detach_thread, under both locks *)
Entered(c, kinds) == pc[c] = "inactive" /\ op[c].kind \in kinds /\ inactive_lock = NULL

Attach(c) ==
  /\ Entered(c, {"attach"})
  /\ all' = all \cup {op[c].thread}
  /\ inactive' = inactive \cup {op[c].thread}
  /\ all_lock' = NULL
  /\ Return(c)
  /\ UNCHANGED <<threads, cpus, tasks, inactive_lock, cpu_lock>>

(* Faulty variants, each named for what it gets wrong, are kept next to    *)
(* the definition they vary; nothing uses them in the specification.       *)
Detach_KeepsLock(c) ==
  LET t == op[c].thread
      found == t \in all /\ state[t] \in {"paused", "stopped"}
  IN  /\ Entered(c, {"detach"})
      /\ all' = IF found THEN all \ {t} ELSE all
      /\ inactive' = IF found THEN inactive \ {t} ELSE inactive
      /\ all_lock' = IF found THEN NULL ELSE all_lock
      /\ Return(c)
      /\ UNCHANGED <<threads, cpus, tasks, inactive_lock, cpu_lock>>

Detach(c) ==
  LET t == op[c].thread
      found == t \in all /\ state[t] \in {"paused", "stopped"}
  IN  /\ Entered(c, {"detach"})
      /\ all' = IF found THEN all \ {t} ELSE all
      /\ inactive' = IF found THEN inactive \ {t} ELSE inactive
      /\ all_lock' = NULL
      /\ Return(c)
      /\ UNCHANGED <<threads, cpus, tasks, inactive_lock, cpu_lock>>

(* The body of resume_thread and deactivate_thread: either the call is     *)
(* over under inactive.lock, or the lock is kept for a task of one CPU.    *)
Refuse(c) ==
  LET t == op[c].thread
      ok == CASE op[c].kind = "resume" -> {"paused"}
              [] op[c].kind = "pause" -> {"running"}
              [] op[c].kind = "stop" -> {"running", "paused"}
  IN  /\ Entered(c, {"resume", "pause", "stop"})
      /\ t \notin all \/ state[t] \notin ok
      /\ Return(c)
      /\ UNCHANGED <<lists, threads, cpus, tasks,
                     all_lock, inactive_lock, cpu_lock>>

StopPaused(c) ==
  LET t == op[c].thread
  IN  /\ Entered(c, {"stop"})
      /\ t \in all /\ state[t] = "paused"
      /\ state' = [state EXCEPT ![t] = "stopped"]
      /\ Return(c)
      /\ UNCHANGED <<lists, cpu, quantum, ctx, cpus, tasks,
                     all_lock, inactive_lock, cpu_lock>>

GoTo(c, target) ==
  /\ inactive_lock' = c
  /\ op' = [op EXCEPT ![c].target = target]
  /\ pc' = [pc EXCEPT ![c] = "cpu"]

(* find_least_loaded_cpu: one of the CPUs with the fewest threads *)
Load(c) == Cardinality(Members(rq[c]))

LeastLoaded(t) ==
  {c \in Affinity[t] : \A d \in Affinity[t] : Load(c) <= Load(d)}

Resume_StaysInactive(c) ==
  LET t == op[c].thread
  IN  /\ Entered(c, {"resume"})
      /\ t \in all /\ state[t] = "paused"
      /\ quantum' = [quantum EXCEPT ![t] = Quantum]
      /\ \E d \in LeastLoaded(t) : GoTo(c, d)
      /\ UNCHANGED <<lists, state, cpu, ctx, cpus, tasks,
                     all_lock, cpu_lock, user_lock>>

Resume(c) ==
  LET t == op[c].thread
  IN  /\ Entered(c, {"resume"})
      /\ t \in all /\ state[t] = "paused"
      /\ inactive' = inactive \ {t}
      /\ quantum' = [quantum EXCEPT ![t] = Quantum]
      /\ \E d \in LeastLoaded(t) : GoTo(c, d)
      /\ UNCHANGED <<all, state, cpu, ctx, cpus, tasks,
                     all_lock, cpu_lock, user_lock>>

Deactivate(c) ==
  LET t == op[c].thread
  IN  /\ Entered(c, {"pause", "stop"})
      /\ t \in all /\ state[t] = "running"
      /\ GoTo(c, cpu[t])
      /\ UNCHANGED <<lists, threads, cpus, tasks,
                     all_lock, cpu_lock, user_lock>>
-----------------------------------------------------------------------------
(* The task handlers, on CPU c, for thread t.  NewTask is the task, with   *)
(* its error, that they leave behind.                                      *)
do_resume_task(c, t, k) ==
  /\ state' = [state EXCEPT ![t] = "running"]
  /\ cpu' = [cpu EXCEPT ![t] = c]
  /\ rq' = [rq EXCEPT ![c] = Resumed(@, t)]
  /\ task' = [task EXCEPT ![c] = [k EXCEPT !.error = "none"]]
  /\ UNCHANGED <<ctx, fs, frame>>

do_pause_task_NoHalt(c, t, k, interrupt) ==
  LET current == IsCurrent(rq[c], t)
  IN  /\ rq' = [rq EXCEPT ![c] = Paused(@, t)]
      /\ fs' = IF current THEN [fs EXCEPT ![c] = NULL] ELSE fs
      /\ ctx' = IF current /\ interrupt THEN [ctx EXCEPT ![t] = frame[c]] ELSE ctx
      /\ task' = [task EXCEPT ![c] =
           [k EXCEPT !.error = "none",
                     !.type = IF current /\ ~interrupt THEN "self_halt" ELSE @]]
      /\ UNCHANGED <<state, cpu, frame>>

(* An interrupt saves the context of the current thread and halts the CPU; *)
(* a direct call leaves that to a self-halt task.                          *)
do_pause_task(c, t, k, interrupt) ==
  IF state[t] # "running" \/ cpu[t] # c
  THEN /\ task' = [task EXCEPT ![c] = [k EXCEPT !.error = "not_found"]]
       /\ UNCHANGED <<state, cpu, ctx, cpus>>
  ELSE LET current == IsCurrent(rq[c], t)
       IN  /\ rq' = [rq EXCEPT ![c] = Paused(@, t)]
           /\ fs' = IF current THEN [fs EXCEPT ![c] = NULL] ELSE fs
           /\ IF current /\ interrupt
              THEN /\ ctx' = [ctx EXCEPT ![t] = frame[c]]
                   /\ frame' = [frame EXCEPT ![c] = NULL]
              ELSE UNCHANGED <<ctx, frame>>
           /\ task' = [task EXCEPT ![c] =
                [k EXCEPT !.error = "none",
                          !.type = IF current /\ ~interrupt
                                   THEN "self_halt" ELSE @]]
           /\ UNCHANGED <<state, cpu>>

RunTask(c, k, interrupt) ==
  IF k.type = "resume" THEN do_resume_task(c, k.thread, k)
                       ELSE do_pause_task(c, k.thread, k, interrupt)

(* run_cpu_task: the task is run in place on the caller's CPU, and sent to *)
(* another one as an interrupt, whose end the caller waits for.            *)
TaskOf(o) ==
  [type |-> IF o.kind = "resume" THEN "resume" ELSE "pause", error |-> "none",
   thread |-> o.thread, lock |-> o.user /\ o.kind = "pause"]

LocalTask(c) ==
  /\ pc[c] = "cpu" /\ op[c].target = c
  /\ cpu_lock[c] = NULL
  /\ cpu_lock' = [cpu_lock EXCEPT ![c] = c]
  /\ RunTask(c, TaskOf(op[c]), FALSE)
  /\ pc' = [pc EXCEPT ![c] = "done"]
  /\ UNCHANGED <<lists, quantum, op, ipi, all_lock, inactive_lock, user_lock>>

SendTask_NotBusy(c) ==
  LET d == op[c].target
  IN  /\ pc[c] = "cpu" /\ d # c
      /\ cpu_lock[d] = NULL
      /\ cpu_lock' = [cpu_lock EXCEPT ![d] = c]
      /\ task' = [task EXCEPT ![d] = TaskOf(op[c])]
      /\ ipi' = [ipi EXCEPT ![d] = TRUE]
      /\ pc' = [pc EXCEPT ![c] = "wait"]
      /\ UNCHANGED <<lists, threads, cpus, op,
                     all_lock, inactive_lock, user_lock>>

SendTask(c) ==
  LET d == op[c].target
  IN  /\ pc[c] = "cpu" /\ d # c
      /\ cpu_lock[d] = NULL
      /\ cpu_lock' = [cpu_lock EXCEPT ![d] = c]
      /\ task' = [task EXCEPT ![d] = [TaskOf(op[c]) EXCEPT !.error = "busy"]]
      /\ ipi' = [ipi EXCEPT ![d] = TRUE]
      /\ pc' = [pc EXCEPT ![c] = "wait"]
      /\ UNCHANGED <<lists, threads, cpus, op,
                     all_lock, inactive_lock, user_lock>>

TaskInterrupt(c) ==
  /\ ipi[c] /\ pc[c] = "run"
  /\ ipi' = [ipi EXCEPT ![c] = FALSE]
  /\ RunTask(c, task[c], TRUE)
  /\ UNCHANGED <<lists, quantum, pc, op, locks>>
-----------------------------------------------------------------------------
(* The end of resume_thread, and of deactivate_running.  A task that finds *)
(* its thread elsewhere would be retried under the same inactive.lock,     *)
(* with the same result, TASK_RETRY_COUNT times, and the call would fail;  *)
(* TaskSucceeds says that this does not happen.                            *)
Ended(c) ==
  /\ pc[c] \in {"wait", "done"}
  /\ task[op[c].target].error # "busy"

Complete_KeepsCpuLock(c) ==
  LET t == op[c].thread
      k == task[op[c].target]
      deactivated == k.type # "resume" /\ k.error = "none"
  IN  /\ Ended(c) /\ k.type # "self_halt"
      /\ state' = IF deactivated THEN [state EXCEPT ![t] = "paused"] ELSE state
      /\ inactive' = IF deactivated THEN inactive \cup {t} ELSE inactive
      /\ inactive_lock' = NULL
      /\ Return(c)
      /\ UNCHANGED <<all, cpu, quantum, ctx, cpus, tasks, all_lock, cpu_lock>>

Complete(c) ==
  LET t == op[c].thread
      k == task[op[c].target]
      deactivated == k.type # "resume" /\ k.error = "none"
  IN  /\ Ended(c) /\ k.type # "self_halt"
      /\ state' = IF deactivated
                  THEN [state EXCEPT ![t] = IF op[c].kind = "stop"
                                            THEN "stopped" ELSE "paused"]
                  ELSE state
      /\ inactive' = IF deactivated THEN inactive \cup {t} ELSE inactive
      /\ cpu_lock' = [cpu_lock EXCEPT ![op[c].target] = NULL]
      /\ inactive_lock' = NULL
      /\ Return(c)
      /\ UNCHANGED <<all, cpu, quantum, ctx, cpus, tasks, all_lock>>

CompleteSelf_UnlocksEarly(c) ==
  LET t == op[c].thread
  IN  /\ Ended(c) /\ task[op[c].target].type = "self_halt"
      /\ state' = [state EXCEPT ![t] = IF op[c].kind = "stop"
                                       THEN "stopped" ELSE "paused"]
      /\ inactive' = inactive \cup {t}
      /\ inactive_lock' = NULL
      /\ pc' = [pc EXCEPT ![c] = "halt"]
      /\ UNCHANGED <<all, cpu, quantum, ctx, cpus, op, tasks,
                     all_lock, cpu_lock, user_lock>>

CompleteSelf_NeverStops(c) ==
  LET t == op[c].thread
  IN  /\ Ended(c) /\ task[op[c].target].type = "self_halt"
      /\ state' = [state EXCEPT ![t] = "paused"]
      /\ inactive' = inactive \cup {t}
      /\ pc' = [pc EXCEPT ![c] = "halt"]
      /\ UNCHANGED <<all, cpu, quantum, ctx, cpus, op, tasks, locks>>

CompleteSelf(c) ==
  LET t == op[c].thread
  IN  /\ Ended(c) /\ task[op[c].target].type = "self_halt"
      /\ state' = [state EXCEPT ![t] = IF op[c].kind = "stop"
                                       THEN "stopped" ELSE "paused"]
      /\ inactive' = inactive \cup {t}
      /\ pc' = [pc EXCEPT ![c] = "halt"]
      /\ UNCHANGED <<all, cpu, quantum, ctx, cpus, op, tasks, locks>>

(* do_self_halt_task, in the interrupt the pausing thread has issued: the  *)
(* context is saved, and the locks are released one after the other.  The  *)
(* last of them is read from the task at the end.                          *)
do_self_halt_task(c) ==
  /\ pc[c] = "halt"
  /\ ctx' = [ctx EXCEPT ![task[c].thread] = frame[c]]
  /\ frame' = [frame EXCEPT ![c] = NULL]
  /\ cpu_lock' = [cpu_lock EXCEPT ![c] = NULL]
  /\ pc' = [pc EXCEPT ![c] = "unlock_inactive"]
  /\ UNCHANGED <<lists, state, cpu, quantum, rq, fs, op, tasks,
                 all_lock, inactive_lock, user_lock>>

UnlockInactive(c) ==
  /\ pc[c] = "unlock_inactive"
  /\ inactive_lock' = NULL
  /\ pc' = [pc EXCEPT ![c] = "unlock_user"]
  /\ UNCHANGED <<lists, threads, cpus, op, tasks,
                 all_lock, cpu_lock, user_lock>>

UnlockUser(c) ==
  /\ pc[c] = "unlock_user"
  /\ user_lock' = IF task[c].lock THEN NULL ELSE user_lock
  /\ pc' = [pc EXCEPT ![c] = "run"]
  /\ op' = [op EXCEPT ![c] = NoOp]
  /\ UNCHANGED <<lists, threads, cpus, tasks,
                 all_lock, inactive_lock, cpu_lock>>
-----------------------------------------------------------------------------
(* The timer interrupt on CPU c, as in CpuQueue; the timer procedure, if   *)
(* it is due, resumes a thread from within the interrupt.                  *)
TickLoad(c) ==
  LET t == Current(rq[c])
  IN  /\ rq[c].load
      /\ frame' = [frame EXCEPT ![c] = ctx[t]]
      /\ fs' = [fs EXCEPT ![c] = t]
      /\ rq' = [rq EXCEPT ![c].load = FALSE]
      /\ UNCHANGED <<quantum, ctx>>

TickRun(c) ==
  LET t == Current(rq[c])
      k == Switched(rq[c])
      next == Current(k)
  IN  /\ ~rq[c].load
      /\ IF Highest(rq[c]) >= rq[c].current /\ quantum[t] > 0
         THEN /\ quantum' = [quantum EXCEPT ![t] = @ - 1]
              /\ UNCHANGED <<rq, fs, frame, ctx>>
         ELSE /\ quantum' = [quantum EXCEPT ![t] = Quantum]
              /\ rq' = [rq EXCEPT ![c] = k]
              /\ ctx' = [ctx EXCEPT ![t] = frame[c]]
              /\ IF next = t THEN UNCHANGED <<fs, frame>>
                 ELSE /\ fs' = [fs EXCEPT ![c] = next]
                      /\ frame' = [frame EXCEPT ![c] = ctx[next]]

Tick(c) ==
  IF IsIdle(rq[c]) THEN UNCHANGED <<rq, fs, frame, quantum, ctx>>
  ELSE TickLoad(c) \/ TickRun(c)

Timer(c) ==
  /\ pc[c] = "run"
  /\ Tick(c)
  /\ UNCHANGED <<lists, state, cpu, pc, op, tasks, locks>>

TimerWithProc(c, t) ==
  /\ TimerProc
  /\ pc[c] = "run"
  /\ Tick(c)
  /\ Begin(c, "resume", t, FALSE, "inactive")
  /\ UNCHANGED <<lists, state, cpu, tasks, locks>>
-----------------------------------------------------------------------------
CallStep(c) ==
  \/ AcquireUser(c) \/ AcquireAll(c) \/ Attach(c) \/ Detach(c)
  \/ Refuse(c) \/ StopPaused(c) \/ Resume(c) \/ Deactivate(c)
  \/ LocalTask(c) \/ SendTask(c) \/ Complete(c) \/ CompleteSelf(c)
  \/ do_self_halt_task(c) \/ UnlockInactive(c) \/ UnlockUser(c)

Next ==
  \E c \in Cpu :
    \/ \E t \in Thread :
         \/ set_thread_context(c, t) \/ attach_thread(c, t)
         \/ detach_thread(c, t)
         \/ \E kind \in {"resume", "pause", "stop"} : Request(c, kind, t)
         \/ LockedResume(c, t) \/ TimerWithProc(c, t)
    \/ pause_this_thread(c)
    \/ CallStep(c) \/ TaskInterrupt(c) \/ Timer(c)

(* A CPU inside a call goes on with it.  The periodic timer and the task   *)
(* interrupt stay pending in the local APIC while interrupts are disabled  *)
(* and are taken when they are enabled, however often and shortly that is. *)
AnyTimer(c) == Timer(c) \/ \E t \in Thread : TimerWithProc(c, t)

Fairness ==
  \A c \in Cpu :
    WF_vars(CallStep(c)) /\ SF_vars(TaskInterrupt(c)) /\ SF_vars(AnyTimer(c))

Spec == Init /\ [][Next]_vars /\ Fairness
-----------------------------------------------------------------------------
(* No two CPUs execute the same thread: pausing on one CPU and resuming on *)
(* another never overlap, because inactive.lock is kept until a halting    *)
(* CPU has saved the thread's context.                                     *)
SingleExecution ==
  \A c, d \in Cpu : c # d => frame[c] = NULL \/ frame[c] # frame[d]

(* A thread on the inactive list does not execute, except for the last     *)
(* steps of its own pause: what the tests call "making sure it paused".    *)
InactiveIsQuiet ==
  \A c \in Cpu : frame[c] \in inactive => pc[c] = "halt"

(* Every attached thread is in exactly one place: on the inactive list, in *)
(* the queue of the CPU it names, or in the hands of the one call that     *)
(* holds inactive.lock; its state agrees with the place.                   *)
InHand(t) ==
  \E c \in Cpu : inactive_lock = c /\ op[c].thread = t /\ op[c].kind # "none"

Placement ==
  \A t \in Thread :
    LET queues == {c \in Cpu : t \in Members(rq[c])}
    IN  /\ queues = {} \/ (queues = {cpu[t]} /\ state[t] = "running")
        /\ ~(t \in inactive /\ queues # {})
        /\ t \in all => t \in inactive \/ queues # {} \/ InHand(t)
        /\ t \in inactive => t \in all /\ state[t] \in {"paused", "stopped"}
        /\ queues # {} => t \in all

(* The task and the task interrupt of a CPU belong to the one call that    *)
(* waits for it: no task is overwritten before it has run, none is run     *)
(* twice, and no interrupt is left over.                                   *)
TaskIsOwned ==
  \A d \in Cpu :
    LET waiting == {c \in Cpu : pc[c] = "wait" /\ op[c].target = d}
    IN  /\ Cardinality(waiting) <= 1
        /\ \A c \in waiting : task[d].thread = op[c].thread
        /\ ipi[d] <=> waiting # {} /\ task[d].error = "busy"

(* A pause task finds its thread running on the CPU it was sent to, and a  *)
(* CPU's lock is never contended: the retry loop of deactivate_thread is   *)
(* never used.                                                             *)
TaskSucceeds ==
  \A c \in Cpu :
    /\ pc[c] \in {"wait", "done"} => task[op[c].target].error # "not_found"
    /\ pc[c] = "cpu" => cpu_lock[op[c].target] = NULL

(* A caller's lock has been left behind: its holder is in no call that     *)
(* would release it.                                                       *)
LockLeft ==
  user_lock # NULL /\ (~op[user_lock].user \/ pc[user_lock] \in {"run", "user"})

SpinsOn(c) ==
  CASE pc[c] = "user" -> user_lock
    [] pc[c] = "all" -> all_lock
    [] pc[c] = "inactive" -> inactive_lock
    [] OTHER -> NULL

(* A CPU waits for a task interrupt on a CPU that spins, with interrupts   *)
(* disabled: on the very inactive.lock the first one holds, or on a lock   *)
(* whose holder needs it.                                                  *)
CrossWait ==
  \E c \in Cpu :
    pc[c] = "wait" /\ ipi[op[c].target] /\ SpinsOn(op[c].target) # NULL

(* The call of CPU c can go on, or the interrupt it waits for can be taken. *)
GoesOn(c) ==
  /\ pc[c] # "run" /\ SpinsOn(c) = NULL
  /\ pc[c] = "cpu" => cpu_lock[op[c].target] = NULL
  /\ pc[c] = "wait" => LET d == op[c].target
                      IN  task[d].error # "busy" \/ (ipi[d] /\ pc[d] = "run")

(* While CPUs are inside calls one of them goes on: whatever they lock,    *)
(* send each other and give up halfway, the calls come to a standstill in  *)
(* the two ways that run_cpu_task and do_self_halt_task open, and in no    *)
(* other.                                                                  *)
CallsGoOn ==
  (\E c \in Cpu : pc[c] # "run")
    => (\E c \in Cpu : GoesOn(c)) \/ CrossWait \/ LockLeft

(* schedule.h on pause_this_thread: "a given spinlock is released          *)
(* atomically (within an interrupt)".  The code does not keep this: a CPU  *)
(* that has paused its thread may go on with the thread's lock held.       *)
NoLockLeft == \A c \in Cpu : pc[c] = "run" => user_lock # c
=============================================================================
