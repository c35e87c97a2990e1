------------------------------ MODULE CpuQueue ------------------------------
(***************************************************************************)
(* What the scheduler does with the threads of one CPU, at the level of    *)
(* its queues: every operation is one step, as the code makes it by        *)
(* running it on the CPU itself with interrupts disabled (a task interrupt *)
(* or a direct call of the same handler).  RunList implements this module  *)
(* with the linked lists of schedule.c; Scheduler puts several of these    *)
(* CPUs together with the locks and the interrupts between them.           *)
(*                                                                         *)
(* NULL is the null pointer, and as a frame or a saved context the idle    *)
(* loop __halt.                                                            *)
(***************************************************************************)
EXTENDS RunQueue

VARIABLES
  rq,        \* the run queue
  state,     \* thread->state; "detached" while thread->magic is not set
  quantum,   \* thread->quantum; 0 while the thread is not in the queue,
             \* where the field means nothing
  fs,        \* MSR_FS_BASE: what __get_thread answers on this CPU
  frame,     \* what the CPU executes outside its interrupt handlers
  ctx        \* thread->context: a thread's own code (the thread) or __halt

vars == <<rq, state, quantum, fs, frame, ctx>>

States == {"detached", "paused", "running", "stopped"}

TypeOK ==
  /\ rq \in Queue
  /\ state \in [Thread -> States]
  /\ quantum \in [Thread -> 0 .. Quantum]
  /\ fs \in Thread \cup {NULL}
  /\ frame \in Thread \cup {NULL}
  /\ ctx \in [Thread -> Thread \cup {NULL}]

Init ==
  /\ rq = EmptyQueue
  /\ state = [t \in Thread |-> "detached"]
  /\ quantum = [t \in Thread |-> 0]
  /\ fs = NULL
  /\ frame = NULL
  /\ ctx = [t \in Thread |-> t]
-----------------------------------------------------------------------------
(* set_thread_context: the thread will start its procedure anew *)
SetContext(t) ==
  /\ state[t] = "detached"
  /\ ctx' = [ctx EXCEPT ![t] = t]
  /\ UNCHANGED <<rq, state, quantum, fs, frame>>

Attach(t) ==
  /\ state[t] = "detached"
  /\ state' = [state EXCEPT ![t] = "paused"]
  /\ UNCHANGED <<rq, quantum, fs, frame, ctx>>

Detach(t) ==
  /\ state[t] \in {"paused", "stopped"}
  /\ state' = [state EXCEPT ![t] = "detached"]
  /\ UNCHANGED <<rq, quantum, fs, frame, ctx>>

Resume(t) ==
  /\ state[t] = "paused"
  /\ state' = [state EXCEPT ![t] = "running"]
  /\ quantum' = [quantum EXCEPT ![t] = Quantum]
  /\ rq' = Resumed(rq, t)
  /\ UNCHANGED <<fs, frame, ctx>>

(* Pausing or stopping a running thread.  If it is the current one the CPU *)
(* is halted until the next timer tick and what it executed is saved as    *)
(* the thread's context: by the task interrupt when the request comes from *)
(* another CPU, by the self-halt interrupt when the thread pauses itself.  *)
Deactivate(t, to) ==
  /\ state[t] = "running"
  /\ state' = [state EXCEPT ![t] = to]
  /\ rq' = Paused(rq, t)
  /\ IF IsCurrent(rq, t)
     THEN /\ fs' = NULL
          /\ ctx' = [ctx EXCEPT ![t] = frame]
          /\ frame' = NULL
     ELSE UNCHANGED <<fs, ctx, frame>>
  /\ quantum' = [quantum EXCEPT ![t] = 0]

StopPaused(t) ==
  /\ state[t] = "paused"
  /\ state' = [state EXCEPT ![t] = "stopped"]
  /\ UNCHANGED <<rq, quantum, fs, frame, ctx>>
-----------------------------------------------------------------------------
(* The timer interrupt: nothing to run; first tick after the current       *)
(* thread was chosen on a halted CPU; a tick within the quantum; a switch. *)
TickLoad ==
  /\ ~IsIdle(rq) /\ rq.load
  /\ frame' = ctx[Current(rq)]
  /\ fs' = Current(rq)
  /\ rq' = [rq EXCEPT !.load = FALSE]
  /\ UNCHANGED <<state, quantum, ctx>>

KeepsRunning == Highest(rq) >= rq.current /\ quantum[Current(rq)] > 0

TickCount ==
  /\ ~IsIdle(rq) /\ ~rq.load
  /\ KeepsRunning
  /\ quantum' = [quantum EXCEPT ![Current(rq)] = @ - 1]
  /\ UNCHANGED <<rq, state, fs, frame, ctx>>

TickSwitch ==
  /\ ~IsIdle(rq) /\ ~rq.load
  /\ ~KeepsRunning
  /\ LET t == Current(rq)
         k == Switched(rq)
     IN  /\ rq' = k
         /\ quantum' = [quantum EXCEPT ![t] = Quantum]
         /\ ctx' = [ctx EXCEPT ![t] = frame]
         /\ IF Current(k) # t
            THEN fs' = Current(k) /\ frame' = ctx[Current(k)]
            ELSE UNCHANGED <<fs, frame>>
  /\ UNCHANGED state

Tick == TickLoad \/ TickCount \/ TickSwitch

Next ==
  \/ \E t \in Thread :
       \/ SetContext(t) \/ Attach(t) \/ Detach(t) \/ Resume(t)
       \/ \E to \in {"paused", "stopped"} : Deactivate(t, to)
       \/ StopPaused(t)
  \/ Tick

(* The APIC timer is periodic, so ticks keep coming; nobody is obliged to  *)
(* attach, resume or pause threads.                                        *)
Steps == [][Next]_vars /\ WF_vars(Tick)

Spec == Init /\ Steps
-----------------------------------------------------------------------------
(* The lists hold exactly the threads in THREAD_STATE_RUNNING, each once,  *)
(* under its own priority: no sequence of resumes, pauses, stops and ticks *)
(* loses a runnable thread or lists one twice.                             *)
Occurrences(t, s) == Cardinality({i \in DOMAIN s : s[i] = t})

QueueIsExact ==
  \A t \in Thread, p \in Prio :
    Occurrences(t, rq.active[p]) + Occurrences(t, rq.expired[p])
      = IF state[t] = "running" /\ Priority[t] = p THEN 1 ELSE 0

(* A priority whose mask bit is set has an active_tail to run, and so has  *)
(* current_priority unless the CPU has no threads: the timer handler       *)
(* dereferences both without a test.                                       *)
NextThreadExists ==
  /\ \A p \in Mask(rq) : rq.active[p] # <<>>
  /\ ~IsIdle(rq) => rq.current \in Mask(rq)

(* MSR_FS_BASE, through which a thread learns who it is, names the thread  *)
(* the queue considers current, and nobody while the CPU waits for the     *)
(* next tick; no other thread's code is in the CPU's registers.            *)
FsIsCurrent ==
  /\ fs = IF IsIdle(rq) \/ rq.load THEN NULL ELSE Current(rq)
  /\ frame \in {fs, NULL}

(* A runnable thread gets the CPU again and again, or more urgent threads  *)
(* are runnable again and again, or it is not runnable again and again.    *)
NoStarvation ==
  \A t \in Thread :
    []<>(\/ fs = t
         \/ state[t] # "running"
         \/ \E u \in Members(rq) : Priority[u] < Priority[t])

(* What test/schedule.c asserts of a thread that was paused and resumed    *)
(* ("making sure it runs"): its saved context is its own code.             *)
OwnContext == \A t \in Thread : ctx[t] = t
=============================================================================
