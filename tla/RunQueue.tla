------------------------------ MODULE RunQueue ------------------------------
(***************************************************************************)
(* The run queue of one CPU (struct cpu_data and struct cpu_priority of    *)
(* schedule.c) as a value, and the functions of schedule.c that change it  *)
(* as operators on that value.                                             *)
(*                                                                         *)
(* A queue k has, for every priority p, the list of threads that still run *)
(* in this round (k.active[p], active_tail first) and the list of those    *)
(* that have used up their quantum (k.expired[p], expired_tail first), the *)
(* priority of the current thread and the load_context flag.  The counters *)
(* total_threads and the bits of priority_mask are functions of the lists  *)
(* here; RunList keeps them as the code does and shows that they agree.    *)
(***************************************************************************)
EXTENDS Integers, SequencesExt

CONSTANTS
  Thread,       \* the thread_data structures
  Priorities,   \* CONFIG_SCHEDULER_PRIORITIES; 0 is the most urgent one
  Priority,     \* thread->priority, an IN field fixed before attach_thread
  Quantum,      \* what update_priority_quantum gives a thread (10 in the code)
  NULL

Prio == 0 .. Priorities - 1

ASSUME PriorityAssumption ==
  /\ Priorities \in Nat \ {0}
  /\ Priority \in [Thread -> Prio]

ASSUME QuantumAssumption == Quantum \in Nat /\ NULL \notin Thread

Queue ==
  [active : [Prio -> Seq(Thread)], expired : [Prio -> Seq(Thread)],
   current : Prio, load : BOOLEAN]

EmptyQueue ==
  [active |-> [p \in Prio |-> <<>>], expired |-> [p \in Prio |-> <<>>],
   current |-> 0, load |-> FALSE]
-----------------------------------------------------------------------------
(* The threads of the queue, and the set bits of its priority_mask. *)
Members(k) == UNION {ToSet(k.active[p]) \cup ToSet(k.expired[p]) : p \in Prio}

Mask(k) == {p \in Prio : k.active[p] # <<>> \/ k.expired[p] # <<>>}

IsIdle(k) == Mask(k) = {}

(* __find_mask_bsf of the priority mask *)
Highest(k) == CHOOSE p \in Mask(k) : \A o \in Mask(k) : p <= o

Current(k) == Head(k.active[k.current])

IsCurrent(k, t) == k.active[k.current] # <<>> /\ Current(k) = t

AddExpired(k, t) ==
  LET p == Priority[t]
  IN  IF p \in Mask(k) THEN [k EXCEPT !.expired[p] = Append(@, t)]
                       ELSE [k EXCEPT !.active[p] = <<t>>]

(* When the active list runs out, the expired one takes its place. *)
Refill(k, p) ==
  IF k.active[p] # <<>> THEN k
  ELSE [k EXCEPT !.active[p] = k.expired[p], !.expired[p] = <<>>]

Unlink(k, t) ==
  LET p == Priority[t]
  IN  Refill([k EXCEPT !.active[p] = RemoveFirst(@, t),
                       !.expired[p] = RemoveFirst(@, t)], p)

(* What the timer does to a current thread whose turn is over. *)
Rotate(k) ==
  LET t == Current(k)
  IN  Refill(AddExpired([k EXCEPT !.active[k.current] = Tail(@)], t), k.current)

(* The queue after do_resume_task, after do_pause_task, and after the      *)
(* timer has switched threads.                                             *)
Resumed(k, t) ==
  IF IsIdle(k)
  THEN [AddExpired(k, t) EXCEPT !.current = Priority[t], !.load = TRUE]
  ELSE AddExpired(k, t)

Paused(k, t) ==
  LET u == Unlink(k, t)
  IN  IF IsCurrent(k, t) /\ ~IsIdle(u)
      THEN [u EXCEPT !.current = Highest(u), !.load = TRUE] ELSE u

Switched(k) == [Rotate(k) EXCEPT !.current = Highest(k)]
=============================================================================
