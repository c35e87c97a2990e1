------------------------------ MODULE RunList -------------------------------
(***************************************************************************)
(* The threads of one CPU as schedule.c links them: the run queue's lists  *)
(* and the list of inactive threads share the next and prev fields of      *)
(* struct thread_data, the list of all threads has fields of its own, and  *)
(* every list and the priority mask carry a count that is kept by hand.    *)
(*                                                                         *)
(* One action per operation, as in CpuQueue, which this module implements: *)
(* see Abstract below.  The inactive and the all list are global in the    *)
(* code and guarded by their locks; Scheduler has the locks.               *)
(***************************************************************************)
EXTENDS LinkedList

CONSTANTS Thread, Priorities, Priority, Quantum, NULL   \* as in CpuQueue

ASSUME RunListAssumption ==
  /\ IsFiniteSet(Thread) /\ NULL \notin Thread
  /\ Priorities \in Nat \ {0}
  /\ Priority \in [Thread -> 0 .. Priorities - 1]
  /\ Quantum \in Nat

VARIABLES
  link,          \* thread->next, thread->prev
  all_link,      \* thread->all_next, thread->all_prev
  prio,          \* cpud->priorities
  mask,          \* cpud->priority_mask, as the set of its set bits
  cpu,           \* cpud->total_threads, current_priority, load_context
  inactive,      \* struct thread_list inactive
  all,           \* struct thread_list all
  state, quantum, fs, frame, ctx   \* as in CpuQueue

lists == <<link, all_link, prio, mask, cpu, inactive, all>>
vars == <<link, all_link, prio, mask, cpu, inactive, all,
          state, quantum, fs, frame, ctx>>

Prio == 0 .. Priorities - 1
Ptr == Thread \cup {NULL}
Count == 0 .. Cardinality(Thread)
Links == [next : [Thread -> Ptr], prev : [Thread -> Ptr]]

TypeOK ==
  /\ link \in Links /\ all_link \in Links
  /\ prio \in [Prio -> [expired_head : Ptr, expired_tail : Ptr,
                        active_tail : Ptr, total_threads : Count]]
  /\ mask \in SUBSET Prio
  /\ cpu \in [total_threads : Count, current_priority : Prio,
              load_context : BOOLEAN]
  /\ inactive \in [tail : Ptr, total_threads : Count]
  /\ all \in [tail : Ptr, total_threads : Count]
  /\ state \in [Thread -> {"detached", "paused", "running", "stopped"}]
  /\ quantum \in [Thread -> 0 .. Quantum]
  /\ fs \in Ptr /\ frame \in Ptr /\ ctx \in [Thread -> Ptr]

NoLinks == [next |-> [t \in Thread |-> NULL], prev |-> [t \in Thread |-> NULL]]

Init ==
  /\ link = NoLinks /\ all_link = NoLinks
  /\ prio = [p \in Prio |-> [expired_head |-> NULL, expired_tail |-> NULL,
                             active_tail |-> NULL, total_threads |-> 0]]
  /\ mask = {}
  /\ cpu = [total_threads |-> 0, current_priority |-> 0, load_context |-> FALSE]
  /\ inactive = [tail |-> NULL, total_threads |-> 0]
  /\ all = [tail |-> NULL, total_threads |-> 0]
  /\ state = [t \in Thread |-> "detached"]
  /\ quantum = [t \in Thread |-> 0]
  /\ fs = NULL /\ frame = NULL
  /\ ctx = [t \in Thread |-> t]
-----------------------------------------------------------------------------
(* Assignment through a pointer, guarded by the code's null test *)
Set(field, ptr, value) ==
  IF ptr = NULL THEN field ELSE [field EXCEPT ![ptr] = value]

(* Both neighbours of t forget it; t's own fields stay as they are. *)
Unlink(l, t) ==
  [next |-> Set(l.next, l.prev[t], l.next[t]),
   prev |-> Set(l.prev, l.next[t], l.prev[t])]

(* Faulty variants, each named for what it gets wrong, are kept next to    *)
(* the definition they vary; nothing uses them in the specification.       *)
PushLinks_NoBackLink(l, tail, t) ==
  [next |-> [l.next EXCEPT ![t] = tail], prev |-> [l.prev EXCEPT ![t] = NULL]]

(* t becomes the tail of a thread_list. *)
PushLinks(l, tail, t) ==
  [next |-> [l.next EXCEPT ![t] = tail],
   prev |-> Set([l.prev EXCEPT ![t] = NULL], tail, t)]

Pushed(list, t) == [tail |-> t, total_threads |-> list.total_threads + 1]

Removed(list, l, t) ==
  [tail |-> IF list.tail = t THEN l.next[t] ELSE list.tail,
   total_threads |-> list.total_threads - 1]
-----------------------------------------------------------------------------
(* add_expired, on the fields it changes: r has link, prio and mask *)
AddExpired(r, t) ==
  LET p == Priority[t]
      q == r.prio[p]
      alone == [next |-> [r.link.next EXCEPT ![t] = NULL],
                prev |-> [r.link.prev EXCEPT ![t] = NULL]]
  IN  [link |->
         IF q.total_threads = 0 \/ q.expired_head = NULL THEN alone
         ELSE [next |-> [alone.next EXCEPT ![q.expired_head] = t],
               prev |-> [alone.prev EXCEPT ![t] = q.expired_head]],
       prio |-> [r.prio EXCEPT ![p] =
         IF q.total_threads = 0
         THEN [q EXCEPT !.active_tail = t, !.total_threads = 1]
         ELSE [q EXCEPT !.expired_tail = IF q.expired_head = NULL THEN t ELSE @,
                        !.expired_head = t, !.total_threads = @ + 1]],
       mask |-> r.mask \cup {p}]

Refilled_Never(q) == q

Refilled(q) ==
  IF q.active_tail # NULL THEN q
  ELSE [q EXCEPT !.active_tail = q.expired_tail,
                 !.expired_tail = NULL, !.expired_head = NULL]

LowestBit_Highest(m) == CHOOSE p \in m : \A o \in m : p >= o

(* __find_mask_bsf *)
LowestBit(m) == CHOOSE p \in m : \A o \in m : p <= o

Current == prio[cpu.current_priority].active_tail

SetContext(t) ==
  /\ state[t] = "detached"
  /\ ctx' = [ctx EXCEPT ![t] = t]
  /\ UNCHANGED <<lists, state, quantum, fs, frame>>

attach_thread(t) ==
  /\ state[t] = "detached"
  /\ state' = [state EXCEPT ![t] = "paused"]
  /\ all_link' = PushLinks(all_link, all.tail, t)
  /\ all' = Pushed(all, t)
  /\ link' = PushLinks(link, inactive.tail, t)
  /\ inactive' = Pushed(inactive, t)
  /\ UNCHANGED <<prio, mask, cpu, quantum, fs, frame, ctx>>

Cleared(l, t) == [next |-> [l.next EXCEPT ![t] = NULL],
                  prev |-> [l.prev EXCEPT ![t] = NULL]]

detach_thread(t) ==
  /\ state[t] \in {"paused", "stopped"}
  /\ state' = [state EXCEPT ![t] = "detached"]
  /\ link' = Cleared(Unlink(link, t), t)
  /\ inactive' = Removed(inactive, link, t)
  /\ all_link' = Cleared(Unlink(all_link, t), t)
  /\ all' = Removed(all, all_link, t)
  /\ UNCHANGED <<prio, mask, cpu, quantum, fs, frame, ctx>>

(* resume_thread with do_resume_task *)
resume_thread(t) ==
  /\ state[t] = "paused"
  /\ inactive' = Removed(inactive, link, t)
  /\ state' = [state EXCEPT ![t] = "running"]
  /\ quantum' = [quantum EXCEPT ![t] = Quantum]
  /\ LET r == AddExpired([link |-> Unlink(link, t), prio |-> prio,
                          mask |-> mask], t)
     IN  link' = r.link /\ prio' = r.prio /\ mask' = r.mask
  /\ cpu' = IF cpu.total_threads = 0
            THEN [total_threads |-> 1, current_priority |-> Priority[t],
                  load_context |-> TRUE]
            ELSE [cpu EXCEPT !.total_threads = @ + 1]
  /\ UNCHANGED <<all_link, all, fs, frame, ctx>>

PrioWithout_ActiveOnly(t) ==
  LET q == prio[Priority[t]]
      fewer == [q EXCEPT !.total_threads = @ - 1]
  IN  IF q.active_tail = t
      THEN Refilled([fewer EXCEPT !.active_tail = link.next[t]])
      ELSE fewer

(* do_pause_task's removal of t from the lists of its priority *)
PrioWithout(t) ==
  LET q == prio[Priority[t]]
      fewer == [q EXCEPT !.total_threads = @ - 1]
  IN  IF q.active_tail = t
      THEN Refilled([fewer EXCEPT !.active_tail = link.next[t]])
      ELSE [fewer EXCEPT
              !.expired_head = IF @ = t THEN link.prev[t] ELSE @,
              !.expired_tail = IF @ = t THEN link.next[t] ELSE @]

deactivate_running_NoReload(t, to) ==
  LET p == Priority[t]
      left == IF PrioWithout(t).total_threads = 0 THEN mask \ {p} ELSE mask
  IN  /\ state[t] = "running"
      /\ state' = [state EXCEPT ![t] = to]
      /\ prio' = [prio EXCEPT ![p] = PrioWithout(t)]
      /\ mask' = left
      /\ link' = PushLinks(Unlink(link, t), inactive.tail, t)
      /\ inactive' = Pushed(inactive, t)
      /\ cpu' = IF Current = t /\ cpu.total_threads > 1
                THEN [cpu EXCEPT !.total_threads = @ - 1,
                                 !.current_priority = LowestBit(left)]
                ELSE [cpu EXCEPT !.total_threads = @ - 1]
      /\ IF Current = t
         THEN fs' = NULL /\ frame' = NULL /\ ctx' = [ctx EXCEPT ![t] = frame]
         ELSE UNCHANGED <<fs, frame, ctx>>
      /\ UNCHANGED <<all_link, all, quantum>>

(* deactivate_running with do_pause_task, and with do_self_halt_task when  *)
(* the thread deactivates itself                                           *)
deactivate_running(t, to) ==
  LET p == Priority[t]
      left == IF PrioWithout(t).total_threads = 0 THEN mask \ {p} ELSE mask
  IN  /\ state[t] = "running"
      /\ state' = [state EXCEPT ![t] = to]
      /\ prio' = [prio EXCEPT ![p] = PrioWithout(t)]
      /\ mask' = left
      /\ link' = PushLinks(Unlink(link, t), inactive.tail, t)
      /\ inactive' = Pushed(inactive, t)
      /\ cpu' = IF Current = t /\ cpu.total_threads > 1
                THEN [total_threads |-> cpu.total_threads - 1,
                      current_priority |-> LowestBit(left),
                      load_context |-> TRUE]
                ELSE [cpu EXCEPT !.total_threads = @ - 1]
      /\ IF Current = t
         THEN fs' = NULL /\ frame' = NULL /\ ctx' = [ctx EXCEPT ![t] = frame]
         ELSE UNCHANGED <<fs, frame, ctx>>
      /\ UNCHANGED <<all_link, all, quantum>>

StopPaused(t) ==
  /\ state[t] = "paused"
  /\ state' = [state EXCEPT ![t] = "stopped"]
  /\ UNCHANGED <<lists, quantum, fs, frame, ctx>>
-----------------------------------------------------------------------------
(* The timer interrupt handler, by the branch it takes *)
TimerLoad ==
  /\ cpu.total_threads > 0 /\ cpu.load_context
  /\ frame' = ctx[Current]
  /\ fs' = Current
  /\ cpu' = [cpu EXCEPT !.load_context = FALSE]
  /\ UNCHANGED <<link, all_link, prio, mask, inactive, all,
                 state, quantum, ctx>>

KeepsRunning == LowestBit(mask) >= cpu.current_priority /\ quantum[Current] > 0

TimerCount ==
  /\ cpu.total_threads > 0 /\ ~cpu.load_context
  /\ KeepsRunning
  /\ quantum' = [quantum EXCEPT ![Current] = @ - 1]
  /\ UNCHANGED <<lists, state, fs, frame, ctx>>

Requeued_Stays == [link |-> link, prio |-> prio, mask |-> mask]

(* The queue after the current thread has been taken off its active list   *)
(* and appended to the expired one, before the active list is looked at.   *)
Requeued ==
  LET c == cpu.current_priority
      q == [prio[c] EXCEPT !.active_tail = link.next[Current],
                           !.total_threads = @ - 1]
  IN  AddExpired([link |-> link, prio |-> [prio EXCEPT ![c] = q],
                  mask |-> IF q.total_threads = 0 THEN mask \ {c} ELSE mask],
                 Current)

TimerSwitch ==
  LET c == cpu.current_priority
      highest == LowestBit(mask)
      r == Requeued
      q == [r.prio EXCEPT ![c] = Refilled(@)]
      thrd2 == q[highest].active_tail
  IN  /\ cpu.total_threads > 0 /\ ~cpu.load_context
      /\ ~KeepsRunning
      /\ prio' = q
      /\ mask' = r.mask
      /\ link' = [r.link EXCEPT !.prev = Set(@, r.prio[c].active_tail, NULL)]
      /\ cpu' = [cpu EXCEPT !.current_priority = highest]
      /\ quantum' = [quantum EXCEPT ![Current] = Quantum]
      /\ ctx' = [ctx EXCEPT ![Current] = frame]
      /\ IF thrd2 # Current THEN fs' = thrd2 /\ frame' = ctx[thrd2]
                            ELSE UNCHANGED <<fs, frame>>
      /\ UNCHANGED <<all_link, inactive, all, state>>

Timer == TimerLoad \/ TimerCount \/ TimerSwitch

Next ==
  \/ \E t \in Thread :
       \/ SetContext(t) \/ attach_thread(t) \/ detach_thread(t)
       \/ resume_thread(t)
       \/ \E to \in {"paused", "stopped"} : deactivate_running(t, to)
       \/ StopPaused(t)
  \/ Timer

Spec == Init /\ [][Next]_vars /\ WF_vars(Timer)
-----------------------------------------------------------------------------
(* The threads reached from h over a next field, in order *)
Chain(next, h) == Walk(Thread, NULL, next, h)

(* The lists of this module are the sequences of CpuQueue: every operation *)
(* on the linked lists has the effect, and no other, of the operation on   *)
(* the sequences.                                                          *)
Abstract == INSTANCE CpuQueue WITH
  rq <- [active |-> [p \in Prio |-> Chain(link.next, prio[p].active_tail)],
         expired |-> [p \in Prio |-> Chain(link.next, prio[p].expired_tail)],
         current |-> cpu.current_priority, load |-> cpu.load_context],
  quantum <- [t \in Thread |-> IF state[t] = "running" THEN quantum[t] ELSE 0]

ImplementsCpuQueue == Abstract!Spec

(* CpuQueue's properties, of the lists as they are linked here: they hold  *)
(* exactly the runnable threads, each once and under its own priority,     *)
(* whatever is resumed, paused and stopped between two ticks.              *)
QueueIsExact == Abstract!QueueIsExact

(* The timer finds a thread to run wherever it dereferences active_tail    *)
(* without a test: at current_priority, and at the lowest bit of the mask. *)
NextThreadExists == Abstract!NextThreadExists

(* MSR_FS_BASE names the thread the queue considers current, nobody while  *)
(* the CPU waits for the tick that loads it, and no other thread executes. *)
FsIsCurrent == Abstract!FsIsCurrent

(* A runnable thread gets the CPU again and again, or more urgent threads  *)
(* are runnable again and again, or it is not runnable again and again.    *)
NoStarvation == Abstract!NoStarvation

(* What test/schedule.c asserts and do_pause_task does not keep: the saved *)
(* context of a thread is its own code.                                    *)
OwnContext == Abstract!OwnContext

(* A list that is doubly linked without a cycle and starts at an element   *)
(* that has no predecessor.                                                *)
WellLinked(l, h) ==
  LET c == Chain(l.next, h)
  IN  /\ Len(c) <= Cardinality(Thread)
      /\ \A i \in 1 .. Len(c) :
           l.prev[c[i]] = IF i = 1 THEN NULL ELSE c[i - 1]

Elements(l, h) ==
  LET c == Chain(l.next, h) IN {c[i] : i \in 1 .. Len(c)}

(* Every list is well linked and the expired list ends at expired_head;    *)
(* the counters and the mask, which are maintained separately from the     *)
(* lists, agree with them; and the inactive and the all list hold exactly  *)
(* the threads whose state says so.                                        *)
ListsAreLinked ==
  LET size(l, h) == Len(Chain(l.next, h))
  IN  /\ WellLinked(link, inactive.tail)
      /\ WellLinked(all_link, all.tail)
      /\ \A p \in Prio :
           LET q == prio[p]
               c == Chain(link.next, q.expired_tail)
           IN  /\ WellLinked(link, q.active_tail)
               /\ WellLinked(link, q.expired_tail)
               /\ q.expired_head = IF c = <<>> THEN NULL ELSE c[Len(c)]
               /\ q.total_threads = size(link, q.active_tail) + Len(c)
               /\ p \in mask <=> q.total_threads > 0
      /\ cpu.total_threads = Cardinality({t \in Thread : state[t] = "running"})
      /\ inactive.total_threads = size(link, inactive.tail)
      /\ all.total_threads = size(all_link, all.tail)
      /\ Elements(link, inactive.tail)
           = {t \in Thread : state[t] \in {"paused", "stopped"}}
      /\ Elements(all_link, all.tail) = {t \in Thread : state[t] # "detached"}
=============================================================================
