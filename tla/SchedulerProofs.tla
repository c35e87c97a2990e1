--------------------------- MODULE SchedulerProofs --------------------------
(***************************************************************************)
(* Proofs about Scheduler, for every set of CPUs and threads, every        *)
(* affinity, every number of priorities and every quantum: no thread       *)
(* executes on two CPUs, none executes while it is inactive, every thread  *)
(* is in one place, and the tasks that CPUs send each other are neither    *)
(* lost nor overwritten and do not fail; and there are two ways in which   *)
(* the calls can come to a standstill, and no other.  On a machine with    *)
(* one CPU every step of the calls is a step of CpuQueue or changes        *)
(* nothing there.                                                          *)
(***************************************************************************)
EXTENDS Uniprocessor, RunQueueProofs

(* inactive.lock is held from the moment a call has decided to use a CPU   *)
(* to its end, or to the end of the caller's self-halt.                    *)
Holding == {"cpu", "wait", "done", "halt", "unlock_inactive"}

LockInv == \A c \in Cpu : pc[c] \in Holding <=> inactive_lock = c

(* A CPU is inside a call when its pc says so. *)
OpInv ==
  \A c \in Cpu :
    /\ pc[c] = "run" => op[c] = NoOp
    /\ pc[c] # "run" => op[c].thread \in Thread /\ op[c].kind # "none"
    /\ op[c].kind \in {"attach", "detach"} => pc[c] \in {"all", "inactive"}
    /\ pc[c] \in Holding => op[c].target \in Cpu

(* A thread that is being attached is not attached, and attached once. *)
AttachInv ==
  \A c \in Cpu : op[c].kind = "attach" =>
    /\ op[c].thread \notin all
    /\ state[op[c].thread] = "paused"
    /\ \A d \in Cpu : op[d].kind = "attach" /\ op[d].thread = op[c].thread => c = d

(* Where a thread can be, and what its state says then *)
PlaceInv ==
  /\ \A c \in Cpu : \A t \in Members(rq[c]) :
       cpu[t] = c /\ state[t] = "running" /\ t \in all /\ t \notin inactive
  /\ \A t \in inactive : t \in all /\ state[t] \in {"paused", "stopped"}
  /\ \A t \in all : \/ t \in inactive
                    \/ \E c \in Cpu : t \in Members(rq[c])
                    \/ \E c \in Cpu : pc[c] \in Holding /\ op[c].thread = t

(* The call that holds inactive.lock: its task has yet to run, or has run. *)
Pending(c) == pc[c] = "cpu" \/ (pc[c] = "wait" /\ ipi[op[c].target])

HasRun(c) == pc[c] = "done" \/ (pc[c] = "wait" /\ ~ipi[op[c].target])

PendingOK(c) ==
  LET t == op[c].thread
      d == op[c].target
  IN  /\ pc[c] = "wait" =>
           task[d] = [TaskOf(op[c]) EXCEPT !.error = "busy"]
      /\ t \notin inactive
      /\ op[c].kind = "resume" => state[t] = "paused"
      /\ op[c].kind # "resume" => t \in Members(rq[d])

HasRunOK(c) ==
  LET t == op[c].thread
      k == task[op[c].target]
  IN  /\ k.error = "none" /\ k.thread = t
      /\ op[c].kind = "resume" <=> k.type = "resume"
      /\ op[c].kind = "resume" => t \in Members(rq[op[c].target])
      /\ op[c].kind # "resume" =>
           /\ state[t] = "running" /\ t \notin inactive
           /\ \A e \in Cpu : t \notin Members(rq[e])
      /\ k.type = "self_halt" => pc[c] = "done"

PendingInv == \A c \in Cpu : Pending(c) => PendingOK(c)

HasRunInv == \A c \in Cpu : HasRun(c) => HasRunOK(c)

CallInv ==
  \A c \in Cpu :
    /\ pc[c] \in Holding => op[c].thread \in all
    /\ pc[c] = "wait" => op[c].target # c
    /\ pc[c] \in {"done", "halt"} => op[c].target = c
    /\ pc[c] = "halt" => /\ task[c].thread = op[c].thread
                         /\ task[c].type = "self_halt"
    /\ pc[c] \in {"halt", "unlock_inactive"} => op[c].thread \in inactive

(* A CPU's lock and its task interrupt belong to the call in progress. *)
CpuLockInv ==
  \A d \in Cpu : cpu_lock[d] # NULL =>
    \E c \in Cpu : pc[c] \in {"wait", "done", "halt"} /\ op[c].target = d

IpiInv ==
  \A d \in Cpu : ipi[d] =>
    \E c \in Cpu : pc[c] = "wait" /\ op[c].target = d

(* What a CPU executes: nothing, the current thread of its queue, or the   *)
(* thread whose self-halt is not over.                                     *)
Halting(c) == pc[c] \in {"done", "halt"} /\ task[c].type = "self_halt"

FrameInv ==
  \A c \in Cpu :
    /\ WellFormed(rq[c])
    /\ fs[c] = IF IsIdle(rq[c]) \/ rq[c].load THEN NULL ELSE Current(rq[c])
    /\ \/ frame[c] = NULL \/ frame[c] = fs[c]
       \/ Halting(c) /\ frame[c] = op[c].thread

HaltInv == \A c \in Cpu : Halting(c) => frame[c] \in {NULL, op[c].thread}

CtxInv == \A t \in Thread : ctx[t] \in {t, NULL}

SchedInv ==
  /\ TypeOK /\ LockInv /\ OpInv /\ AttachInv /\ PlaceInv
  /\ PendingInv /\ HasRunInv /\ CallInv /\ CpuLockInv /\ IpiInv
  /\ FrameInv /\ HaltInv /\ CtxInv
-----------------------------------------------------------------------------
(* There is one call at a time that holds inactive.lock. *)
LEMMA OneHolder ==
  ASSUME LockInv, NEW c \in Cpu, NEW d \in Cpu,
         pc[c] \in Holding, pc[d] \in Holding
  PROVE  c = d
  BY DEF LockInv

LEMMA NoHolder ==
  ASSUME LockInv, inactive_lock = NULL
  PROVE  \A c \in Cpu : pc[c] \notin Holding
  BY SchedulerAssumption DEF LockInv

(* While nobody holds inactive.lock no CPU is locked, no task is pending   *)
(* and no CPU is about to halt.                                            *)
LEMMA Calm ==
  ASSUME SchedInv, inactive_lock = NULL
  PROVE  \A c \in Cpu : /\ pc[c] \notin Holding
                        /\ ~Pending(c) /\ ~HasRun(c) /\ ~Halting(c)
                        /\ cpu_lock[c] = NULL /\ ~ipi[c]
<1>1. \A c \in Cpu : pc[c] \notin Holding
  BY NoHolder DEF SchedInv
<1> QED
  BY <1>1
  DEF SchedInv, Holding, Pending, HasRun, Halting, CpuLockInv, IpiInv
-----------------------------------------------------------------------------
(* What a step of CPU c leaves of the queues, the registers and the saved  *)
(* contexts when no thread enters or leaves a queue.                       *)
Runs(c) ==
  /\ rq' \in [Cpu -> Queue]
  /\ fs' \in [Cpu -> Thread \cup {NULL}]
  /\ frame' \in [Cpu -> Thread \cup {NULL}]
  /\ ctx' \in [Thread -> Thread \cup {NULL}]
  /\ CtxInv'
  /\ \A e \in Cpu :
       /\ WellFormed(rq'[e]) /\ Members(rq'[e]) = Members(rq[e])
       /\ fs'[e] = IF IsIdle(rq'[e]) \/ rq'[e].load THEN NULL ELSE Current(rq'[e])
       /\ \/ frame'[e] = NULL \/ frame'[e] = fs'[e]
          \/ e # c /\ Halting(e) /\ frame'[e] = op[e].thread
       /\ e # c => frame'[e] = frame[e]

LEMMA StandStill ==
  ASSUME SchedInv, NEW c \in Cpu, ~Halting(c), UNCHANGED <<cpus, ctx>>
  PROVE  Runs(c)
<1>1. UNCHANGED <<rq, fs, frame, ctx>>
  BY DEF cpus
<1> QED
  BY <1>1 DEF Runs, SchedInv, TypeOK, FrameInv, CtxInv

LEMMA TickRuns ==
  ASSUME SchedInv, NEW c \in Cpu, pc[c] = "run", Tick(c)
  PROVE  Runs(c) /\ quantum' \in [Thread -> 0 .. Quantum]
<1> USE DEF SchedInv
<1>0. ~Halting(c)
  BY DEF Halting
<1>1. CASE IsIdle(rq[c])
  <2>1. UNCHANGED <<rq, fs, frame, quantum, ctx>>
    BY <1>1 DEF Tick
  <2> QED
    BY <1>0, <2>1, StandStill DEF cpus, TypeOK
<1>2. CASE ~IsIdle(rq[c])
  <2>1. /\ WellFormed(rq[c])
        /\ fs[c] = IF rq[c].load THEN NULL ELSE Current(rq[c])
        /\ frame[c] = NULL \/ frame[c] = fs[c]
    BY <1>0, <1>2 DEF FrameInv
  <2>2. PICK t \in Thread : t = Current(rq[c])
    <3>1. Members(rq[c]) \subseteq Thread
      BY MembersFacts DEF TypeOK
    <3> QED
      BY <1>2, <2>1, <3>1, WellFormedFacts
  <2>3. CASE TickLoad(c)
    <3>1. PICK r : r = [rq[c] EXCEPT !.load = FALSE]
      OBVIOUS
    <3>2. /\ WellFormed(r) /\ Members(r) = Members(rq[c])
          /\ ~IsIdle(r) /\ Current(r) = t /\ r.load = FALSE
      BY <1>2, <2>1, <2>2, <3>1, LoadedFacts
    <3>3. /\ rq' = [rq EXCEPT ![c] = r]
          /\ frame' = [frame EXCEPT ![c] = ctx[t]]
          /\ fs' = [fs EXCEPT ![c] = t]
          /\ quantum' = quantum /\ ctx' = ctx
      BY <2>2, <2>3, <3>1 DEF TickLoad, TypeOK
    <3>4. r \in Queue
      BY <3>2 DEF WellFormed
    <3>5. /\ rq' \in [Cpu -> Queue] /\ quantum' \in [Thread -> 0 .. Quantum]
          /\ fs' \in [Cpu -> Thread \cup {NULL}]
          /\ frame' \in [Cpu -> Thread \cup {NULL}]
          /\ ctx' \in [Thread -> Thread \cup {NULL}]
      BY <3>3, <3>4 DEF TypeOK
    <3>6. CtxInv'
      BY <3>3 DEF CtxInv
    <3>7. ASSUME NEW e \in Cpu
          PROVE  /\ WellFormed(rq'[e]) /\ Members(rq'[e]) = Members(rq[e])
                 /\ fs'[e] = IF IsIdle(rq'[e]) \/ rq'[e].load THEN NULL
                                                              ELSE Current(rq'[e])
                 /\ \/ frame'[e] = NULL \/ frame'[e] = fs'[e]
                    \/ e # c /\ Halting(e) /\ frame'[e] = op[e].thread
                 /\ e # c => frame'[e] = frame[e]
      BY <3>2, <3>3 DEF TypeOK, FrameInv, CtxInv
    <3> QED
      BY <3>5, <3>6, <3>7 DEF Runs
  <2>4. CASE TickRun(c) /\ UNCHANGED <<rq, fs, frame, ctx>>
    <3>1. quantum' \in [Thread -> 0 .. Quantum]
      <4>1. \/ quantum' = [quantum EXCEPT ![t] = @ - 1] /\ quantum[t] > 0
            \/ quantum' = [quantum EXCEPT ![t] = Quantum]
        BY <2>2, <2>4 DEF TickRun
      <4>2. quantum[t] > 0 => quantum[t] - 1 \in 0 .. Quantum
        BY SchedulerAssumption DEF TypeOK
      <4>3. Quantum \in 0 .. Quantum
        BY SchedulerAssumption
      <4> QED
        BY <4>1, <4>2, <4>3 DEF TypeOK
    <3> QED
      BY <1>0, <2>4, <3>1, StandStill DEF cpus
  <2>5. CASE TickRun(c) /\ ~UNCHANGED <<rq, fs, frame, ctx>>
    <3>1. PICK r : r = Switched(rq[c])
      OBVIOUS
    <3>2. /\ WellFormed(r) /\ Members(r) = Members(rq[c])
          /\ ~IsIdle(r) /\ r.load = rq[c].load
      BY <1>2, <2>1, <3>1, SwitchedFacts
    <3>3. PICK n \in Thread : n = Current(r)
      <4>1. Members(rq[c]) \subseteq Thread
        BY MembersFacts DEF TypeOK
      <4> QED
        BY <3>2, <4>1, WellFormedFacts
    <3>4. /\ ~rq[c].load
          /\ quantum' = [quantum EXCEPT ![t] = Quantum]
          /\ rq' = [rq EXCEPT ![c] = r]
          /\ ctx' = [ctx EXCEPT ![t] = frame[c]]
          /\ n = t => fs' = fs /\ frame' = frame
          /\ n # t => /\ fs' = [fs EXCEPT ![c] = n]
                      /\ frame' = [frame EXCEPT ![c] = ctx[n]]
      BY <2>2, <2>5, <3>1, <3>3 DEF TickRun
    <3>5. frame[c] \in {t, NULL} /\ fs[c] = t
      BY <2>1, <2>2, <3>4
    <3>6. r \in Queue
      BY <3>2 DEF WellFormed
    <3>7. Quantum \in 0 .. Quantum
      BY SchedulerAssumption
    <3>8. /\ rq' \in [Cpu -> Queue] /\ quantum' \in [Thread -> 0 .. Quantum]
          /\ fs' \in [Cpu -> Thread \cup {NULL}]
          /\ frame' \in [Cpu -> Thread \cup {NULL}]
          /\ ctx' \in [Thread -> Thread \cup {NULL}]
      <4>1. /\ rq' \in [Cpu -> Queue] /\ quantum' \in [Thread -> 0 .. Quantum]
            /\ ctx' \in [Thread -> Thread \cup {NULL}]
        BY <3>4, <3>6, <3>7 DEF TypeOK
      <4>2. /\ fs' \in [Cpu -> Thread \cup {NULL}]
            /\ frame' \in [Cpu -> Thread \cup {NULL}]
        <5>1. CASE n = t
          BY <3>4, <5>1 DEF TypeOK
        <5>2. CASE n # t
          <6>1. ctx[n] \in Thread \cup {NULL}
            BY DEF TypeOK
          <6>2. /\ fs' = [fs EXCEPT ![c] = n]
                /\ frame' = [frame EXCEPT ![c] = ctx[n]]
            BY <3>4, <5>2
          <6> QED
            BY <6>1, <6>2 DEF TypeOK
        <5> QED
          BY <5>1, <5>2
      <4> QED
        BY <4>1, <4>2
    <3>9. CtxInv'
      BY <3>4, <3>5 DEF CtxInv, TypeOK
    <3>10. ASSUME NEW e \in Cpu
           PROVE  /\ WellFormed(rq'[e]) /\ Members(rq'[e]) = Members(rq[e])
                  /\ fs'[e] = IF IsIdle(rq'[e]) \/ rq'[e].load THEN NULL
                                                               ELSE Current(rq'[e])
                  /\ \/ frame'[e] = NULL \/ frame'[e] = fs'[e]
                     \/ e # c /\ Halting(e) /\ frame'[e] = op[e].thread
                  /\ e # c => frame'[e] = frame[e]
      <4>1. CASE e = c
        BY <3>2, <3>3, <3>4, <3>5, <4>1 DEF TypeOK, CtxInv
      <4>2. CASE e # c
        BY <3>4, <4>2 DEF TypeOK, FrameInv
      <4> QED
        BY <4>1, <4>2
    <3> QED
      BY <3>8, <3>9, <3>10 DEF Runs
  <2> QED
    BY <1>2, <2>3, <2>4, <2>5 DEF Tick
<1> QED
  BY <1>1, <1>2
-----------------------------------------------------------------------------
(* The state that a step of CPU c outside of inactive.lock leaves alone *)
shared == <<all, inactive, state, cpu, task, ipi, inactive_lock, cpu_lock>>

Calls == [kind : Kind, thread : Thread \cup {NULL},
          target : Cpu \cup {NULL}, user : BOOLEAN]

(* A step that begins a call, or goes on with one that does not hold       *)
(* inactive.lock, whatever the timer does in it.                           *)
LEMMA OutsideStep ==
  ASSUME SchedInv, NEW c \in Cpu, UNCHANGED shared, Runs(c),
         quantum' \in [Thread -> 0 .. Quantum],
         all_lock' \in Cpu \cup {NULL}, user_lock' \in Cpu \cup {NULL},
         NEW p \in PC \ Holding, NEW o \in Calls,
         pc[c] \notin Holding,
         pc' = [pc EXCEPT ![c] = p], op' = [op EXCEPT ![c] = o],
         o.kind = "attach" => o = op[c],
         p = "run" => o = NoOp,
         p # "run" => o.thread \in Thread /\ o.kind # "none",
         o.kind \in {"attach", "detach"} => p \in {"all", "inactive"}
  PROVE  SchedInv'
<1> USE DEF SchedInv, shared
<1>1. /\ pc'[c] = p /\ op'[c] = o
      /\ \A e \in Cpu \ {c} : pc'[e] = pc[e] /\ op'[e] = op[e]
  BY DEF TypeOK
<1>2. TypeOK'
  BY DEF TypeOK, Runs, Calls
<1>3. LockInv' /\ OpInv'
  BY <1>1 DEF LockInv, OpInv
<1>4. AttachInv'
  BY <1>1 DEF AttachInv
<1>5. \A e \in Cpu : Members(rq'[e]) = Members(rq[e])
  BY DEF Runs
<1>6. PlaceInv'
  <2>1. \A t : (\E e \in Cpu : pc[e] \in Holding /\ op[e].thread = t)
                 => \E e \in Cpu : pc'[e] \in Holding /\ op'[e].thread = t
    BY <1>1
  <2> QED
    BY <1>5, <2>1 DEF PlaceInv
<1>7. \A e \in Cpu : /\ Pending(e)' => e # c /\ Pending(e)
                     /\ HasRun(e)' => e # c /\ HasRun(e)
                     /\ Halting(e)' <=> e # c /\ Halting(e)
  BY <1>1 DEF Pending, HasRun, Halting, Holding
<1>8. PendingInv'
  <2> SUFFICES ASSUME NEW e \in Cpu, Pending(e)' PROVE PendingOK(e)'
    BY DEF PendingInv
  <2>1. e # c /\ PendingOK(e) /\ pc[e] \in Holding
    BY <1>7 DEF PendingInv, Pending, Holding
  <2>2. op[e].target \in Cpu /\ pc'[e] = pc[e] /\ op'[e] = op[e]
    BY <1>1, <2>1 DEF OpInv
  <2> QED
    BY <1>5, <2>1, <2>2 DEF PendingOK
<1>9. HasRunInv'
  <2> SUFFICES ASSUME NEW e \in Cpu, HasRun(e)' PROVE HasRunOK(e)'
    BY DEF HasRunInv
  <2>1. e # c /\ HasRunOK(e) /\ pc[e] \in Holding
    BY <1>7 DEF HasRunInv, HasRun, Holding
  <2>2. op[e].target \in Cpu /\ pc'[e] = pc[e] /\ op'[e] = op[e]
    BY <1>1, <2>1 DEF OpInv
  <2> QED
    BY <1>5, <2>1, <2>2 DEF HasRunOK
<1>10. CallInv'
  BY <1>1 DEF CallInv, Holding
<1>11. CpuLockInv' /\ IpiInv'
  <2>1. \A e \in Cpu : pc[e] \in {"wait", "done", "halt"} =>
                         pc'[e] = pc[e] /\ op'[e] = op[e]
    BY <1>1 DEF Holding
  <2>2. CpuLockInv'
    BY <2>1 DEF CpuLockInv
  <2>3. IpiInv'
    BY <2>1 DEF IpiInv
  <2> QED
    BY <2>2, <2>3
<1>12. FrameInv'
  BY <1>1, <1>7 DEF FrameInv, Runs
<1>13. CtxInv'
  BY DEF Runs
<1>14. HaltInv'
  BY <1>1, <1>7 DEF HaltInv, Runs
<1> QED
  BY <1>2, <1>3, <1>4, <1>6, <1>8, <1>9, <1>10, <1>11, <1>12, <1>13, <1>14

(* The steps of that kind *)
Outside(c) ==
  \/ \E t \in Thread :
       \/ set_thread_context(c, t) \/ detach_thread(c, t)
       \/ \E kind \in {"resume", "pause", "stop"} : Request(c, kind, t)
       \/ LockedResume(c, t) \/ TimerWithProc(c, t)
  \/ pause_this_thread(c) \/ AcquireUser(c) \/ AcquireAll(c) \/ Refuse(c)
  \/ UnlockUser(c) \/ Timer(c)

LEMMA OutsideActions ==
  ASSUME SchedInv, NEW c \in Cpu, Outside(c)
  PROVE  SchedInv'
<1> USE DEF SchedInv
<1>0. /\ pc[c] \in PC /\ op[c] \in Calls /\ NoOp \in Calls
      /\ quantum \in [Thread -> 0 .. Quantum]
      /\ all_lock \in Cpu \cup {NULL} /\ user_lock \in Cpu \cup {NULL}
  BY DEF TypeOK, Calls, NoOp, Kind
<1>1. ASSUME NEW kind \in {"detach", "resume", "pause", "stop"},
             NEW t \in Thread, NEW user \in BOOLEAN,
             NEW where \in {"user", "all", "inactive"},
             kind = "detach" => where = "all",
             pc[c] = "run", Begin(c, kind, t, user, where),
             Runs(c), UNCHANGED shared,
             quantum' \in [Thread -> 0 .. Quantum],
             all_lock' = all_lock, user_lock' = user_lock
      PROVE  SchedInv'
  <2>1. PICK o : o = [kind |-> kind, thread |-> t, target |-> NULL, user |-> user]
    OBVIOUS
  <2>2. /\ o \in Calls /\ o.kind = kind /\ o.thread = t
    BY <2>1 DEF Calls, Kind
  <2>3. pc' = [pc EXCEPT ![c] = where] /\ op' = [op EXCEPT ![c] = o]
    BY <1>1, <2>1 DEF Begin
  <2>4. pc[c] \notin Holding /\ where \in PC \ Holding /\ where # "run"
    BY <1>1 DEF Holding, PC
  <2>5. /\ o.kind # "attach" /\ o.kind # "none"
        /\ o.kind \in {"attach", "detach"} => where \in {"all", "inactive"}
    BY <1>1, <2>2
  <2> QED
    BY <1>0, <1>1, <2>2, <2>3, <2>4, <2>5, OutsideStep
<1>2. ASSUME pc[c] = "run" PROVE ~Halting(c)
  BY <1>2 DEF Halting
<1>3. ASSUME NEW t \in Thread, detach_thread(c, t) PROVE SchedInv'
  <2>1. Runs(c)
    BY <1>2, <1>3, StandStill DEF detach_thread, CanCall, threads
  <2> QED
    BY <1>0, <1>1, <1>3, <2>1
    DEF detach_thread, CanCall, lists, threads, tasks, locks, shared
<1>4. ASSUME NEW t \in Thread, NEW kind \in {"resume", "pause", "stop"},
             Request(c, kind, t)
      PROVE  SchedInv'
  <2>1. Runs(c)
    BY <1>2, <1>4, StandStill DEF Request, CanCall, threads
  <2> QED
    BY <1>0, <1>1, <1>4, <2>1
    DEF Request, CanCall, lists, threads, tasks, locks, shared
<1>5. ASSUME NEW t \in Thread, LockedResume(c, t) PROVE SchedInv'
  <2>1. Runs(c)
    BY <1>2, <1>5, StandStill DEF LockedResume, CanCall, threads
  <2> QED
    BY <1>0, <1>1, <1>5, <2>1
    DEF LockedResume, CanCall, lists, threads, tasks, locks, shared
<1>6. CASE pause_this_thread(c)
  <2>1. Runs(c)
    BY <1>2, <1>6, StandStill DEF pause_this_thread, CanCall, threads
  <2>2. fs[c] \in Thread
    BY <1>6 DEF pause_this_thread, TypeOK
  <2> QED
    BY <1>0, <1>1, <1>6, <2>1, <2>2
    DEF pause_this_thread, CanCall, lists, threads, tasks, locks, shared
<1>7. ASSUME NEW t \in Thread, TimerWithProc(c, t) PROVE SchedInv'
  <2>1. Runs(c) /\ quantum' \in [Thread -> 0 .. Quantum]
    BY <1>7, TickRuns DEF TimerWithProc
  <2> QED
    BY <1>0, <1>1, <1>7, <2>1
    DEF TimerWithProc, lists, tasks, locks, shared
<1>8. CASE Timer(c)
  <2>1. Runs(c) /\ quantum' \in [Thread -> 0 .. Quantum]
    BY <1>8, TickRuns DEF Timer
  <2>2. /\ pc[c] = "run" /\ op[c] = NoOp /\ pc[c] \in PC \ Holding
        /\ pc' = [pc EXCEPT ![c] = pc[c]] /\ op' = [op EXCEPT ![c] = op[c]]
    BY <1>8 DEF Timer, TypeOK, OpInv, Holding, PC
  <2>3. /\ UNCHANGED shared /\ all_lock' = all_lock /\ user_lock' = user_lock
    BY <1>8 DEF Timer, lists, tasks, locks, shared
  <2>4. op[c].kind \notin {"attach", "detach"}
    BY <2>2 DEF NoOp
  <2> QED
    BY <1>0, <2>1, <2>2, <2>3, <2>4, OutsideStep
<1>9. ASSUME NEW t \in Thread, set_thread_context(c, t) PROVE SchedInv'
  <2>1. Runs(c)
    <3>1. ~Halting(c)
      BY <1>2, <1>9 DEF set_thread_context, CanCall
    <3>2. /\ UNCHANGED <<rq, fs, frame>> /\ ctx' = [ctx EXCEPT ![t] = t]
      BY <1>9 DEF set_thread_context, cpus
    <3> QED
      BY <3>1, <3>2 DEF Runs, TypeOK, FrameInv, CtxInv
  <2>2. /\ pc[c] = "run" /\ op[c] = NoOp /\ pc[c] \in PC \ Holding
        /\ pc' = [pc EXCEPT ![c] = pc[c]] /\ op' = [op EXCEPT ![c] = op[c]]
    BY <1>9 DEF set_thread_context, CanCall, TypeOK, OpInv, Holding, PC
  <2>3. /\ UNCHANGED shared /\ all_lock' = all_lock /\ user_lock' = user_lock
        /\ quantum' = quantum
    BY <1>9 DEF set_thread_context, lists, tasks, locks, shared
  <2>4. op[c].kind \notin {"attach", "detach"}
    BY <2>2 DEF NoOp
  <2> QED
    BY <1>0, <2>1, <2>2, <2>3, <2>4, OutsideStep
<1>10. CASE AcquireUser(c) \/ AcquireAll(c)
  <2>1. /\ pc[c] \in {"user", "all"} /\ pc' = [pc EXCEPT ![c] = "inactive"]
        /\ op' = [op EXCEPT ![c] = op[c]]
        /\ UNCHANGED shared /\ UNCHANGED <<cpus, ctx, quantum>>
        /\ all_lock' \in Cpu \cup {NULL} /\ user_lock' \in Cpu \cup {NULL}
    BY <1>0, <1>10
    DEF AcquireUser, AcquireAll, TypeOK, lists, threads, tasks, shared
  <2>2. Runs(c)
    BY <2>1, StandStill DEF Halting
  <2>3. op[c].thread \in Thread /\ op[c].kind # "none"
    BY <2>1 DEF OpInv
  <2>4. pc[c] \notin Holding /\ "inactive" \in PC \ Holding
    BY <2>1 DEF Holding, PC
  <2> QED
    BY <1>0, <2>1, <2>2, <2>3, <2>4, OutsideStep
<1>11. CASE Refuse(c) \/ UnlockUser(c)
  <2>1. /\ pc[c] \in {"inactive", "unlock_user"} /\ pc' = [pc EXCEPT ![c] = "run"]
        /\ op' = [op EXCEPT ![c] = NoOp]
        /\ UNCHANGED shared /\ UNCHANGED <<cpus, ctx, quantum>>
        /\ all_lock' = all_lock /\ user_lock' \in {user_lock, NULL}
    BY <1>0, <1>11
    DEF Refuse, Entered, Return, UnlockUser, lists, threads, tasks, shared
  <2>2. Runs(c)
    BY <2>1, StandStill DEF Halting
  <2>3. /\ pc[c] \notin Holding /\ "run" \in PC \ Holding
        /\ NoOp.kind = "none"
    BY <2>1 DEF Holding, PC, NoOp
  <2> QED
    BY <1>0, <2>1, <2>2, <2>3, OutsideStep
<1> QED
  BY <1>3, <1>4, <1>5, <1>6, <1>7, <1>8, <1>9, <1>10, <1>11 DEF Outside
-----------------------------------------------------------------------------
(* attach_thread writes the state of a thread that nobody else looks at.   *)
LEMMA AttachBegins ==
  ASSUME SchedInv, NEW c \in Cpu, NEW t \in Thread, attach_thread(c, t)
  PROVE  SchedInv'
<1> USE DEF SchedInv
<1>1. PICK o : o = [kind |-> "attach", thread |-> t, target |-> NULL, user |-> FALSE]
  OBVIOUS
<1>2. /\ o \in Calls /\ o.kind = "attach" /\ o.thread = t
  BY <1>1 DEF Calls, Kind
<1>3. /\ pc[c] = "run" /\ t \notin all /\ ~Attaching(t)
      /\ state' = [state EXCEPT ![t] = "paused"]
      /\ pc' = [pc EXCEPT ![c] = "all"] /\ op' = [op EXCEPT ![c] = o]
      /\ UNCHANGED <<all, inactive, cpu, quantum, ctx, rq, fs, frame, task, ipi,
                     all_lock, inactive_lock, cpu_lock, user_lock>>
  BY <1>1
  DEF attach_thread, CanCall, Begin, lists, cpus, tasks, locks
<1>4. /\ pc'[c] = "all" /\ op'[c] = o
      /\ \A e \in Cpu \ {c} : pc'[e] = pc[e] /\ op'[e] = op[e]
  BY <1>3 DEF TypeOK
<1>5. TypeOK'
  BY <1>2, <1>3 DEF TypeOK, Calls, PC
<1>6. LockInv' /\ OpInv'
  BY <1>2, <1>3, <1>4 DEF LockInv, OpInv, Holding
<1>7. AttachInv'
  BY <1>2, <1>3, <1>4 DEF AttachInv, Attaching, TypeOK
<1>8. \A u \in all : state'[u] = state[u] /\ u # t
  BY <1>3 DEF TypeOK
<1>9. PlaceInv'
  <2>1. \A u : (\E e \in Cpu : pc[e] \in Holding /\ op[e].thread = u)
                 => \E e \in Cpu : pc'[e] \in Holding /\ op'[e].thread = u
    BY <1>3, <1>4 DEF Holding
  <2> QED
    BY <1>3, <1>8, <2>1 DEF PlaceInv
<1>10. \A e \in Cpu : /\ Pending(e)' => e # c /\ Pending(e)
                      /\ HasRun(e)' => e # c /\ HasRun(e)
                      /\ Halting(e)' <=> e # c /\ Halting(e)
  BY <1>3, <1>4 DEF Pending, HasRun, Halting
<1>11. PendingInv'
  <2> SUFFICES ASSUME NEW e \in Cpu, Pending(e)' PROVE PendingOK(e)'
    BY DEF PendingInv
  <2>1. e # c /\ PendingOK(e) /\ pc[e] \in Holding
    BY <1>10 DEF PendingInv, Pending, Holding
  <2>2. pc'[e] = pc[e] /\ op'[e] = op[e] /\ op[e].thread \in all
    BY <1>4, <2>1 DEF CallInv
  <2> QED
    BY <1>3, <1>8, <2>1, <2>2 DEF PendingOK
<1>12. HasRunInv'
  <2> SUFFICES ASSUME NEW e \in Cpu, HasRun(e)' PROVE HasRunOK(e)'
    BY DEF HasRunInv
  <2>1. e # c /\ HasRunOK(e) /\ pc[e] \in Holding
    BY <1>10 DEF HasRunInv, HasRun, Holding
  <2>2. pc'[e] = pc[e] /\ op'[e] = op[e] /\ op[e].thread \in all
    BY <1>4, <2>1 DEF CallInv
  <2> QED
    BY <1>3, <1>8, <2>1, <2>2 DEF HasRunOK
<1>13. CallInv'
  BY <1>3, <1>4 DEF CallInv, Holding
<1>14. CpuLockInv' /\ IpiInv'
  <2>1. \A e \in Cpu : pc[e] \in {"wait", "done", "halt"} =>
                         pc'[e] = pc[e] /\ op'[e] = op[e]
    BY <1>3, <1>4
  <2> QED
    BY <1>3, <2>1 DEF CpuLockInv, IpiInv
<1>15. FrameInv' /\ CtxInv'
  BY <1>3, <1>4, <1>10 DEF FrameInv, CtxInv, Halting
<1>16. HaltInv'
  BY <1>3, <1>4, <1>10 DEF HaltInv
<1> QED
  BY <1>5, <1>6, <1>7, <1>9, <1>11, <1>12, <1>13, <1>14, <1>15, <1>16

(* A call that is over under inactive.lock, and keeps the lists in order *)
LEMMA CalmStep ==
  ASSUME SchedInv, NEW c \in Cpu, inactive_lock = NULL, pc[c] = "inactive",
         UNCHANGED <<cpu, quantum, ctx, rq, fs, frame, task, ipi,
                     inactive_lock, cpu_lock>>,
         Return(c), all_lock' \in {all_lock, NULL},
         all' \subseteq Thread, inactive' \subseteq Thread,
         state' \in [Thread -> {"unknown", "running", "paused", "stopped"}],
         PlaceInv', AttachInv'
  PROVE  SchedInv'
<1> USE DEF SchedInv
<1>1. /\ pc' = [pc EXCEPT ![c] = "run"] /\ op' = [op EXCEPT ![c] = NoOp]
      /\ user_lock' \in {user_lock, NULL}
  BY DEF Return
<1>2. \A e \in Cpu : /\ pc[e] \notin Holding /\ ~Halting(e)
                     /\ cpu_lock[e] = NULL /\ ~ipi[e]
  BY Calm
<1>3. /\ pc'[c] = "run" /\ op'[c] = NoOp
      /\ \A e \in Cpu \ {c} : pc'[e] = pc[e] /\ op'[e] = op[e]
  BY <1>1 DEF TypeOK
<1>4. \A e \in Cpu : pc'[e] \notin Holding
  BY <1>2, <1>3 DEF Holding
<1>5. TypeOK'
  BY <1>1 DEF TypeOK, NoOp, Kind, PC
<1>6. LockInv' /\ OpInv'
  <2>1. LockInv'
    BY <1>4, SchedulerAssumption DEF LockInv
  <2>2. NoOp.kind = "none"
    BY DEF NoOp
  <2>3. ASSUME NEW e \in Cpu
        PROVE  /\ pc'[e] = "run" => op'[e] = NoOp
               /\ pc'[e] # "run" => op'[e].thread \in Thread /\ op'[e].kind # "none"
               /\ op'[e].kind \in {"attach", "detach"} => pc'[e] \in {"all", "inactive"}
               /\ pc'[e] \in Holding => op'[e].target \in Cpu
    <3>1. CASE e = c
      BY <1>3, <1>4, <2>2, <3>1
    <3>2. CASE e # c
      BY <1>3, <1>4, <3>2 DEF OpInv
    <3> QED
      BY <3>1, <3>2
  <2>4. OpInv'
    BY <2>3 DEF OpInv
  <2> QED
    BY <2>1, <2>4
<1>7. PendingInv' /\ HasRunInv' /\ CallInv'
  BY <1>4
  DEF PendingInv, HasRunInv, CallInv, Pending, HasRun, Holding
<1>8. CpuLockInv' /\ IpiInv'
  BY <1>2 DEF CpuLockInv, IpiInv
<1>9. FrameInv' /\ CtxInv'
  BY <1>2 DEF FrameInv, CtxInv
<1>10. HaltInv'
  BY <1>4 DEF HaltInv, Halting, Holding
<1> QED
  BY <1>5, <1>6, <1>7, <1>8, <1>9, <1>10

LEMMA ListActions ==
  ASSUME SchedInv, NEW c \in Cpu, Attach(c) \/ Detach(c) \/ StopPaused(c)
  PROVE  SchedInv'
<1> USE DEF SchedInv
<1>1. /\ inactive_lock = NULL /\ pc[c] = "inactive" /\ Return(c)
      /\ UNCHANGED <<cpu, quantum, ctx, rq, fs, frame, task, ipi,
                     inactive_lock, cpu_lock>>
      /\ all_lock' \in {all_lock, NULL}
  BY DEF Attach, Detach, StopPaused, Entered, threads, cpus, tasks
<1>2. PICK t \in Thread : t = op[c].thread
  BY <1>1 DEF OpInv
<1>3. /\ op'[c] = NoOp
      /\ \A e \in Cpu \ {c} : pc'[e] = pc[e] /\ op'[e] = op[e]
  BY <1>1 DEF Return, TypeOK
<1>4. \A e \in Cpu : pc[e] \notin Holding
  BY <1>1, Calm
<1>5. CASE Attach(c)
  <2>1. /\ op[c].kind = "attach" /\ all' = all \cup {t}
        /\ inactive' = inactive \cup {t} /\ state' = state
    BY <1>2, <1>5 DEF Attach, Entered, threads
  <2>2. t \notin all /\ state[t] = "paused"
    BY <1>2, <2>1 DEF AttachInv
  <2>3. PlaceInv'
    BY <1>1, <1>4, <2>1, <2>2 DEF PlaceInv
  <2>4. AttachInv'
    BY <1>2, <1>3, <2>1 DEF AttachInv, NoOp
  <2>5. all' \subseteq Thread /\ inactive' \subseteq Thread /\ state' = state
    BY <2>1 DEF TypeOK
  <2> QED
    BY <1>1, <2>3, <2>4, <2>5, CalmStep DEF TypeOK
<1>6. CASE Detach(c)
  <2>1. /\ state' = state
        /\ \/ UNCHANGED <<all, inactive>>
           \/ /\ all' = all \ {t} /\ inactive' = inactive \ {t}
              /\ state[t] \in {"paused", "stopped"}
    BY <1>2, <1>6 DEF Detach, threads
  <2>2. PlaceInv'
    BY <1>1, <1>4, <2>1 DEF PlaceInv
  <2>3. AttachInv'
    BY <1>3, <2>1 DEF AttachInv, NoOp
  <2>4. all' \subseteq Thread /\ inactive' \subseteq Thread /\ state' = state
    BY <2>1 DEF TypeOK
  <2> QED
    BY <1>1, <2>2, <2>3, <2>4, CalmStep DEF TypeOK
<1>7. CASE StopPaused(c)
  <2>1. /\ UNCHANGED <<all, inactive>> /\ t \in all /\ state[t] = "paused"
        /\ state' = [state EXCEPT ![t] = "stopped"]
    BY <1>2, <1>7 DEF StopPaused, lists
  <2>5. state'[t] = "stopped" /\ \A u \in Thread \ {t} : state'[u] = state[u]
    BY <2>1 DEF TypeOK
  <2>6. \A e \in Cpu : t \notin Members(rq[e])
    BY <2>1 DEF PlaceInv
  <2>7. \A e \in Cpu : Members(rq[e]) \subseteq Thread
    BY MembersFacts DEF TypeOK
  <2>2. PlaceInv'
    <3>1. \A e \in Cpu : \A u \in Members(rq[e]) :
            cpu[u] = e /\ state'[u] = "running" /\ u \in all /\ u \notin inactive
      BY <2>5, <2>6, <2>7 DEF PlaceInv
    <3>2. \A u \in inactive : u \in all /\ state'[u] \in {"paused", "stopped"}
      BY <2>5 DEF PlaceInv, TypeOK
    <3>3. \A u \in all : u \in inactive \/ \E e \in Cpu : u \in Members(rq[e])
      BY <1>4 DEF PlaceInv
    <3> QED
      BY <1>1, <2>1, <3>1, <3>2, <3>3 DEF PlaceInv
  <2>3. AttachInv'
    <3>1. NoOp.kind # "attach"
      BY DEF NoOp
    <3>2. \A e \in Cpu : op'[e].kind = "attach" => e # c /\ op'[e] = op[e]
      BY <1>3, <3>1
    <3>3. \A e \in Cpu : op[e].kind = "attach" =>
             op[e].thread \notin all /\ op[e].thread \in Thread
      BY DEF AttachInv, OpInv, NoOp
    <3>4. \A e \in Cpu : op'[e].kind = "attach" =>
             state'[op'[e].thread] = state[op[e].thread]
      BY <2>1, <2>5, <3>2, <3>3
    <3> QED
      BY <2>1, <3>2, <3>4 DEF AttachInv
  <2>4. /\ all' \subseteq Thread /\ inactive' \subseteq Thread
        /\ state' \in [Thread -> {"unknown", "running", "paused", "stopped"}]
    BY <2>1 DEF TypeOK
  <2> QED
    BY <1>1, <2>2, <2>3, <2>4, CalmStep
<1> QED
  BY <1>5, <1>6, <1>7
-----------------------------------------------------------------------------
(* A step while no CPU but c can hold inactive.lock: what the invariant    *)
(* says of the call of c, and of where the threads are, implies the rest.  *)
LEMMA HolderStep ==
  ASSUME SchedInv, NEW c \in Cpu,
         \A e \in Cpu \ {c} : pc[e] \notin Holding /\ pc'[e] = pc[e] /\ op'[e] = op[e],
         TypeOK',
         inactive_lock' = IF pc'[c] \in Holding THEN c ELSE NULL,
         pc'[c] = "run" => op'[c] = NoOp,
         pc'[c] # "run" => op'[c].thread \in Thread /\ op'[c].kind # "none",
         op'[c].kind \notin {"attach", "detach"},
         pc'[c] \in Holding => op'[c].target \in Cpu /\ op'[c].thread \in all',
         Pending(c)' => PendingOK(c)',
         HasRun(c)' => HasRunOK(c)',
         pc'[c] = "wait" => op'[c].target # c,
         pc'[c] \in {"done", "halt"} => op'[c].target = c,
         pc'[c] = "halt" => /\ task'[c].thread = op'[c].thread
                            /\ task'[c].type = "self_halt",
         pc'[c] \in {"halt", "unlock_inactive"} => op'[c].thread \in inactive',
         \A d \in Cpu : cpu_lock'[d] # NULL =>
           pc'[c] \in {"wait", "done", "halt"} /\ op'[c].target = d,
         \A d \in Cpu : ipi'[d] => pc'[c] = "wait" /\ op'[c].target = d,
         all' = all, \A t \in Thread \ all : state'[t] = state[t],
         PlaceInv', FrameInv', CtxInv',
         Halting(c)' => frame'[c] \in {NULL, op'[c].thread}
  PROVE  SchedInv'
<1> USE DEF SchedInv
<1>1. \A e \in Cpu \ {c} : pc'[e] \notin Holding
  OBVIOUS
<1>2. LockInv'
  BY <1>1, SchedulerAssumption DEF LockInv
<1>3. OpInv'
  <2> SUFFICES ASSUME NEW e \in Cpu
               PROVE  /\ pc'[e] = "run" => op'[e] = NoOp
                      /\ pc'[e] # "run" => op'[e].thread \in Thread /\ op'[e].kind # "none"
                      /\ op'[e].kind \in {"attach", "detach"} => pc'[e] \in {"all", "inactive"}
                      /\ pc'[e] \in Holding => op'[e].target \in Cpu
    BY DEF OpInv
  <2>1. CASE e = c
    BY <2>1
  <2>2. CASE e # c
    BY <2>2 DEF OpInv
  <2> QED
    BY <2>1, <2>2
<1>4. AttachInv'
  <2>1. \A e \in Cpu : op'[e].kind = "attach" => e # c /\ op'[e] = op[e]
    OBVIOUS
  <2>2. \A e \in Cpu : op[e].kind = "attach" =>
           op[e].thread \notin all /\ op[e].thread \in Thread
    BY DEF AttachInv, OpInv, NoOp
  <2>3. \A e \in Cpu : op'[e].kind = "attach" =>
           state'[op'[e].thread] = state[op[e].thread]
    BY <2>1, <2>2
  <2> QED
    BY <2>1, <2>3 DEF AttachInv
<1>5. \A e \in Cpu : Pending(e)' \/ HasRun(e)' => e = c
  BY <1>1 DEF Pending, HasRun, Holding
<1>6. PendingInv' /\ HasRunInv'
  BY <1>5 DEF PendingInv, HasRunInv
<1>7. CallInv'
  BY <1>1 DEF CallInv, Holding
<1>8. CpuLockInv' /\ IpiInv'
  BY DEF CpuLockInv, IpiInv
<1>9. HaltInv'
  BY <1>1 DEF HaltInv, Halting, Holding
<1> QED
  BY <1>2, <1>3, <1>4, <1>6, <1>7, <1>8, <1>9

(* resume_thread and deactivate_thread keep inactive.lock and go on to the *)
(* lock of the CPU that is to run the task.                                *)
LEMMA GoActions ==
  ASSUME SchedInv, NEW c \in Cpu, Resume(c) \/ Deactivate(c)
  PROVE  SchedInv'
<1> USE DEF SchedInv
<1>1. /\ inactive_lock = NULL /\ pc[c] = "inactive"
      /\ op[c].kind \in {"resume", "pause", "stop"}
      /\ UNCHANGED <<all, state, cpu, ctx, rq, fs, frame, task, ipi,
                     all_lock, cpu_lock, user_lock>>
      /\ inactive_lock' = c /\ pc' = [pc EXCEPT ![c] = "cpu"]
  BY DEF Resume, Deactivate, Entered, GoTo, lists, threads, cpus, tasks
<1>2. PICK t \in Thread : t = op[c].thread
  BY <1>1 DEF OpInv
<1>3. \A e \in Cpu : /\ pc[e] \notin Holding /\ ~Halting(e)
                     /\ cpu_lock[e] = NULL /\ ~ipi[e]
  BY <1>1, Calm
<1>4. PICK d \in Cpu :
        /\ op' = [op EXCEPT ![c].target = d]
        /\ t \in all
        /\ \/ /\ op[c].kind = "resume" /\ state[t] = "paused"
              /\ inactive' = inactive \ {t}
              /\ quantum' = [quantum EXCEPT ![t] = Quantum]
           \/ /\ op[c].kind # "resume" /\ state[t] = "running"
              /\ inactive' = inactive /\ quantum' = quantum
              /\ d = cpu[t] /\ t \in Members(rq[d])
  <2>1. CASE Resume(c)
    <3>1. \A d \in LeastLoaded(t) : d \in Cpu
      BY SchedulerAssumption DEF LeastLoaded
    <3> QED
      BY <1>2, <2>1, <3>1 DEF Resume, Entered, GoTo
  <2>2. CASE Deactivate(c)
    <3>1. t \in all /\ state[t] = "running" /\ op' = [op EXCEPT ![c].target = cpu[t]]
          /\ op[c].kind # "resume" /\ inactive' = inactive /\ quantum' = quantum
      BY <1>2, <2>2 DEF Deactivate, Entered, GoTo, lists, threads
    <3>2. t \notin inactive
      BY <3>1 DEF PlaceInv
    <3>3. PICK d \in Cpu : t \in Members(rq[d])
      BY <1>3, <3>1, <3>2 DEF PlaceInv
    <3>4. cpu[t] = d
      BY <3>3 DEF PlaceInv
    <3> QED
      BY <3>1, <3>3, <3>4
  <2> QED
    BY <2>1, <2>2
<1>5. /\ pc'[c] = "cpu" /\ op'[c].kind = op[c].kind /\ op'[c].thread = t
      /\ op'[c].target = d
      /\ \A e \in Cpu \ {c} : pc'[e] = pc[e] /\ op'[e] = op[e]
  BY <1>1, <1>2, <1>4 DEF TypeOK
<1>6. TypeOK'
  <2>1. op' \in [Cpu -> Calls]
    <3>1. op \in [Cpu -> Calls]
      BY DEF TypeOK, Calls
    <3>2. [op[c] EXCEPT !.target = d] \in Calls
      BY <3>1 DEF Calls
    <3> QED
      BY <1>4, <3>1, <3>2
  <2>2. quantum' \in [Thread -> 0 .. Quantum]
    <3>1. Quantum \in 0 .. Quantum
      BY SchedulerAssumption
    <3>2. \/ quantum' = [quantum EXCEPT ![t] = Quantum]
          \/ quantum' = quantum
      BY <1>4
    <3> QED
      BY <3>1, <3>2 DEF TypeOK
  <2>3. inactive' \subseteq Thread
    BY <1>4 DEF TypeOK
  <2> QED
    BY <1>1, <2>1, <2>2, <2>3 DEF TypeOK, Calls, PC
<1>7. PlaceInv'
  <2>1. pc'[c] \in Holding /\ op'[c].thread = t
    BY <1>5 DEF Holding
  <2>2. \A u \in inactive' : u \in inactive
    BY <1>4
  <2>3. \A u \in inactive : u \in inactive' \/ u = t
    BY <1>4
  <2>4. \A u \in all : \/ u \in inactive' \/ \E e \in Cpu : u \in Members(rq[e])
                       \/ u = t
    BY <1>3, <2>3 DEF PlaceInv
  <2> QED
    BY <1>1, <2>1, <2>2, <2>4 DEF PlaceInv
<1>8. FrameInv' /\ CtxInv'
  BY <1>1, <1>3 DEF FrameInv, CtxInv
<1>9. Pending(c)' => PendingOK(c)'
  <2>1. t \notin inactive'
    BY <1>4 DEF PlaceInv
  <2> QED
    BY <1>1, <1>4, <1>5, <2>1 DEF PendingOK
<1>10. ~HasRun(c)' /\ ~Halting(c)'
  BY <1>5 DEF HasRun, Halting
<1>11. pc'[c] \in Holding
  BY <1>5 DEF Holding
<1> QED
  BY <1>1, <1>3, <1>4, <1>5, <1>6, <1>7, <1>8, <1>9, <1>10, <1>11, HolderStep
-----------------------------------------------------------------------------
(* The tasks *)
Tasks == [type : {"resume", "pause", "self_halt"},
          error : {"none", "busy", "not_found"},
          thread : Thread \cup {NULL}, lock : BOOLEAN]

LEMMA TaskOfFacts ==
  ASSUME NEW o \in Calls, NEW e \in {"none", "busy", "not_found"}
  PROVE  LET k == [TaskOf(o) EXCEPT !.error = e]
         IN  /\ TaskOf(o) \in Tasks /\ k \in Tasks
             /\ k.thread = o.thread /\ k.error = e
             /\ k.type = IF o.kind = "resume" THEN "resume" ELSE "pause"
             /\ TaskOf(o).thread = o.thread
             /\ TaskOf(o).type = IF o.kind = "resume" THEN "resume" ELSE "pause"
<1>1. o.thread \in Thread \cup {NULL} /\ o.user \in BOOLEAN
  BY DEF Calls
<1>2. PICK b \in BOOLEAN : b = (o.user /\ o.kind = "pause")
  OBVIOUS
<1>3. TaskOf(o) = [type |-> IF o.kind = "resume" THEN "resume" ELSE "pause",
                   error |-> "none", thread |-> o.thread, lock |-> b]
  BY <1>2 DEF TaskOf
<1> QED
  BY <1>1, <1>3 DEF Tasks

(* CPU d runs the task of the call that CPU c has going. *)
Runner(c, d) == pc[c] \in {"cpu", "wait"} /\ Pending(c) /\ op[c].target = d

(* No CPU is halting then: a CPU executes its current thread or nothing. *)
LEMMA RunnerFacts ==
  ASSUME SchedInv, NEW c \in Cpu, NEW d \in Cpu, Runner(c, d)
  PROVE  /\ op[c].thread \in Thread /\ op[c].thread \in all
         /\ op[c].thread \notin inactive
         /\ op[c].kind \notin {"none", "attach", "detach"}
         /\ PendingOK(c)
         /\ pc[c] \in Holding
         /\ \A e \in Cpu \ {c} : pc[e] \notin Holding
         /\ \A e \in Cpu : ~Halting(e) /\ frame[e] \in {NULL, fs[e]}
         /\ \A e \in Cpu : Members(rq[e]) \subseteq Thread
<1> USE DEF SchedInv
<1>1. pc[c] \in Holding /\ pc[c] # "run"
  BY DEF Runner, Holding
<1>2. \A e \in Cpu \ {c} : pc[e] \notin Holding
  BY <1>1, OneHolder
<1>3. PendingOK(c)
  BY DEF PendingInv, Runner
<1>4. op[c].thread \notin inactive
  BY <1>3 DEF PendingOK
<1>5. op[c].thread \in Thread /\ op[c].kind # "none" /\ op[c].thread \in all
  BY <1>1 DEF OpInv, CallInv
<1>6. op[c].kind \notin {"attach", "detach"}
  BY DEF Runner, OpInv
<1>7. \A e \in Cpu : ~Halting(e)
  BY <1>2 DEF Halting, Runner, Holding
<1>8. \A e \in Cpu : frame[e] \in {NULL, fs[e]}
  BY <1>7 DEF FrameInv
<1>9. \A e \in Cpu : Members(rq[e]) \subseteq Thread
  BY MembersFacts DEF TypeOK
<1> QED
  BY <1>1, <1>2, <1>3, <1>4, <1>5, <1>6, <1>7, <1>8, <1>9

(* do_resume_task puts the thread of the call into the queue of CPU d. *)
LEMMA ResumeTask ==
  ASSUME SchedInv, NEW c \in Cpu, NEW d \in Cpu, Runner(c, d),
         op[c].kind = "resume", NEW t, t = op[c].thread,
         NEW k, do_resume_task(d, t, k),
         pc'[c] \in Holding, op'[c] = op[c], UNCHANGED lists
  PROVE  /\ state' \in [Thread -> {"unknown", "running", "paused", "stopped"}]
         /\ cpu' \in [Thread -> Cpu \cup {NULL}]
         /\ rq' \in [Cpu -> Queue]
         /\ t \in Members(rq'[d])
         /\ \A u \in Thread \ all : state'[u] = state[u]
         /\ PlaceInv' /\ FrameInv'
<1> USE DEF SchedInv
<1>1. /\ t \in Thread /\ t \in all /\ t \notin inactive /\ PendingOK(c)
      /\ \A e \in Cpu : frame[e] \in {NULL, fs[e]}
      /\ \A e \in Cpu : Members(rq[e]) \subseteq Thread
      /\ \A e \in Cpu \ {c} : pc[e] \notin Holding
  BY RunnerFacts
<1>2. state[t] = "paused"
  BY <1>1 DEF PendingOK
<1>3. \A e \in Cpu : t \notin Members(rq[e])
  BY <1>2 DEF PlaceInv
<1>4. PICK r : r = Resumed(rq[d], t)
  OBVIOUS
<1>5. WellFormed(rq[d])
  BY DEF FrameInv
<1>6. /\ WellFormed(r) /\ Members(r) = Members(rq[d]) \cup {t}
      /\ ~IsIdle(r)
      /\ IsIdle(rq[d]) => r.load
      /\ ~IsIdle(rq[d]) => Current(r) = Current(rq[d]) /\ r.load = rq[d].load
  BY <1>1, <1>3, <1>4, <1>5, ResumedFacts
<1>7. r \in Queue
  BY <1>6 DEF WellFormed
<1>8. /\ state' = [state EXCEPT ![t] = "running"]
      /\ cpu' = [cpu EXCEPT ![t] = d]
      /\ rq' = [rq EXCEPT ![d] = r]
      /\ UNCHANGED <<all, inactive, fs, frame>>
  BY <1>4 DEF do_resume_task, lists
<1>9. /\ state' \in [Thread -> {"unknown", "running", "paused", "stopped"}]
      /\ cpu' \in [Thread -> Cpu \cup {NULL}]
      /\ rq' \in [Cpu -> Queue]
  BY <1>7, <1>8 DEF TypeOK
<1>10. /\ rq'[d] = r /\ \A e \in Cpu \ {d} : rq'[e] = rq[e]
       /\ state'[t] = "running" /\ cpu'[t] = d
       /\ \A u \in Thread \ {t} : state'[u] = state[u] /\ cpu'[u] = cpu[u]
  BY <1>1, <1>8 DEF TypeOK
<1>11. PlaceInv'
  <2>1. ASSUME NEW e \in Cpu, NEW u \in Members(rq'[e])
        PROVE  cpu'[u] = e /\ state'[u] = "running" /\ u \in all /\ u \notin inactive
    <3>1. CASE u = t
      BY <1>1, <1>3, <1>10, <2>1, <3>1
    <3>2. CASE u # t
      <4>1. u \in Members(rq[e])
        BY <1>6, <1>10, <2>1, <3>2
      <4> QED
        BY <1>1, <1>10, <3>2, <4>1 DEF PlaceInv
    <3> QED
      BY <3>1, <3>2
  <2>2. \A u \in inactive : u \in all /\ state'[u] \in {"paused", "stopped"}
    <3>1. inactive \subseteq Thread \ {t}
      BY <1>1 DEF TypeOK
    <3> QED
      BY <1>10, <3>1 DEF PlaceInv
  <2>3. ASSUME NEW u \in all
        PROVE  \/ u \in inactive \/ \E e \in Cpu : u \in Members(rq'[e])
    <3>1. \A e \in Cpu : Members(rq[e]) \subseteq Members(rq'[e])
      BY <1>6, <1>10
    <3>2. t \in Members(rq'[d])
      BY <1>6, <1>10
    <3> QED
      BY <1>1, <3>1, <3>2 DEF PlaceInv
  <2> QED
    BY <1>8, <2>1, <2>2, <2>3 DEF PlaceInv
<1>12. FrameInv'
  <2> SUFFICES ASSUME NEW e \in Cpu
               PROVE  /\ WellFormed(rq'[e])
                      /\ fs[e] = IF IsIdle(rq'[e]) \/ rq'[e].load THEN NULL
                                                                  ELSE Current(rq'[e])
                      /\ frame[e] \in {NULL, fs[e]}
    BY <1>8 DEF FrameInv
  <2>1. CASE e = d
    BY <1>1, <1>6, <1>10, <2>1 DEF FrameInv
  <2>2. CASE e # d
    BY <1>1, <1>10, <2>2 DEF FrameInv
  <2> QED
    BY <2>1, <2>2
<1>13. \A u \in Thread \ all : state'[u] = state[u]
  BY <1>1, <1>10
<1> QED
  BY <1>6, <1>9, <1>10, <1>11, <1>12, <1>13

(* What do_pause_task leaves behind on CPU d *)
PauseTaskRan(c, d, t, k) ==
  /\ UNCHANGED <<state, cpu>>
  /\ rq' \in [Cpu -> Queue]
  /\ fs' \in [Cpu -> Thread \cup {NULL}]
  /\ frame' \in [Cpu -> Thread \cup {NULL}]
  /\ ctx' \in [Thread -> Thread \cup {NULL}]
  /\ state[t] = "running" /\ t \notin inactive
  /\ \A e \in Cpu : t \notin Members(rq'[e])
  /\ \/ task' = [task EXCEPT ![d] = [k EXCEPT !.error = "none"]]
     \/ /\ d = c /\ frame'[c] \in {NULL, t}
        /\ task' = [task EXCEPT ![d] = [k EXCEPT !.error = "none",
                                                 !.type = "self_halt"]]
  /\ PlaceInv' /\ FrameInv' /\ CtxInv'

PauseTaskRuns(c, d, t, k) ==
  \/ do_pause_task(d, t, k, TRUE)
  \/ do_pause_task(d, t, k, FALSE) /\ d = c /\ pc'[c] = "done"

(* do_pause_task finds the thread in the queue of CPU d and takes it out;  *)
(* the CPU goes on executing it only towards a self-halt.                  *)
LEMMA PauseTask ==
  ASSUME SchedInv, NEW c \in Cpu, NEW d \in Cpu, Runner(c, d),
         op[c].kind # "resume", NEW t, t = op[c].thread,
         NEW k \in Tasks,
         pc'[c] \in Holding, op'[c] = op[c], UNCHANGED lists,
         PauseTaskRuns(c, d, t, k)
  PROVE  PauseTaskRan(c, d, t, k)
<1> USE DEF SchedInv, PauseTaskRuns
<1>1. /\ t \in Thread /\ t \in all /\ t \notin inactive /\ PendingOK(c)
      /\ \A e \in Cpu : frame[e] \in {NULL, fs[e]}
      /\ \A e \in Cpu : Members(rq[e]) \subseteq Thread
      /\ \A e \in Cpu \ {c} : pc[e] \notin Holding
  BY RunnerFacts
<1>2. t \in Members(rq[d])
  BY <1>1 DEF PendingOK, Runner
<1>3. cpu[t] = d /\ state[t] = "running"
  BY <1>2 DEF PlaceInv
<1>4. \A e \in Cpu \ {d} : t \notin Members(rq[e])
  BY <1>3 DEF PlaceInv
<1>5. PICK r : r = Paused(rq[d], t)
  OBVIOUS
<1>6. WellFormed(rq[d]) /\ ~IsIdle(rq[d])
  BY <1>2, WellFormedFacts DEF FrameInv
<1>7. /\ WellFormed(r) /\ Members(r) = Members(rq[d]) \ {t}
      /\ IsCurrent(rq[d], t) => IsIdle(r) \/ r.load
      /\ ~IsCurrent(rq[d], t) =>
           ~IsIdle(r) /\ Current(r) = Current(rq[d]) /\ r.load = rq[d].load
  BY <1>2, <1>5, <1>6, PausedFacts
<1>8. r \in Queue
  BY <1>7 DEF WellFormed
<1>9. IsCurrent(rq[d], t) => frame[d] \in {NULL, t}
  BY <1>1, <1>6 DEF IsCurrent, FrameInv
<1>10. rq' = [rq EXCEPT ![d] = r] /\ UNCHANGED <<state, cpu>>
  BY <1>3, <1>5 DEF do_pause_task
<1>11. /\ rq'[d] = r /\ \A e \in Cpu \ {d} : rq'[e] = rq[e]
       /\ rq' \in [Cpu -> Queue]
  BY <1>8, <1>10 DEF TypeOK
<1>12. \/ /\ ~IsCurrent(rq[d], t)
          /\ UNCHANGED <<fs, ctx, frame>>
          /\ task' = [task EXCEPT ![d] = [k EXCEPT !.error = "none"]]
       \/ /\ IsCurrent(rq[d], t)
          /\ fs' = [fs EXCEPT ![d] = NULL]
          /\ ctx' = [ctx EXCEPT ![t] = frame[d]]
          /\ frame' = [frame EXCEPT ![d] = NULL]
          /\ task' = [task EXCEPT ![d] = [k EXCEPT !.error = "none"]]
       \/ /\ IsCurrent(rq[d], t) /\ d = c /\ pc'[c] = "done"
          /\ fs' = [fs EXCEPT ![d] = NULL] /\ UNCHANGED <<ctx, frame>>
          /\ task' = [task EXCEPT ![d] = [k EXCEPT !.error = "none",
                                                   !.type = "self_halt"]]
  <2>1. [k EXCEPT !.error = "none", !.type = k.type] = [k EXCEPT !.error = "none"]
    BY DEF Tasks
  <2>2. CASE do_pause_task(d, t, k, TRUE)
    BY <1>3, <2>1, <2>2 DEF do_pause_task
  <2>3. CASE do_pause_task(d, t, k, FALSE) /\ d = c /\ pc'[c] = "done"
    BY <1>3, <2>1, <2>3 DEF do_pause_task
  <2> QED
    BY <2>2, <2>3
<1>13. UNCHANGED <<all, inactive>>
  BY DEF lists
<1>14. /\ fs' \in [Cpu -> Thread \cup {NULL}]
       /\ \A e \in Cpu : fs'[e] = IF e = d /\ IsCurrent(rq[d], t) THEN NULL ELSE fs[e]
  BY <1>12 DEF TypeOK
<1>15. frame' \in [Cpu -> Thread \cup {NULL}]
  BY <1>12 DEF TypeOK
<1>16. ctx' \in [Thread -> Thread \cup {NULL}] /\ CtxInv'
  <2>1. CASE ctx' = ctx
    BY <2>1 DEF CtxInv, TypeOK
  <2>2. CASE IsCurrent(rq[d], t) /\ ctx' = [ctx EXCEPT ![t] = frame[d]]
    BY <1>1, <1>9, <2>2 DEF CtxInv, TypeOK
  <2> QED
    BY <1>12, <2>1, <2>2
<1>17. \A e \in Cpu : Members(rq'[e]) = Members(rq[e]) \ {t}
  BY <1>4, <1>7, <1>11
<1>18. PlaceInv'
  <2>1. \A u \in all : \/ u \in inactive \/ \E e \in Cpu : u \in Members(rq'[e])
                       \/ u = t
    BY <1>1, <1>17 DEF PlaceInv
  <2> QED
    BY <1>10, <1>13, <1>17, <2>1 DEF PlaceInv
<1>19. FrameInv'
  <2> SUFFICES ASSUME NEW e \in Cpu
               PROVE  /\ WellFormed(rq'[e])
                      /\ fs'[e] = IF IsIdle(rq'[e]) \/ rq'[e].load THEN NULL
                                                                   ELSE Current(rq'[e])
                      /\ \/ frame'[e] = NULL \/ frame'[e] = fs'[e]
                         \/ Halting(e)' /\ frame'[e] = op'[e].thread
    BY DEF FrameInv
  <2>1. WellFormed(rq'[e]) /\ fs'[e] = IF IsIdle(rq'[e]) \/ rq'[e].load THEN NULL
                                                               ELSE Current(rq'[e])
    <3>1. CASE e # d
      BY <1>11, <1>14, <3>1 DEF FrameInv
    <3>2. CASE e = d
      BY <1>6, <1>7, <1>11, <1>14, <3>2 DEF FrameInv
    <3> QED
      BY <3>1, <3>2
  <2>2. CASE e # d
    BY <1>1, <1>12, <1>14, <2>1, <2>2 DEF TypeOK
  <2>3. CASE e = d /\ ~IsCurrent(rq[d], t)
    BY <1>1, <1>12, <1>14, <2>1, <2>3
  <2>4. CASE e = d /\ IsCurrent(rq[d], t) /\ frame' = [frame EXCEPT ![d] = NULL]
    BY <2>1, <2>4 DEF TypeOK
  <2>5. CASE /\ e = d /\ IsCurrent(rq[d], t) /\ d = c /\ pc'[c] = "done"
             /\ frame' = frame
             /\ task' = [task EXCEPT ![d] = [k EXCEPT !.error = "none",
                                                      !.type = "self_halt"]]
    <3>1. task'[e].type = "self_halt"
      BY <2>5 DEF TypeOK, Tasks
    <3>2. Halting(e)'
      BY <2>5, <3>1 DEF Halting
    <3> QED
      BY <1>9, <2>1, <2>5, <3>2
  <2> QED
    BY <1>12, <2>2, <2>3, <2>4, <2>5
<1> QED
  BY <1>1, <1>3, <1>9, <1>10, <1>11, <1>12, <1>14, <1>15, <1>16, <1>17, <1>18, <1>19,
     SMTT(30) DEF PauseTaskRan

(* run_cpu_task on the caller's own CPU *)
LEMMA LocalAction ==
  ASSUME SchedInv, NEW c \in Cpu, LocalTask(c)
  PROVE  SchedInv'
<1> USE DEF SchedInv
<1>1. /\ pc[c] = "cpu" /\ op[c].target = c
      /\ cpu_lock' = [cpu_lock EXCEPT ![c] = c]
      /\ RunTask(c, TaskOf(op[c]), FALSE)
      /\ pc' = [pc EXCEPT ![c] = "done"]
      /\ UNCHANGED lists /\ UNCHANGED <<all, inactive>>
      /\ UNCHANGED <<quantum, op, ipi, all_lock, inactive_lock, user_lock>>
  BY DEF LocalTask, lists
<1>2. Runner(c, c)
  BY <1>1 DEF Runner, Pending
<1>3. /\ op[c].thread \in Thread /\ op[c].thread \in all
      /\ op[c].thread \notin inactive
      /\ op[c].kind \notin {"none", "attach", "detach"}
      /\ \A e \in Cpu \ {c} : pc[e] \notin Holding
  BY <1>2, RunnerFacts
<1>4. PICK t : t = op[c].thread
  OBVIOUS
<1>5. PICK k : k = TaskOf(op[c])
  OBVIOUS
<1>6. /\ k \in Tasks /\ k.thread = t
      /\ k.type = IF op[c].kind = "resume" THEN "resume" ELSE "pause"
  BY <1>4, <1>5, TaskOfFacts DEF TypeOK, Calls
<1>7. /\ pc'[c] = "done" /\ pc'[c] \in Holding /\ op'[c] = op[c]
      /\ \A e \in Cpu \ {c} : pc'[e] = pc[e] /\ op'[e] = op[e]
  BY <1>1 DEF TypeOK, Holding
<1>8. /\ PlaceInv' /\ FrameInv' /\ CtxInv' /\ HasRunOK(c)'
      /\ Halting(c)' => frame'[c] \in {NULL, op'[c].thread}
      /\ \A u \in Thread \ all : state'[u] = state[u]
      /\ state' \in [Thread -> {"unknown", "running", "paused", "stopped"}]
      /\ cpu' \in [Thread -> Cpu \cup {NULL}]
      /\ rq' \in [Cpu -> Queue]
      /\ fs' \in [Cpu -> Thread \cup {NULL}]
      /\ frame' \in [Cpu -> Thread \cup {NULL}]
      /\ ctx' \in [Thread -> Thread \cup {NULL}]
      /\ task' \in [Cpu -> Tasks]
  <2>1. CASE op[c].kind = "resume"
    <3>1. do_resume_task(c, t, k)
      BY <1>1, <1>5, <1>6, <2>1 DEF RunTask
    <3>2. /\ state' \in [Thread -> {"unknown", "running", "paused", "stopped"}]
          /\ cpu' \in [Thread -> Cpu \cup {NULL}]
          /\ rq' \in [Cpu -> Queue]
          /\ t \in Members(rq'[c])
          /\ \A u \in Thread \ all : state'[u] = state[u]
          /\ PlaceInv' /\ FrameInv'
      BY <1>1, <1>2, <1>4, <1>7, <2>1, <3>1, ResumeTask
    <3>3. UNCHANGED <<ctx, fs, frame>> /\ task' = [task EXCEPT ![c] = [k EXCEPT !.error = "none"]]
      BY <3>1 DEF do_resume_task
    <3>4. /\ task'[c].error = "none" /\ task'[c].thread = t /\ task'[c].type = "resume"
          /\ task' \in [Cpu -> Tasks]
      BY <1>6, <2>1, <3>3 DEF TypeOK, Tasks
    <3>5. HasRunOK(c)'
      BY <1>1, <1>4, <1>7, <2>1, <3>2, <3>4 DEF HasRunOK
    <3> QED
      BY <3>2, <3>3, <3>4, <3>5 DEF TypeOK, CtxInv, Halting
  <2>2. CASE op[c].kind # "resume"
    <3>1. do_pause_task(c, t, k, FALSE)
      BY <1>1, <1>5, <1>6, <2>2 DEF RunTask
    <3>2. /\ UNCHANGED <<state, cpu>>
          /\ rq' \in [Cpu -> Queue]
          /\ fs' \in [Cpu -> Thread \cup {NULL}]
          /\ frame' \in [Cpu -> Thread \cup {NULL}]
          /\ ctx' \in [Thread -> Thread \cup {NULL}]
          /\ state[t] = "running" /\ t \notin inactive
          /\ \A e \in Cpu : t \notin Members(rq'[e])
          /\ \/ task' = [task EXCEPT ![c] = [k EXCEPT !.error = "none"]]
             \/ /\ frame'[c] \in {NULL, t}
                /\ task' = [task EXCEPT ![c] = [k EXCEPT !.error = "none",
                                                         !.type = "self_halt"]]
          /\ PlaceInv' /\ FrameInv' /\ CtxInv'
      <4>1. PauseTaskRuns(c, c, t, k)
        BY <1>7, <3>1 DEF PauseTaskRuns
      <4>2. PauseTaskRan(c, c, t, k)
        BY <1>1, <1>2, <1>4, <1>6, <1>7, <2>2, <4>1, PauseTask
      <4> QED
        BY <4>2 DEF PauseTaskRan
    <3>3. /\ task'[c].error = "none" /\ task'[c].thread = t /\ task'[c].type # "resume"
          /\ task' \in [Cpu -> Tasks]
          /\ task'[c].type = "self_halt" => frame'[c] \in {NULL, t}
      <4>1. PICK j \in Tasks : /\ task' = [task EXCEPT ![c] = j] /\ j.error = "none"
                               /\ j.thread = t /\ j.type # "resume"
                               /\ j.type = "self_halt" => frame'[c] \in {NULL, t}
        <5>1. CASE task' = [task EXCEPT ![c] = [k EXCEPT !.error = "none"]]
          <6>1. PICK j : j = [k EXCEPT !.error = "none"]
            OBVIOUS
          <6>2. j \in Tasks /\ j.error = "none" /\ j.thread = t /\ j.type = "pause"
            BY <1>6, <2>2, <6>1 DEF Tasks
          <6> QED
            BY <5>1, <6>1, <6>2
        <5>2. CASE /\ frame'[c] \in {NULL, t}
                   /\ task' = [task EXCEPT ![c] = [k EXCEPT !.error = "none",
                                                            !.type = "self_halt"]]
          <6>1. PICK j : j = [k EXCEPT !.error = "none", !.type = "self_halt"]
            OBVIOUS
          <6>2. j \in Tasks /\ j.error = "none" /\ j.thread = t /\ j.type # "resume"
            BY <1>6, <6>1 DEF Tasks
          <6> QED
            BY <5>2, <6>1, <6>2
        <5> QED
          BY <3>2, <5>1, <5>2
      <4>2. task'[c] = j /\ task' \in [Cpu -> Tasks]
        BY <4>1 DEF TypeOK, Tasks
      <4> QED
        BY <4>1, <4>2
    <3>4. HasRunOK(c)'
      BY <1>1, <1>4, <1>7, <2>2, <3>2, <3>3 DEF HasRunOK
    <3> QED
      BY <1>4, <1>7, <3>2, <3>3, <3>4 DEF TypeOK, Halting
  <2> QED
    BY <2>1, <2>2
<1>9. TypeOK'
  <2>1. pc' \in [Cpu -> PC] /\ cpu_lock' \in [Cpu -> Cpu \cup {NULL}]
    BY <1>1 DEF TypeOK, PC
  <2> QED
    BY <1>1, <1>8, <2>1 DEF TypeOK, Tasks
<1>10. ~Pending(c)'
  BY <1>7 DEF Pending
<1>11. \A d \in Cpu : cpu_lock'[d] # NULL => d = c
  <2>1. \A d \in Cpu : cpu_lock[d] = NULL
    BY <1>1, <1>3 DEF CpuLockInv, Holding
  <2> QED
    BY <1>1, <2>1 DEF TypeOK
<1>12. \A d \in Cpu : ~ipi'[d]
  BY <1>1, <1>3 DEF IpiInv, Holding
<1>13. inactive_lock' = c
  BY <1>1 DEF LockInv, Holding
<1> QED
  BY <1>1, <1>3, <1>7, <1>8, <1>9, <1>10, <1>11, <1>12, <1>13, HolderStep

(* run_cpu_task for another CPU: no task of that CPU is in progress. *)
LEMMA SendAction ==
  ASSUME SchedInv, NEW c \in Cpu, SendTask(c)
  PROVE  SchedInv'
<1> USE DEF SchedInv
<1>1. PICK d : d = op[c].target
  OBVIOUS
<1>2. PICK k : k = [TaskOf(op[c]) EXCEPT !.error = "busy"]
  OBVIOUS
<1>3. /\ pc[c] = "cpu" /\ d # c
      /\ cpu_lock' = [cpu_lock EXCEPT ![d] = c]
      /\ task' = [task EXCEPT ![d] = k]
      /\ ipi' = [ipi EXCEPT ![d] = TRUE]
      /\ pc' = [pc EXCEPT ![c] = "wait"]
      /\ UNCHANGED <<all, inactive, state, cpu, quantum, ctx, rq, fs, frame, op,
                     all_lock, inactive_lock, user_lock>>
  BY <1>1, <1>2 DEF SendTask, lists, threads, cpus
<1>4. d \in Cpu
  BY <1>1, <1>3 DEF OpInv, Holding
<1>5. Runner(c, d)
  BY <1>1, <1>3 DEF Runner, Pending
<1>6. /\ op[c].thread \in Thread /\ op[c].thread \in all
      /\ op[c].kind \notin {"none", "attach", "detach"}
      /\ PendingOK(c)
      /\ \A e \in Cpu \ {c} : pc[e] \notin Holding
      /\ \A e \in Cpu : frame[e] \in {NULL, fs[e]}
  BY <1>4, <1>5, RunnerFacts
<1>7. k \in Tasks
  BY <1>2, TaskOfFacts DEF TypeOK, Calls
<1>8. /\ pc'[c] = "wait" /\ pc'[c] \in Holding /\ op'[c] = op[c]
      /\ \A e \in Cpu \ {c} : pc'[e] = pc[e] /\ op'[e] = op[e]
      /\ task'[d] = k /\ ipi'[d]
  BY <1>3, <1>4 DEF TypeOK, Holding
<1>9. TypeOK'
  BY <1>3, <1>4, <1>7 DEF TypeOK, Tasks, PC
<1>10. PlaceInv'
  BY <1>3, <1>6, <1>8 DEF PlaceInv
<1>11. FrameInv' /\ CtxInv'
  BY <1>3, <1>6 DEF FrameInv, CtxInv
<1>12. PendingOK(c)'
  BY <1>1, <1>2, <1>3, <1>6, <1>8 DEF PendingOK
<1>13. ~HasRun(c)' /\ ~Halting(c)'
  BY <1>1, <1>8 DEF HasRun, Halting
<1>14. \A e \in Cpu : cpu_lock'[e] # NULL => e = d
  <2>1. \A e \in Cpu : cpu_lock[e] = NULL
    BY <1>3, <1>6 DEF CpuLockInv, Holding
  <2> QED
    BY <1>3, <2>1 DEF TypeOK
<1>15. \A e \in Cpu : ipi'[e] => e = d
  <2>1. \A e \in Cpu : ~ipi[e]
    BY <1>3, <1>6 DEF IpiInv, Holding
  <2> QED
    BY <1>3, <2>1 DEF TypeOK
<1>16. inactive_lock' = c
  BY <1>3 DEF LockInv, Holding
<1> QED
  BY <1>1, <1>3, <1>4, <1>6, <1>8, <1>9, <1>10, <1>11, <1>12, <1>13, <1>14,
     <1>15, <1>16, HolderStep

(* The interrupt runs the task of a CPU that is waiting for it, for a call *)
(* of another CPU.                                                         *)
LEMMA InterruptAction ==
  ASSUME SchedInv, NEW d \in Cpu, TaskInterrupt(d)
  PROVE  SchedInv'
<1> USE DEF SchedInv
<1>1. /\ ipi[d] /\ pc[d] = "run"
      /\ ipi' = [ipi EXCEPT ![d] = FALSE]
      /\ RunTask(d, task[d], TRUE)
      /\ UNCHANGED lists /\ UNCHANGED <<all, inactive>>
      /\ UNCHANGED <<quantum, pc, op, all_lock, inactive_lock, cpu_lock, user_lock>>
  BY DEF TaskInterrupt, lists, locks
<1>2. PICK c \in Cpu : pc[c] = "wait" /\ op[c].target = d
  BY <1>1 DEF IpiInv
<1>3. Runner(c, d)
  BY <1>1, <1>2 DEF Runner, Pending
<1>4. /\ op[c].thread \in Thread /\ op[c].thread \in all
      /\ op[c].thread \notin inactive
      /\ op[c].kind \notin {"none", "attach", "detach"}
      /\ PendingOK(c) /\ pc[c] \in Holding
      /\ \A e \in Cpu \ {c} : pc[e] \notin Holding
  BY <1>3, RunnerFacts
<1>14. d # c
  BY <1>1, <1>2
<1>5. PICK t : t = op[c].thread
  OBVIOUS
<1>6. PICK k : k = task[d]
  OBVIOUS
<1>7. /\ k \in Tasks /\ k.thread = t
      /\ k.type = IF op[c].kind = "resume" THEN "resume" ELSE "pause"
  <2>1. op[c] \in Calls
    BY DEF TypeOK, Calls
  <2>2. k = [TaskOf(op[c]) EXCEPT !.error = "busy"]
    BY <1>2, <1>4, <1>6 DEF PendingOK
  <2> QED
    BY <1>5, <2>1, <2>2, TaskOfFacts
<1>8. /\ PlaceInv' /\ FrameInv' /\ CtxInv' /\ HasRunOK(c)'
      /\ Halting(c)' => frame'[c] \in {NULL, op'[c].thread}
      /\ \A u \in Thread \ all : state'[u] = state[u]
      /\ state' \in [Thread -> {"unknown", "running", "paused", "stopped"}]
      /\ cpu' \in [Thread -> Cpu \cup {NULL}]
      /\ rq' \in [Cpu -> Queue]
      /\ fs' \in [Cpu -> Thread \cup {NULL}]
      /\ frame' \in [Cpu -> Thread \cup {NULL}]
      /\ ctx' \in [Thread -> Thread \cup {NULL}]
      /\ task' \in [Cpu -> Tasks]
  <2>1. CASE op[c].kind = "resume"
    <3>1. do_resume_task(d, t, k)
      BY <1>1, <1>6, <1>7, <2>1 DEF RunTask
    <3>2. /\ state' \in [Thread -> {"unknown", "running", "paused", "stopped"}]
          /\ cpu' \in [Thread -> Cpu \cup {NULL}]
          /\ rq' \in [Cpu -> Queue]
          /\ t \in Members(rq'[d])
          /\ \A u \in Thread \ all : state'[u] = state[u]
          /\ PlaceInv' /\ FrameInv'
      BY <1>1, <1>3, <1>4, <1>5, <2>1, <3>1, ResumeTask
    <3>3. UNCHANGED <<ctx, fs, frame>> /\ task' = [task EXCEPT ![d] = [k EXCEPT !.error = "none"]]
      BY <3>1 DEF do_resume_task
    <3>4. /\ task'[d].error = "none" /\ task'[d].thread = t /\ task'[d].type = "resume"
          /\ task' \in [Cpu -> Tasks]
      BY <1>7, <2>1, <3>3 DEF TypeOK, Tasks
    <3>5. HasRunOK(c)'
      BY <1>1, <1>2, <1>5, <2>1, <3>2, <3>4 DEF HasRunOK
    <3> QED
      BY <1>1, <1>2, <3>2, <3>3, <3>4, <3>5 DEF TypeOK, CtxInv, Halting
  <2>2. CASE op[c].kind # "resume"
    <3>1. do_pause_task(d, t, k, TRUE)
      BY <1>1, <1>6, <1>7, <2>2 DEF RunTask
    <3>2. /\ UNCHANGED <<state, cpu>>
          /\ rq' \in [Cpu -> Queue]
          /\ fs' \in [Cpu -> Thread \cup {NULL}]
          /\ frame' \in [Cpu -> Thread \cup {NULL}]
          /\ ctx' \in [Thread -> Thread \cup {NULL}]
          /\ state[t] = "running" /\ t \notin inactive
          /\ \A e \in Cpu : t \notin Members(rq'[e])
          /\ task' = [task EXCEPT ![d] = [k EXCEPT !.error = "none"]]
          /\ PlaceInv' /\ FrameInv' /\ CtxInv'
      <4>1. PauseTaskRuns(c, d, t, k)
        BY <3>1 DEF PauseTaskRuns
      <4>2. PauseTaskRan(c, d, t, k)
        BY <1>1, <1>3, <1>4, <1>5, <1>7, <2>2, <4>1, PauseTask
      <4> QED
        BY <1>14, <4>2 DEF PauseTaskRan
    <3>3. /\ task'[d].error = "none" /\ task'[d].thread = t /\ task'[d].type = "pause"
          /\ task' \in [Cpu -> Tasks]
      BY <1>7, <2>2, <3>2 DEF TypeOK, Tasks
    <3>4. HasRunOK(c)'
      BY <1>1, <1>2, <1>5, <2>2, <3>2, <3>3 DEF HasRunOK
    <3> QED
      BY <1>1, <1>2, <3>2, <3>3, <3>4 DEF TypeOK, Halting
  <2> QED
    BY <2>1, <2>2
<1>9. TypeOK'
  BY <1>1, <1>8 DEF TypeOK, Tasks
<1>10. \A e \in Cpu : ~ipi'[e]
  <2>1. \A e \in Cpu : ipi[e] => e = d
    BY <1>2, <1>4 DEF IpiInv, Holding
  <2> QED
    BY <1>1, <2>1 DEF TypeOK
<1>11. ~Pending(c)'
  BY <1>1, <1>2, <1>10 DEF Pending
<1>12. \A e \in Cpu : cpu_lock'[e] # NULL => e = d
  BY <1>1, <1>2, <1>4 DEF CpuLockInv, Holding
<1>13. inactive_lock' = c
  BY <1>1, <1>4 DEF LockInv
<1> QED
  BY <1>1, <1>2, <1>4, <1>8, <1>9, <1>10, <1>11, <1>12, <1>13, <1>14, HolderStep
-----------------------------------------------------------------------------
(* The end of a call *)

(* A call that finds its task ended has had it run, without an error. *)
LEMMA EndedFacts ==
  ASSUME SchedInv, NEW c \in Cpu, Ended(c)
  PROVE  /\ HasRunOK(c) /\ HasRun(c) /\ pc[c] \in Holding
         /\ op[c].target \in Cpu
         /\ op[c].thread \in Thread /\ op[c].thread \in all
         /\ op[c].kind \notin {"none", "attach", "detach"}
         /\ \A e \in Cpu \ {c} : pc[e] \notin Holding
         /\ \A e \in Cpu : ~ipi[e]
         /\ \A e \in Cpu : cpu_lock[e] # NULL => e = op[c].target
<1> USE DEF SchedInv
<1>1. pc[c] \in Holding /\ pc[c] # "run" /\ pc[c] \in {"wait", "done"}
  BY DEF Ended, Holding
<1>2. \A e \in Cpu \ {c} : pc[e] \notin Holding
  BY <1>1, OneHolder
<1>3. HasRun(c)
  <2>1. CASE pc[c] = "wait" /\ ipi[op[c].target]
    <3>1. task[op[c].target] = [TaskOf(op[c]) EXCEPT !.error = "busy"]
      BY <2>1 DEF PendingInv, Pending, PendingOK
    <3>2. task[op[c].target].error = "busy"
      BY <3>1, TaskOfFacts DEF TypeOK, Calls
    <3> QED
      BY <3>2 DEF Ended
  <2> QED
    BY <1>1, <2>1 DEF HasRun
<1>4. HasRunOK(c)
  BY <1>3 DEF HasRunInv
<1>5. \A e \in Cpu : ~ipi[e]
  BY <1>1, <1>2, <1>3 DEF IpiInv, HasRun, Holding
<1>6. \A e \in Cpu : cpu_lock[e] # NULL => e = op[c].target
  BY <1>2 DEF CpuLockInv, Holding
<1>7. /\ op[c].target \in Cpu /\ op[c].thread \in Thread /\ op[c].thread \in all
      /\ op[c].kind \notin {"none", "attach", "detach"}
  BY <1>1 DEF OpInv, CallInv
<1> QED
  BY <1>1, <1>2, <1>3, <1>4, <1>5, <1>6, <1>7

(* A thread that its CPU has let go of enters the inactive list. *)
LEMMA BecomesInactive ==
  ASSUME SchedInv, NEW t \in Thread, t \in all,
         \A e \in Cpu : t \notin Members(rq[e]),
         NEW v \in {"paused", "stopped"},
         state' = [state EXCEPT ![t] = v], inactive' = inactive \cup {t},
         \A e \in Cpu : pc[e] \in Holding => op[e].thread = t,
         UNCHANGED <<all, cpu, rq>>
  PROVE  /\ PlaceInv'
         /\ state' \in [Thread -> {"unknown", "running", "paused", "stopped"}]
         /\ inactive' \subseteq Thread
         /\ \A u \in Thread \ all : state'[u] = state[u]
<1> USE DEF SchedInv
<1>1. state'[t] = v /\ \A u \in Thread \ {t} : state'[u] = state[u]
  BY DEF TypeOK
<1>2. \A e \in Cpu : Members(rq[e]) \subseteq Thread
  BY MembersFacts DEF TypeOK
<1>3. \A e \in Cpu : \A u \in Members(rq[e]) :
        cpu[u] = e /\ state'[u] = "running" /\ u \in all /\ u \notin inactive'
  BY <1>1, <1>2 DEF PlaceInv
<1>4. \A u \in inactive' : u \in all /\ state'[u] \in {"paused", "stopped"}
  BY <1>1 DEF PlaceInv, TypeOK
<1>5. \A u \in all : u \in inactive' \/ \E e \in Cpu : u \in Members(rq[e])
  BY DEF PlaceInv
<1>6. PlaceInv'
  BY <1>3, <1>4, <1>5 DEF PlaceInv
<1> QED
  BY <1>1, <1>6 DEF TypeOK

LEMMA CompleteAction ==
  ASSUME SchedInv, NEW c \in Cpu, Complete(c)
  PROVE  SchedInv'
<1> USE DEF SchedInv
<1>1. Ended(c) /\ task[op[c].target].type # "self_halt"
  BY DEF Complete
<1>2. /\ HasRunOK(c) /\ HasRun(c) /\ pc[c] \in Holding /\ op[c].target \in Cpu
      /\ op[c].thread \in Thread /\ op[c].thread \in all
      /\ \A e \in Cpu \ {c} : pc[e] \notin Holding
      /\ \A e \in Cpu : ~ipi[e]
      /\ \A e \in Cpu : cpu_lock[e] # NULL => e = op[c].target
  BY <1>1, EndedFacts
<1>3. PICK t \in Thread : t = op[c].thread
  BY <1>2
<1>4. PICK d \in Cpu : d = op[c].target
  BY <1>2
<1>5. /\ cpu_lock' = [cpu_lock EXCEPT ![d] = NULL]
      /\ inactive_lock' = NULL
      /\ pc' = [pc EXCEPT ![c] = "run"] /\ op' = [op EXCEPT ![c] = NoOp]
      /\ user_lock' \in {user_lock, NULL}
      /\ UNCHANGED <<all, cpu, quantum, ctx, rq, fs, frame, task, ipi, all_lock>>
  BY <1>4 DEF Complete, Return, cpus, tasks
<1>6. /\ PlaceInv'
      /\ state' \in [Thread -> {"unknown", "running", "paused", "stopped"}]
      /\ inactive' \subseteq Thread
      /\ \A u \in Thread \ all : state'[u] = state[u]
  <2>1. CASE op[c].kind = "resume"
    <3>1. task[d].type = "resume" /\ t \in Members(rq[d])
      BY <1>2, <1>3, <1>4, <2>1 DEF HasRunOK
    <3>2. state' = state /\ inactive' = inactive
      BY <1>4, <3>1 DEF Complete
    <3>3. \A u \in all : u \in inactive \/ \E e \in Cpu : u \in Members(rq[e])
      BY <1>2, <1>3, <3>1 DEF PlaceInv
    <3> QED
      BY <1>5, <3>2, <3>3 DEF PlaceInv, TypeOK
  <2>2. CASE op[c].kind # "resume"
    <3>1. /\ task[d].type # "resume" /\ task[d].error = "none"
          /\ \A e \in Cpu : t \notin Members(rq[e])
      BY <1>2, <1>3, <1>4, <2>2 DEF HasRunOK
    <3>2. PICK v \in {"paused", "stopped"} :
            v = IF op[c].kind = "stop" THEN "stopped" ELSE "paused"
      OBVIOUS
    <3>3. state' = [state EXCEPT ![t] = v] /\ inactive' = inactive \cup {t}
      BY <1>3, <1>4, <3>1, <3>2 DEF Complete
    <3>4. \A e \in Cpu : pc[e] \in Holding => op[e].thread = t
      BY <1>2, <1>3
    <3> QED
      BY <1>2, <1>3, <1>5, <3>1, <3>3, <3>4, BecomesInactive
  <2> QED
    BY <2>1, <2>2
<1>7. /\ pc'[c] = "run" /\ op'[c] = NoOp /\ pc'[c] \notin Holding
      /\ \A e \in Cpu \ {c} : pc'[e] = pc[e] /\ op'[e] = op[e]
  BY <1>5 DEF TypeOK, Holding
<1>8. TypeOK'
  <2>1. /\ pc' \in [Cpu -> PC] /\ cpu_lock' \in [Cpu -> Cpu \cup {NULL}]
    BY <1>5 DEF TypeOK, PC
  <2>2. op' \in [Cpu -> Calls]
    BY <1>5 DEF TypeOK, Calls, NoOp, Kind
  <2> QED
    BY <1>5, <1>6, <2>1, <2>2 DEF TypeOK, Calls
<1>9. \A e \in Cpu : ~Halting(e)
  <2>1. ~Halting(c)
    BY <1>1 DEF Halting, CallInv
  <2> QED
    BY <1>2, <2>1 DEF Halting, Holding
<1>10. FrameInv' /\ CtxInv'
  BY <1>5, <1>9 DEF FrameInv, CtxInv
<1>11. ~Pending(c)' /\ ~HasRun(c)' /\ ~Halting(c)'
  BY <1>7 DEF Pending, HasRun, Halting
<1>12. \A e \in Cpu : cpu_lock'[e] = NULL
  BY <1>2, <1>4, <1>5 DEF TypeOK
<1>13. NoOp.kind \notin {"attach", "detach"}
  BY DEF NoOp
<1>14. \A e \in Cpu : ~ipi'[e]
  BY <1>2, <1>5
<1> QED
  BY <1>2, <1>5, <1>6, <1>7, <1>8, <1>10, <1>11, <1>12, <1>13, <1>14, HolderStep

(* A thread that pauses or stops itself goes on to the halt. *)
LEMMA CompleteSelfAction ==
  ASSUME SchedInv, NEW c \in Cpu, CompleteSelf(c)
  PROVE  SchedInv'
<1> USE DEF SchedInv
<1>1. Ended(c) /\ task[op[c].target].type = "self_halt"
  BY DEF CompleteSelf
<1>2. /\ HasRunOK(c) /\ pc[c] \in Holding
      /\ op[c].thread \in Thread /\ op[c].thread \in all
      /\ op[c].kind \notin {"none", "attach", "detach"}
      /\ \A e \in Cpu \ {c} : pc[e] \notin Holding
      /\ \A e \in Cpu : ~ipi[e]
      /\ \A e \in Cpu : cpu_lock[e] # NULL => e = op[c].target
  BY <1>1, EndedFacts
<1>3. pc[c] = "done"
  BY <1>1, <1>2 DEF HasRunOK
<1>4. op[c].target = c
  BY <1>3 DEF CallInv
<1>5. PICK t \in Thread : t = op[c].thread
  BY <1>2
<1>6. PICK v \in {"paused", "stopped"} :
        v = IF op[c].kind = "stop" THEN "stopped" ELSE "paused"
  OBVIOUS
<1>7. /\ state' = [state EXCEPT ![t] = v] /\ inactive' = inactive \cup {t}
      /\ pc' = [pc EXCEPT ![c] = "halt"]
      /\ UNCHANGED <<all, cpu, quantum, ctx, rq, fs, frame, op, task, ipi,
                     all_lock, inactive_lock, cpu_lock, user_lock>>
  BY <1>5, <1>6 DEF CompleteSelf, cpus, tasks, locks
<1>8. task[c].thread = t /\ \A e \in Cpu : t \notin Members(rq[e])
  BY <1>1, <1>2, <1>4, <1>5 DEF HasRunOK
<1>9. /\ PlaceInv'
      /\ state' \in [Thread -> {"unknown", "running", "paused", "stopped"}]
      /\ inactive' \subseteq Thread
      /\ \A u \in Thread \ all : state'[u] = state[u]
  <2>1. \A e \in Cpu : pc[e] \in Holding => op[e].thread = t
    BY <1>2, <1>5
  <2> QED
    BY <1>2, <1>5, <1>7, <1>8, <2>1, BecomesInactive
<1>10. /\ pc'[c] = "halt" /\ pc'[c] \in Holding
       /\ \A e \in Cpu \ {c} : pc'[e] = pc[e] /\ op'[e] = op[e]
  BY <1>7 DEF TypeOK, Holding
<1>11. TypeOK'
  <2>1. pc' \in [Cpu -> PC]
    BY <1>7 DEF TypeOK, PC
  <2> QED
    BY <1>7, <1>9, <2>1 DEF TypeOK
<1>12. \A e \in Cpu : Halting(e)' <=> Halting(e)
  BY <1>1, <1>3, <1>7, <1>10 DEF Halting
<1>13. FrameInv' /\ CtxInv'
  BY <1>7, <1>12 DEF FrameInv, CtxInv
<1>14. Halting(c)' => frame'[c] \in {NULL, op'[c].thread}
  BY <1>7, <1>12 DEF HaltInv
<1>15. ~Pending(c)' /\ ~HasRun(c)'
  BY <1>10 DEF Pending, HasRun
<1>16. inactive_lock' = c
  BY <1>2, <1>7 DEF LockInv
<1>17. op'[c] = op[c] /\ task'[c] = task[c] /\ t \in inactive'
  BY <1>7
<1>18. \A e \in Cpu : cpu_lock'[e] # NULL => e = c
  BY <1>2, <1>4, <1>7
<1>19. \A e \in Cpu : ~ipi'[e]
  BY <1>2, <1>7
<1>20. task'[c].thread = op'[c].thread /\ task'[c].type = "self_halt"
  BY <1>1, <1>4, <1>5, <1>8, <1>17
<1> QED
  BY <1>2, <1>4, <1>5, <1>7, <1>9, <1>10, <1>11, <1>13, <1>14, <1>15, <1>16,
     <1>17, <1>18, <1>19, <1>20, HolderStep

(* The halt itself, and the release of inactive.lock after it *)
LEMMA HaltActions ==
  ASSUME SchedInv, NEW c \in Cpu, do_self_halt_task(c) \/ UnlockInactive(c)
  PROVE  SchedInv'
<1> USE DEF SchedInv
<1>1. /\ pc[c] \in {"halt", "unlock_inactive"} /\ pc[c] \in Holding /\ pc[c] # "run"
      /\ UNCHANGED <<all, inactive, state, cpu, quantum, rq, fs, op, task, ipi,
                     all_lock, user_lock>>
  BY DEF do_self_halt_task, UnlockInactive, Holding, lists, threads, cpus, tasks
<1>2. \A e \in Cpu \ {c} : pc[e] \notin Holding
  BY <1>1, OneHolder
<1>3. PICK t \in Thread : t = op[c].thread
  BY <1>1 DEF OpInv
<1>4. /\ t \in inactive /\ t \in all /\ op[c].target \in Cpu
      /\ op[c].kind \notin {"none", "attach", "detach"}
  BY <1>1, <1>3 DEF CallInv, OpInv
<1>5. \A e \in Cpu : ~ipi[e]
  BY <1>1, <1>2 DEF IpiInv, Holding
<1>6. PlaceInv'
  <2>1. \A u \in all : u \in inactive \/ \E e \in Cpu : u \in Members(rq[e])
    BY <1>2, <1>3, <1>4 DEF PlaceInv
  <2> QED
    BY <1>1, <2>1 DEF PlaceInv
<1>7. CASE do_self_halt_task(c)
  <2>1. /\ pc[c] = "halt"
        /\ ctx' = [ctx EXCEPT ![task[c].thread] = frame[c]]
        /\ frame' = [frame EXCEPT ![c] = NULL]
        /\ cpu_lock' = [cpu_lock EXCEPT ![c] = NULL]
        /\ pc' = [pc EXCEPT ![c] = "unlock_inactive"]
        /\ UNCHANGED inactive_lock
    BY <1>7 DEF do_self_halt_task
  <2>2. task[c].thread = t /\ Halting(c) /\ op[c].target = c
    BY <1>3, <2>1 DEF CallInv, Halting
  <2>3. frame[c] \in {NULL, t}
    BY <1>3, <2>2 DEF HaltInv
  <2>4. CtxInv' /\ ctx' \in [Thread -> Thread \cup {NULL}]
    BY <2>1, <2>2, <2>3 DEF CtxInv, TypeOK
  <2>5. /\ pc'[c] = "unlock_inactive" /\ frame'[c] = NULL
        /\ \A e \in Cpu \ {c} : pc'[e] = pc[e] /\ op'[e] = op[e] /\ frame'[e] = frame[e]
        /\ pc'[c] \in Holding
    BY <1>1, <2>1 DEF TypeOK, Holding
  <2>6. TypeOK'
    <3>1. /\ pc' \in [Cpu -> PC] /\ frame' \in [Cpu -> Thread \cup {NULL}]
          /\ cpu_lock' \in [Cpu -> Cpu \cup {NULL}]
      BY <2>1 DEF TypeOK, PC
    <3> QED
      BY <1>1, <2>1, <2>4, <3>1 DEF TypeOK
  <2>7. \A e \in Cpu \ {c} : ~Halting(e)
    BY <1>2 DEF Halting, Holding
  <2>8. FrameInv'
    BY <1>1, <2>5, <2>7 DEF FrameInv
  <2>9. \A e \in Cpu : cpu_lock'[e] = NULL
    <3>1. \A e \in Cpu : cpu_lock[e] # NULL => e = c
      BY <1>2, <2>2 DEF CpuLockInv, Holding
    <3> QED
      BY <2>1, <3>1 DEF TypeOK
  <2>10. ~Pending(c)' /\ ~HasRun(c)' /\ ~Halting(c)'
    BY <2>5 DEF Pending, HasRun, Halting
  <2>11. inactive_lock' = c
    BY <1>1, <2>1 DEF LockInv
  <2>12. op'[c] = op[c] /\ inactive' = inactive /\ all' = all /\ state' = state
    BY <1>1
  <2>13. \A e \in Cpu : ~ipi'[e]
    BY <1>1, <1>5
  <2> QED
    BY <1>2, <1>3, <1>4, <1>6, <2>4, <2>5, <2>6, <2>8, <2>9, <2>10, <2>11,
       <2>12, <2>13, HolderStep
<1>8. CASE UnlockInactive(c)
  <2>1. /\ pc[c] = "unlock_inactive" /\ inactive_lock' = NULL
        /\ pc' = [pc EXCEPT ![c] = "unlock_user"]
        /\ UNCHANGED <<ctx, frame, cpu_lock>>
    BY <1>8 DEF UnlockInactive, threads, cpus
  <2>2. /\ pc'[c] = "unlock_user" /\ pc'[c] \notin Holding
        /\ \A e \in Cpu \ {c} : pc'[e] = pc[e] /\ op'[e] = op[e]
    BY <1>1, <2>1 DEF TypeOK, Holding
  <2>3. TypeOK'
    BY <1>1, <2>1 DEF TypeOK, PC
  <2>4. \A e \in Cpu : ~Halting(e)
    BY <1>2, <2>1 DEF Halting, Holding
  <2>5. FrameInv' /\ CtxInv'
    BY <1>1, <2>1, <2>4 DEF FrameInv, CtxInv
  <2>6. \A e \in Cpu : cpu_lock'[e] = NULL
    BY <1>2, <2>1 DEF CpuLockInv, Holding
  <2>7. ~Pending(c)' /\ ~HasRun(c)' /\ ~Halting(c)'
    BY <2>2 DEF Pending, HasRun, Halting
  <2>8. op'[c] = op[c] /\ all' = all /\ state' = state
    BY <1>1
  <2>9. \A e \in Cpu : ~ipi'[e]
    BY <1>1, <1>5
  <2> QED
    BY <1>2, <1>3, <1>4, <1>6, <2>1, <2>2, <2>3, <2>5, <2>6, <2>7, <2>8, <2>9,
       HolderStep
<1> QED
  BY <1>7, <1>8
-----------------------------------------------------------------------------
LEMMA Initially == Init => SchedInv
<1> SUFFICES ASSUME Init PROVE SchedInv
  OBVIOUS
<1>1. Affinity[Kmain] \subseteq Cpu /\ Kmain \in Thread
  BY SchedulerAssumption
<1>2. PICK boot \in Affinity[Kmain] :
        /\ cpu = [t \in Thread |-> IF t = Kmain THEN boot ELSE NULL]
        /\ rq = [c \in Cpu |-> IF c = boot THEN Resumed(EmptyQueue, Kmain)
                                          ELSE EmptyQueue]
  BY DEF Init
<1>3. boot \in Cpu
  BY <1>1, <1>2
<1>4. PICK r : r = Resumed(EmptyQueue, Kmain)
  OBVIOUS
<1>5. PICK k : k = EmptyQueue
  OBVIOUS
<1>6. WellFormed(k) /\ IsIdle(k) /\ Members(k) = {}
  BY <1>5, EmptyFacts
<1>7. WellFormed(r) /\ Members(r) = {Kmain} /\ ~IsIdle(r) /\ r.load
  BY <1>1, <1>4, <1>5, <1>6, ResumedFacts
<1>8. k \in Queue /\ r \in Queue
  BY <1>6, <1>7 DEF WellFormed
<1>9. /\ rq \in [Cpu -> Queue] /\ rq[boot] = r
      /\ \A c \in Cpu \ {boot} : rq[c] = k
  BY <1>2, <1>3, <1>4, <1>5, <1>8
<1>10. TypeOK
  <2>1. Quantum \in 0 .. Quantum /\ 0 \in 0 .. Quantum
    BY SchedulerAssumption
  <2>2. quantum \in [Thread -> 0 .. Quantum]
    BY <2>1 DEF Init
  <2>3. op \in [Cpu -> Calls] /\ task \in [Cpu -> Tasks]
    BY DEF Init, NoOp, NoTask, Calls, Tasks, Kind
  <2>4. cpu \in [Thread -> Cpu \cup {NULL}]
    BY <1>2, <1>3
  <2>5. pc \in [Cpu -> PC]
    BY DEF Init, PC
  <2>6. /\ all \subseteq Thread /\ inactive \subseteq Thread
        /\ state \in [Thread -> {"unknown", "running", "paused", "stopped"}]
        /\ ctx \in [Thread -> Thread \cup {NULL}]
        /\ fs \in [Cpu -> Thread \cup {NULL}]
        /\ frame \in [Cpu -> Thread \cup {NULL}]
        /\ ipi \in [Cpu -> BOOLEAN]
        /\ all_lock \in Cpu \cup {NULL} /\ inactive_lock \in Cpu \cup {NULL}
        /\ cpu_lock \in [Cpu -> Cpu \cup {NULL}]
        /\ user_lock \in Cpu \cup {NULL}
    BY <1>1 DEF Init
  <2> QED
    BY <1>9, <2>2, <2>3, <2>4, <2>5, <2>6 DEF TypeOK, Calls, Tasks
<1>11. \A c \in Cpu : pc[c] = "run" /\ op[c] = NoOp /\ pc[c] \notin Holding
  BY DEF Init, Holding
<1>12. LockInv
  BY <1>11, SchedulerAssumption DEF LockInv, Init
<1>13. OpInv /\ AttachInv
  <2>1. NoOp.kind = "none"
    BY DEF NoOp
  <2> QED
    BY <1>11, <2>1 DEF OpInv, AttachInv
<1>14. PlaceInv
  <2>1. \A c \in Cpu : \A t \in Members(rq[c]) : c = boot /\ t = Kmain
    BY <1>6, <1>7, <1>9
  <2>2. cpu[Kmain] = boot /\ state[Kmain] = "running" /\ all = {Kmain} /\ inactive = {}
    BY <1>1, <1>2 DEF Init
  <2>3. Kmain \in Members(rq[boot])
    BY <1>7, <1>9
  <2> QED
    BY <1>3, <2>1, <2>2, <2>3 DEF PlaceInv
<1>15. PendingInv /\ HasRunInv /\ CallInv /\ HaltInv
  BY <1>11 DEF PendingInv, Pending, HasRunInv, HasRun, CallInv, HaltInv, Halting, Holding
<1>16. CpuLockInv /\ IpiInv
  BY DEF Init, CpuLockInv, IpiInv
<1>17. FrameInv
  <2> SUFFICES ASSUME NEW c \in Cpu
               PROVE  /\ WellFormed(rq[c]) /\ (IsIdle(rq[c]) \/ rq[c].load)
                      /\ fs[c] = NULL /\ frame[c] = NULL
    BY DEF FrameInv
  <2>1. fs[c] = NULL /\ frame[c] = NULL
    BY DEF Init
  <2>2. WellFormed(rq[c]) /\ (IsIdle(rq[c]) \/ rq[c].load)
    BY <1>6, <1>7, <1>9
  <2> QED
    BY <2>1, <2>2
<1>18. CtxInv
  BY DEF Init, CtxInv
<1> QED
  BY <1>10, <1>12, <1>13, <1>14, <1>15, <1>16, <1>17, <1>18 DEF SchedInv

LEMMA Inductive == SchedInv /\ [Next]_vars => SchedInv'
<1> SUFFICES ASSUME SchedInv, [Next]_vars PROVE SchedInv'
  OBVIOUS
<1>1. CASE UNCHANGED vars
  <2>1. UNCHANGED <<all, inactive, state, cpu, quantum, ctx, rq, fs, frame>>
    BY <1>1 DEF vars
  <2>2. UNCHANGED <<pc, op, task, ipi, all_lock, inactive_lock, cpu_lock, user_lock>>
    BY <1>1 DEF vars
  <2>3. TypeOK'
    BY <2>1, <2>2 DEF SchedInv, TypeOK
  <2>4. LockInv' /\ OpInv' /\ AttachInv' /\ PlaceInv'
    BY <2>1, <2>2 DEF SchedInv, LockInv, OpInv, AttachInv, PlaceInv
  <2>5. PendingInv' /\ HasRunInv' /\ CallInv'
    BY <2>1, <2>2
    DEF SchedInv, PendingInv, HasRunInv, CallInv, Pending, HasRun, PendingOK, HasRunOK
  <2>6. CpuLockInv' /\ IpiInv'
    BY <2>1, <2>2 DEF SchedInv, CpuLockInv, IpiInv
  <2>7. FrameInv' /\ HaltInv' /\ CtxInv'
    BY <2>1, <2>2 DEF SchedInv, FrameInv, HaltInv, CtxInv, Halting
  <2> QED
    BY <2>3, <2>4, <2>5, <2>6, <2>7 DEF SchedInv
<1>2. CASE Next
  <2>1. PICK c \in Cpu :
          \/ Outside(c)
          \/ \E t \in Thread : attach_thread(c, t)
          \/ Attach(c) \/ Detach(c) \/ StopPaused(c)
          \/ Resume(c) \/ Deactivate(c)
          \/ LocalTask(c) \/ SendTask(c) \/ TaskInterrupt(c)
          \/ Complete(c) \/ CompleteSelf(c)
          \/ do_self_halt_task(c) \/ UnlockInactive(c)
    BY <1>2, Zenon DEF Next, CallStep, Outside
  <2> QED
    BY <2>1, OutsideActions, AttachBegins, ListActions, GoActions, LocalAction,
       SendAction, InterruptAction, CompleteAction, CompleteSelfAction, HaltActions
<1> QED
  BY <1>1, <1>2

LEMMA Invariant == Spec => []SchedInv
  BY Initially, Inductive, PTL DEF Spec
-----------------------------------------------------------------------------
(* What a CPU executes is in its queue, or about to halt and in no queue.  *)
LEMMA Executes ==
  ASSUME SchedInv, NEW c \in Cpu, frame[c] # NULL
  PROVE  \/ frame[c] \in Members(rq[c])
         \/ /\ Halting(c) /\ frame[c] = op[c].thread
            /\ pc[c] \in Holding
            /\ \A e \in Cpu : frame[c] \notin Members(rq[e])
            /\ pc[c] = "done" => frame[c] \notin inactive
<1> USE DEF SchedInv
<1>1. CASE frame[c] = fs[c]
  <2>1. ~IsIdle(rq[c]) /\ frame[c] = Current(rq[c]) /\ WellFormed(rq[c])
    BY <1>1 DEF FrameInv
  <2> QED
    BY <2>1, WellFormedFacts
<1>2. CASE Halting(c) /\ frame[c] = op[c].thread
  <2>1. CASE pc[c] = "done"
    <3>1. op[c].target = c /\ HasRunOK(c)
      BY <2>1 DEF CallInv, HasRunInv, HasRun
    <3> QED
      BY <1>2, <2>1, <3>1 DEF HasRunOK, Halting, Holding
  <2>2. CASE pc[c] = "halt"
    <3>1. op[c].thread \in inactive
      BY <2>2 DEF CallInv
    <3> QED
      BY <1>2, <2>2, <3>1 DEF PlaceInv, Holding
  <2> QED
    BY <1>2, <2>1, <2>2 DEF Halting
<1> QED
  BY <1>1, <1>2 DEF FrameInv

(* Every reachable state of the scheduler is well typed: queues stay lists *)
(* of threads and the quantum stays between zero and its initial value,    *)
(* whatever the calls, the timer and the task interrupts do.               *)
THEOREM TypeCorrect == Spec => []TypeOK
<1>1. SchedInv => TypeOK
  BY DEF SchedInv
<1> QED
  BY <1>1, Invariant, PTL

(* No two CPUs ever execute the same thread: do_pause_task, the self-halt  *)
(* and do_resume_task on different CPUs never overlap for one thread.      *)
THEOREM OneCpuPerThread == Spec => []SingleExecution
<1>1. ASSUME SchedInv PROVE SingleExecution
  <2> SUFFICES ASSUME NEW c \in Cpu, NEW d \in Cpu, c # d,
                      frame[c] # NULL, frame[c] = frame[d]
               PROVE  FALSE
    BY DEF SingleExecution
  <2>1. CASE frame[c] \in Members(rq[c]) /\ frame[c] \in Members(rq[d])
    BY <1>1, <2>1 DEF SchedInv, PlaceInv
  <2>2. CASE pc[c] \in Holding /\ pc[d] \in Holding
    BY <1>1, <2>2, OneHolder DEF SchedInv
  <2> QED
    BY <1>1, <2>1, <2>2, Executes
<1> QED
  BY <1>1, Invariant, PTL

(* A thread on the inactive list, which pause_thread and stop_thread put   *)
(* there, does not execute, but for the last steps of its own self-halt.   *)
THEOREM InactiveThreadsRest == Spec => []InactiveIsQuiet
<1>1. ASSUME SchedInv PROVE InactiveIsQuiet
  <2> SUFFICES ASSUME NEW c \in Cpu, frame[c] \in inactive
               PROVE  pc[c] = "halt"
    BY DEF InactiveIsQuiet
  <2>1. frame[c] # NULL
    BY <1>1, SchedulerAssumption DEF SchedInv, TypeOK
  <2>2. frame[c] \notin Members(rq[c])
    BY <1>1 DEF SchedInv, PlaceInv
  <2> QED
    BY <1>1, <2>1, <2>2, Executes DEF Halting
<1> QED
  BY <1>1, Invariant, PTL

(* Every attached thread is on the inactive list, in the queue of the CPU  *)
(* that thread->cpu names, or in the hands of the call that holds          *)
(* inactive.lock, and thread->state agrees.                                *)
THEOREM EveryThreadHasAPlace == Spec => []Placement
<1>1. ASSUME SchedInv PROVE Placement
  <2> SUFFICES ASSUME NEW t \in Thread, NEW queues,
                      queues = {c \in Cpu : t \in Members(rq[c])}
               PROVE  /\ queues = {} \/ (queues = {cpu[t]} /\ state[t] = "running")
                      /\ ~(t \in inactive /\ queues # {})
                      /\ t \in all => t \in inactive \/ queues # {} \/ InHand(t)
                      /\ t \in inactive => t \in all /\ state[t] \in {"paused", "stopped"}
                      /\ queues # {} => t \in all
    BY DEF Placement
  <2>1. \A c \in queues : c = cpu[t] /\ state[t] = "running" /\ t \in all /\ t \notin inactive
    BY <1>1 DEF SchedInv, PlaceInv
  <2>2. queues # {} => queues = {cpu[t]}
    BY <2>1
  <2>3. (\E c \in Cpu : pc[c] \in Holding /\ op[c].thread = t) => InHand(t)
    BY <1>1 DEF SchedInv, LockInv, OpInv, InHand, Holding
  <2>4. t \in all => t \in inactive \/ queues # {} \/ InHand(t)
    BY <1>1, <2>3 DEF SchedInv, PlaceInv
  <2>5. t \in inactive => t \in all /\ state[t] \in {"paused", "stopped"}
    BY <1>1 DEF SchedInv, PlaceInv
  <2> QED
    BY <2>1, <2>2, <2>4, <2>5
<1> QED
  BY <1>1, Invariant, PTL

(* run_cpu_task: a CPU's task belongs to the one call that waits for it,   *)
(* and its interrupt is pending exactly until the task has run.            *)
THEOREM TasksAreOwned == Spec => []TaskIsOwned
<1>1. ASSUME SchedInv PROVE TaskIsOwned
  <2> SUFFICES ASSUME NEW d \in Cpu, NEW waiting,
                      waiting = {c \in Cpu : pc[c] = "wait" /\ op[c].target = d}
               PROVE  /\ Cardinality(waiting) <= 1
                      /\ \A c \in waiting : task[d].thread = op[c].thread
                      /\ ipi[d] <=> waiting # {} /\ task[d].error = "busy"
    BY DEF TaskIsOwned
  <2>1. \A c, e \in waiting : c = e
    BY <1>1, OneHolder DEF SchedInv, Holding
  <2>2. Cardinality(waiting) <= 1
    <3>1. CASE waiting = {}
      BY <3>1, FS_EmptySet
    <3>2. CASE waiting # {}
      <4>0. PICK c \in waiting : TRUE
        BY <3>2
      <4>1. waiting = {c}
        BY <2>1, <4>0
      <4>2. Cardinality({c}) = 1
        BY FS_Singleton
      <4> QED
        BY <4>1, <4>2
    <3> QED
      BY <3>1, <3>2
  <2>3. ASSUME NEW c \in waiting
        PROVE  /\ task[d].thread = op[c].thread
               /\ ipi[d] <=> task[d].error = "busy"
    <3>1. c \in Cpu /\ pc[c] = "wait" /\ op[c].target = d /\ op[c] \in Calls
      BY <1>1 DEF SchedInv, TypeOK, Calls
    <3>2. CASE ipi[d]
      <4>1. task[d] = [TaskOf(op[c]) EXCEPT !.error = "busy"]
        BY <1>1, <3>1, <3>2 DEF SchedInv, PendingInv, Pending, PendingOK
      <4>2. PICK k, o : k = task[d] /\ o = op[c]
        OBVIOUS
      <4>3. k = [TaskOf(o) EXCEPT !.error = "busy"] /\ o \in Calls
        BY <3>1, <4>1, <4>2
      <4>4. k.thread = o.thread /\ k.error = "busy"
        BY <4>3, TaskOfFacts
      <4> QED
        BY <3>2, <4>2, <4>4
    <3>3. CASE ~ipi[d]
      <4>1. task[d].error = "none" /\ task[d].thread = op[c].thread
        BY <1>1, <3>1, <3>3 DEF SchedInv, HasRunInv, HasRun, HasRunOK
      <4> QED
        BY <3>3, <4>1
    <3> QED
      BY <3>2, <3>3
  <2>4. ipi[d] => waiting # {}
    BY <1>1 DEF SchedInv, IpiInv
  <2> QED
    BY <2>2, <2>3, <2>4
<1> QED
  BY <1>1, Invariant, PTL

(* deactivate_thread: the retry loop is never used, for a pause task finds *)
(* its thread running on the CPU it was sent to, and run_cpu_task never    *)
(* waits for the lock of a CPU.                                            *)
THEOREM TasksSucceed == Spec => []TaskSucceeds
<1>1. ASSUME SchedInv PROVE TaskSucceeds
  <2> SUFFICES ASSUME NEW c \in Cpu
               PROVE  /\ pc[c] \in {"wait", "done"} =>
                           task[op[c].target].error # "not_found"
                      /\ pc[c] = "cpu" => cpu_lock[op[c].target] = NULL
    BY DEF TaskSucceeds
  <2>1. ASSUME pc[c] \in {"wait", "done"}
        PROVE  task[op[c].target].error # "not_found"
    <3>1. CASE task[op[c].target].error = "busy"
      BY <3>1
    <3>2. CASE task[op[c].target].error # "busy"
      <4>1. Ended(c)
        BY <2>1, <3>2 DEF Ended
      <4> QED
        BY <1>1, <4>1, EndedFacts DEF HasRunOK
    <3> QED
      BY <3>1, <3>2
  <2>2. ASSUME pc[c] = "cpu" PROVE cpu_lock[op[c].target] = NULL
    <3>1. \A e \in Cpu \ {c} : pc[e] \notin Holding
      BY <1>1, <2>2, OneHolder DEF SchedInv, Holding
    <3>2. op[c].target \in Cpu
      BY <1>1, <2>2 DEF SchedInv, OpInv, Holding
    <3> QED
      BY <1>1, <2>2, <3>1, <3>2 DEF SchedInv, CpuLockInv, Holding
  <2> QED
    BY <2>1, <2>2
<1> QED
  BY <1>1, Invariant, PTL
-----------------------------------------------------------------------------
(* all.lock is held by a call that is about to take inactive.lock. *)
AllLockInv ==
  /\ \A c \in Cpu : pc[c] = "all" => op[c].kind \in {"attach", "detach"}
  /\ all_lock # NULL =>
       pc[all_lock] = "inactive" /\ op[all_lock].kind \in {"attach", "detach"}

LEMMA AllLockStays ==
  ASSUME SchedInv, AllLockInv, NEW c \in Cpu, all_lock # c, all_lock' = all_lock,
         NEW p \in PC, NEW o \in Calls,
         pc' = [pc EXCEPT ![c] = p], op' = [op EXCEPT ![c] = o],
         p = "all" => o.kind \in {"attach", "detach"}
  PROVE  AllLockInv'
<1>1. /\ pc'[c] = p /\ op'[c] = o
      /\ \A e \in Cpu \ {c} : pc'[e] = pc[e] /\ op'[e] = op[e]
  BY DEF SchedInv, TypeOK
<1>2. all_lock # NULL => all_lock \in Cpu \ {c}
  BY DEF SchedInv, TypeOK
<1> QED
  BY <1>1, <1>2 DEF AllLockInv

(* A call begins. *)
LEMMA AllLockBegins ==
  ASSUME SchedInv, AllLockInv, NEW c \in Cpu, pc[c] = "run", all_lock' = all_lock,
         NEW kind \in Kind, NEW t \in Thread, NEW user \in BOOLEAN,
         NEW where \in {"user", "all", "inactive"}, Begin(c, kind, t, user, where),
         where = "all" => kind \in {"attach", "detach"}
  PROVE  AllLockInv'
<1>0. PICK o : o = [kind |-> kind, thread |-> t, target |-> NULL, user |-> user]
  OBVIOUS
<1>1. o \in Calls /\ op' = [op EXCEPT ![c] = o] /\ o.kind = kind
  BY <1>0 DEF Begin, Calls
<1>2. all_lock # c
  BY SchedulerAssumption DEF AllLockInv
<1> QED
  BY <1>1, <1>2, AllLockStays DEF Begin, PC

LEMMA AllLockBeginActions ==
  ASSUME SchedInv, AllLockInv, NEW c \in Cpu,
         \/ \E t \in Thread : \/ attach_thread(c, t) \/ detach_thread(c, t)
                              \/ \E kind \in {"resume", "pause", "stop"} : Request(c, kind, t)
                              \/ LockedResume(c, t) \/ TimerWithProc(c, t)
         \/ pause_this_thread(c)
  PROVE  AllLockInv'
<1> USE AllLockBegins DEF Kind, CanCall, locks
<1>1. ASSUME NEW t \in Thread, attach_thread(c, t) PROVE AllLockInv'
  BY <1>1 DEF attach_thread
<1>2. ASSUME NEW t \in Thread, detach_thread(c, t) PROVE AllLockInv'
  BY <1>2 DEF detach_thread
<1>3. ASSUME NEW t \in Thread, NEW kind \in {"resume", "pause", "stop"}, Request(c, kind, t)
      PROVE  AllLockInv'
  BY <1>3 DEF Request
<1>4. ASSUME NEW t \in Thread, LockedResume(c, t) PROVE AllLockInv'
  BY <1>4 DEF LockedResume
<1>5. ASSUME NEW t \in Thread, TimerWithProc(c, t) PROVE AllLockInv'
  BY <1>5 DEF TimerWithProc
<1>6. CASE pause_this_thread(c)
  <2>1. fs[c] \in Thread
    BY <1>6 DEF pause_this_thread, SchedInv, TypeOK
  <2> QED
    BY <1>6, <2>1 DEF pause_this_thread
<1> QED
  BY <1>1, <1>2, <1>3, <1>4, <1>5, <1>6

LEMMA AllLockCallSteps ==
  ASSUME SchedInv, AllLockInv, NEW c \in Cpu, CallStep(c) PROVE AllLockInv'
<1> USE SchedulerAssumption
<1>0. op[c] \in Calls /\ NoOp \in Calls /\ pc \in [Cpu -> PC]
      /\ op = [op EXCEPT ![c] = op[c]]
  BY DEF SchedInv, TypeOK, Calls, NoOp, Kind
<1>1. CASE AcquireAll(c)
  <2>1. /\ pc'[c] = "inactive" /\ op' = op /\ all_lock' = c
        /\ \A e \in Cpu \ {c} : pc'[e] = pc[e]
        /\ op[c].kind \in {"attach", "detach"}
    BY <1>0, <1>1 DEF AcquireAll, AllLockInv
  <2> QED
    BY <2>1 DEF AllLockInv
<1>2. CASE Attach(c) \/ Detach(c)
  <2>1. /\ pc'[c] = "run" /\ all_lock' = NULL
        /\ \A e \in Cpu \ {c} : pc'[e] = pc[e] /\ op'[e] = op[e]
    BY <1>0, <1>2 DEF Attach, Detach, Return, SchedInv, TypeOK
  <2> QED
    BY <2>1 DEF AllLockInv
<1>3. CASE AcquireUser(c)
  BY <1>0, <1>3, AllLockStays DEF AcquireUser, AllLockInv, PC
<1>4. CASE Refuse(c) \/ StopPaused(c) \/ Complete(c) \/ UnlockUser(c)
  <2>1. all_lock # c
    BY <1>4 DEF Refuse, StopPaused, Complete, UnlockUser, Entered, Ended, AllLockInv
  <2>2. /\ pc' = [pc EXCEPT ![c] = "run"] /\ op' = [op EXCEPT ![c] = NoOp]
        /\ all_lock' = all_lock
    BY <1>4 DEF Refuse, StopPaused, Complete, UnlockUser, Return
  <2> QED
    BY <1>0, <2>1, <2>2, AllLockStays DEF PC
<1>5. CASE Resume(c) \/ Deactivate(c)
  <2>1. all_lock # c /\ all_lock' = all_lock
    BY <1>5 DEF Resume, Deactivate, Entered, AllLockInv
  <2>2. PICK d : GoTo(c, d)
    BY <1>5 DEF Resume, Deactivate
  <2>3. /\ \A e \in Cpu \ {c} : pc'[e] = pc[e] /\ op'[e] = op[e]
        /\ pc'[c] = "cpu"
    BY <1>0, <2>2 DEF GoTo, SchedInv, TypeOK
  <2>4. all_lock # NULL => all_lock \in Cpu \ {c}
    BY <2>1 DEF SchedInv, TypeOK
  <2> QED
    BY <2>1, <2>3, <2>4 DEF AllLockInv
<1>6. CASE \/ LocalTask(c) \/ SendTask(c) \/ CompleteSelf(c)
           \/ do_self_halt_task(c) \/ UnlockInactive(c)
  <2>1. PICK p \in PC \ {"all"} :
          pc' = [pc EXCEPT ![c] = p] /\ op' = op /\ all_lock' = all_lock
    BY <1>6 DEF LocalTask, SendTask, CompleteSelf, do_self_halt_task, UnlockInactive,
                locks, PC
  <2>2. all_lock # c
    BY <1>6 DEF LocalTask, SendTask, CompleteSelf, Ended, do_self_halt_task,
                UnlockInactive, AllLockInv
  <2> QED
    BY <1>0, <2>1, <2>2, AllLockStays
<1> QED
  BY <1>1, <1>2, <1>3, <1>4, <1>5, <1>6 DEF CallStep

LEMMA AllLockStep == SchedInv /\ AllLockInv /\ [Next]_vars => AllLockInv'
<1> SUFFICES ASSUME SchedInv, AllLockInv, [Next]_vars PROVE AllLockInv'
  OBVIOUS
<1>1. CASE UNCHANGED <<pc, op, all_lock>>
  BY <1>1 DEF AllLockInv
<1>2. ASSUME NEW c \in Cpu,
             TaskInterrupt(c) \/ Timer(c) \/ \E t \in Thread : set_thread_context(c, t)
      PROVE  UNCHANGED <<pc, op, all_lock>>
  BY <1>2 DEF TaskInterrupt, Timer, set_thread_context, locks
<1> QED
  BY <1>1, <1>2, AllLockBeginActions, AllLockCallSteps DEF Next, vars

(* CallsGoOn: on any number of CPUs, the calls that lock, send tasks and   *)
(* halt come to a standstill only when a task is sent to a CPU that spins  *)
(* (run_cpu_task), or behind a lock that do_self_halt_task did not find in *)
(* its task.                                                               *)
THEOREM NoOtherStandstill == Spec => []CallsGoOn
<1>1. Init => AllLockInv
  BY DEF Init, AllLockInv
<1>2. SchedInv /\ AllLockInv => CallsGoOn
  <2> SUFFICES ASSUME SchedInv, AllLockInv, NEW c \in Cpu, pc[c] # "run",
                      \A e \in Cpu : ~GoesOn(e), ~CrossWait, ~LockLeft
               PROVE  FALSE
    BY DEF CallsGoOn
  <2> USE SchedulerAssumption DEF SchedInv
  <2>0. \A e \in Cpu : pc[e] \in PC
    BY DEF TypeOK
  <2>1. ASSUME NEW e \in Cpu
        PROVE  /\ pc[e] \notin {"done", "halt", "unlock_inactive", "unlock_user"}
               /\ pc[e] = "user" => user_lock # NULL
               /\ pc[e] = "all" => all_lock # NULL
               /\ pc[e] = "inactive" => inactive_lock # NULL
    BY DEF GoesOn, SpinsOn
  <2>2. ASSUME NEW e \in Cpu PROVE pc[e] # "cpu"
    <3>1. SUFFICES ASSUME pc[e] = "cpu" PROVE FALSE
      OBVIOUS
    <3>2. op[e].target \in Cpu
      BY <3>1 DEF OpInv, Holding
    <3>3. \A d \in Cpu : pc[d] \in Holding => d = e
      BY <3>1, OneHolder DEF Holding
    <3>4. cpu_lock[op[e].target] = NULL
      BY <3>1, <3>2, <3>3 DEF CpuLockInv, Holding
    <3> QED
      BY <3>1, <3>4 DEF GoesOn, SpinsOn
  <2>3. ASSUME NEW e \in Cpu PROVE pc[e] # "wait"
    <3>1. SUFFICES ASSUME pc[e] = "wait" PROVE FALSE
      OBVIOUS
    <3>2. PICK d \in Cpu : d = op[e].target
      BY <3>1 DEF OpInv, Holding
    <3>3. task[d].error = "busy" /\ ~(ipi[d] /\ pc[d] = "run")
      BY <3>1, <3>2 DEF GoesOn, SpinsOn
    <3>4. ipi[d]
      <4>1. SUFFICES ASSUME ~ipi[d] PROVE FALSE
        OBVIOUS
      <4>2. HasRunOK(e)
        BY <3>1, <3>2, <4>1 DEF HasRunInv, HasRun
      <4> QED
        BY <3>2, <3>3, <4>2 DEF HasRunOK
    <3>5. d # e
      BY <3>1, <3>2 DEF CallInv
    <3>6. pc[d] \notin Holding /\ pc[d] # "run"
      BY <3>1, <3>3, <3>4, <3>5, OneHolder DEF Holding
    <3>7. pc[d] \in {"user", "all", "inactive"}
      BY <2>0, <2>1, <3>6 DEF PC, Holding
    <3>8. SpinsOn(d) # NULL
      BY <2>1, <3>7 DEF SpinsOn
    <3> QED
      BY <3>1, <3>2, <3>4, <3>8 DEF CrossWait
  <2>4. \A e \in Cpu : pc[e] \notin Holding
    BY <2>1, <2>2, <2>3 DEF Holding
  <2>5. inactive_lock = NULL
    BY <2>4 DEF LockInv, TypeOK
  <2>6. \A e \in Cpu : pc[e] # "inactive"
    BY <2>1, <2>5
  <2>7. all_lock = NULL
    BY <2>6 DEF AllLockInv, TypeOK
  <2>8. \A e \in Cpu : pc[e] \in {"run", "user"}
    BY <2>0, <2>1, <2>4, <2>6, <2>7 DEF PC, Holding
  <2>9. user_lock # NULL /\ user_lock \in Cpu
    BY <2>1, <2>8 DEF TypeOK
  <2> QED
    BY <2>8, <2>9 DEF LockLeft
<1> QED
  BY <1>1, <1>2, AllLockStep, Invariant, PTL DEF Spec
-----------------------------------------------------------------------------
(* A machine with one CPU: the operators on queues that the instance of    *)
(* CpuQueue brings along                                                   *)
LEMMA SameOperators ==
  ASSUME NEW k, NEW t
  PROVE  /\ Queue1!IsIdle(k) = IsIdle(k)
         /\ Queue1!Highest(k) = Highest(k)
         /\ Queue1!Current(k) = Current(k)
         /\ Queue1!IsCurrent(k, t) = IsCurrent(k, t)
         /\ Queue1!Resumed(k, t) = Resumed(k, t)
         /\ Queue1!Paused(k, t) = Paused(k, t)
         /\ Queue1!Switched(k) = Switched(k)
<1>1. Queue1!Mask(k) = Mask(k)
  BY DEF Queue1!Mask, Mask, Queue1!Prio, Prio
<1>2. Queue1!IsIdle(k) = IsIdle(k)
  BY <1>1 DEF Queue1!IsIdle, IsIdle
<1>3. Queue1!Highest(k) = Highest(k)
  BY <1>1 DEF Queue1!Highest, Highest
<1>4. Queue1!Current(k) = Current(k)
  BY DEF Queue1!Current, Current
<1>5. Queue1!IsCurrent(k, t) = IsCurrent(k, t)
  BY <1>4 DEF Queue1!IsCurrent, IsCurrent
<1>6. \A q, u : Queue1!AddExpired(q, u) = AddExpired(q, u)
  BY DEF Queue1!AddExpired, AddExpired, Queue1!Mask, Mask, Queue1!Prio, Prio
<1>7. \A q, p : Queue1!Refill(q, p) = Refill(q, p)
  BY DEF Queue1!Refill, Refill
<1>8. Queue1!Resumed(k, t) = Resumed(k, t)
  BY <1>2, <1>6 DEF Queue1!Resumed, Resumed
<1>9. \A s : Queue1!RemoveFirst(s, t) = RemoveFirst(s, t)
  BY DEF Queue1!RemoveFirst, RemoveFirst, Queue1!RemoveAt, RemoveAt,
         Queue1!SelectInSeq, SelectInSeq, Queue1!Min, Min
<1>10. Queue1!Unlink(k, t) = Unlink(k, t)
  <2>1. PICK a, e : /\ a = RemoveFirst(k.active[Priority[t]], t)
                    /\ e = RemoveFirst(k.expired[Priority[t]], t)
    OBVIOUS
  <2>2. /\ a = Queue1!RemoveFirst(k.active[Priority[t]], t)
        /\ e = Queue1!RemoveFirst(k.expired[Priority[t]], t)
    BY <1>9, <2>1
  <2>3. PICK r : r = [k EXCEPT !.active[Priority[t]] = a, !.expired[Priority[t]] = e]
    OBVIOUS
  <2>4. Unlink(k, t) = Refill(r, Priority[t])
    BY <2>1, <2>3 DEF Unlink
  <2>5. Queue1!Unlink(k, t) = Queue1!Refill(r, Priority[t])
    BY <2>2, <2>3 DEF Queue1!Unlink
  <2> QED
    BY <1>7, <2>4, <2>5
<1>11. Queue1!Paused(k, t) = Paused(k, t)
  BY <1>5, <1>10 DEF Queue1!Paused, Paused, Queue1!IsIdle, IsIdle,
     Queue1!Highest, Highest, Queue1!Mask, Mask, Queue1!Prio, Prio
<1>12. Queue1!Rotate(k) = Rotate(k)
  BY <1>4, <1>6, <1>7 DEF Queue1!Rotate, Rotate
<1>13. Queue1!Switched(k) = Switched(k)
  BY <1>3, <1>12 DEF Queue1!Switched, Switched
<1> QED
  BY <1>2, <1>3, <1>4, <1>5, <1>8, <1>11, <1>13

LEMMA AttachIsAStep ==
  ASSUME NEW t \in Thread, QueueState[t] = "detached",
         QueueState' = [QueueState EXCEPT ![t] = "paused"],
         UNCHANGED <<rq[bsp], QueueQuantum, fs[bsp], QueueFrame, QueueCtx>>
  PROVE  Queue1!Next
<1>1. Queue1!Attach(t)
  BY DEF Queue1!Attach
<1> QED
  BY <1>1 DEF Queue1!Next

LEMMA SetContextIsAStep ==
  ASSUME NEW t \in Thread, QueueState[t] = "detached",
         QueueCtx' = [QueueCtx EXCEPT ![t] = t],
         UNCHANGED <<rq[bsp], QueueState, QueueQuantum, fs[bsp], QueueFrame>>
  PROVE  Queue1!Next
<1>1. Queue1!SetContext(t)
  BY DEF Queue1!SetContext
<1> QED
  BY <1>1 DEF Queue1!Next

LEMMA DetachIsAStep ==
  ASSUME NEW t \in Thread, QueueState[t] \in {"paused", "stopped"},
         QueueState' = [QueueState EXCEPT ![t] = "detached"],
         UNCHANGED <<rq[bsp], QueueQuantum, fs[bsp], QueueFrame, QueueCtx>>
  PROVE  Queue1!Next
<1>1. Queue1!Detach(t)
  BY DEF Queue1!Detach
<1> QED
  BY <1>1 DEF Queue1!Next

LEMMA StopIsAStep ==
  ASSUME NEW t \in Thread, QueueState[t] = "paused",
         QueueState' = [QueueState EXCEPT ![t] = "stopped"],
         UNCHANGED <<rq[bsp], QueueQuantum, fs[bsp], QueueFrame, QueueCtx>>
  PROVE  Queue1!Next
<1>1. Queue1!StopPaused(t)
  BY DEF Queue1!StopPaused
<1> QED
  BY <1>1 DEF Queue1!Next

LEMMA ResumeIsAStep ==
  ASSUME NEW t \in Thread, QueueState[t] = "paused",
         QueueState' = [QueueState EXCEPT ![t] = "running"],
         QueueQuantum' = [QueueQuantum EXCEPT ![t] = Quantum],
         rq'[bsp] = Resumed(rq[bsp], t),
         UNCHANGED <<fs[bsp], QueueFrame, QueueCtx>>
  PROVE  Queue1!Next
<1>1. Queue1!Resume(t)
  BY SameOperators DEF Queue1!Resume
<1> QED
  BY <1>1 DEF Queue1!Next

LEMMA DeactivateIsAStep ==
  ASSUME NEW t \in Thread, NEW to \in {"paused", "stopped"},
         QueueState[t] = "running",
         QueueState' = [QueueState EXCEPT ![t] = to],
         QueueQuantum' = [QueueQuantum EXCEPT ![t] = 0],
         rq'[bsp] = Paused(rq[bsp], t),
         IF IsCurrent(rq[bsp], t)
         THEN /\ fs'[bsp] = NULL /\ QueueFrame' = NULL
              /\ QueueCtx' = [QueueCtx EXCEPT ![t] = QueueFrame]
         ELSE UNCHANGED <<fs[bsp], QueueFrame, QueueCtx>>
  PROVE  Queue1!Next
<1>1. Queue1!Deactivate(t, to)
  BY SameOperators DEF Queue1!Deactivate
<1> QED
  BY <1>1 DEF Queue1!Next

LEMMA TickLoadIsAStep ==
  ASSUME ~IsIdle(rq[bsp]), rq[bsp].load,
         QueueFrame' = QueueCtx[Current(rq[bsp])],
         fs'[bsp] = Current(rq[bsp]),
         rq'[bsp] = [rq[bsp] EXCEPT !.load = FALSE],
         UNCHANGED <<QueueState, QueueQuantum, QueueCtx>>
  PROVE  Queue1!Next
<1>1. Queue1!TickLoad
  BY SameOperators DEF Queue1!TickLoad
<1> QED
  BY <1>1 DEF Queue1!Next, Queue1!Tick

LEMMA TickCountIsAStep ==
  ASSUME ~IsIdle(rq[bsp]), ~rq[bsp].load,
         NEW t, t = Current(rq[bsp]),
         Highest(rq[bsp]) >= rq[bsp].current, QueueQuantum[t] > 0,
         QueueQuantum' = [QueueQuantum EXCEPT ![t] = @ - 1],
         UNCHANGED <<rq[bsp], QueueState, fs[bsp], QueueFrame, QueueCtx>>
  PROVE  Queue1!Next
<1>1. Queue1!TickCount
  BY SameOperators DEF Queue1!TickCount, Queue1!KeepsRunning
<1> QED
  BY <1>1 DEF Queue1!Next, Queue1!Tick

LEMMA TickSwitchIsAStep ==
  ASSUME ~IsIdle(rq[bsp]), ~rq[bsp].load,
         NEW t, t = Current(rq[bsp]),
         NEW r, r = Switched(rq[bsp]),
         NEW next, next = Current(r),
         ~(Highest(rq[bsp]) >= rq[bsp].current /\ QueueQuantum[t] > 0),
         rq'[bsp] = r,
         QueueQuantum' = [QueueQuantum EXCEPT ![t] = Quantum],
         QueueCtx' = [QueueCtx EXCEPT ![t] = QueueFrame],
         IF next # t THEN fs'[bsp] = next /\ QueueFrame' = QueueCtx[next]
                     ELSE UNCHANGED <<fs[bsp], QueueFrame>>,
         UNCHANGED QueueState
  PROVE  Queue1!Next
<1>1. /\ Queue1!IsIdle(rq[bsp]) = IsIdle(rq[bsp])
      /\ Queue1!Highest(rq[bsp]) = Highest(rq[bsp])
      /\ Queue1!Current(rq[bsp]) = t
      /\ Queue1!Switched(rq[bsp]) = r /\ Queue1!Current(r) = next
  BY SameOperators
<1>2. ~Queue1!KeepsRunning
  BY <1>1 DEF Queue1!KeepsRunning
<1>3. Queue1!TickSwitch
  BY <1>1, <1>2 DEF Queue1!TickSwitch
<1> QED
  BY <1>3 DEF Queue1!Next, Queue1!Tick
-----------------------------------------------------------------------------
(* resume_thread gives the thread its quantum before it queues it. *)
QuantumInv ==
  pc[bsp] = "cpu" /\ op[bsp].kind = "resume" => quantum[op[bsp].thread] = Quantum

UniInv == SchedInv /\ QuantumInv

(* With one CPU every task is run in place. *)
LEMMA NoOtherCpu ==
  ASSUME OneCpu, SchedInv
  PROVE  /\ bsp \in Cpu /\ bsp # NULL
         /\ \A c \in Cpu : c = bsp
         /\ pc[bsp] # "wait" /\ ~ipi[bsp]
         /\ ~SendTask(bsp) /\ ~TaskInterrupt(bsp)
<1>1. bsp \in Cpu /\ bsp # NULL /\ \A c \in Cpu : c = bsp
  BY SchedulerAssumption DEF OneCpu
<1>2. pc[bsp] \in Holding => op[bsp].target = bsp
  BY <1>1 DEF SchedInv, OpInv
<1>3. pc[bsp] # "wait"
  BY <1>1, <1>2 DEF SchedInv, CallInv, Holding
<1>4. ~ipi[bsp]
  BY <1>1, <1>3 DEF SchedInv, IpiInv
<1> QED
  BY <1>1, <1>2, <1>3, <1>4 DEF SendTask, TaskInterrupt, Holding

LEMMA GoKeeps ==
  ASSUME OneCpu, UniInv, Resume(bsp) \/ Deactivate(bsp) PROVE QuantumInv'
<1> USE DEF UniInv
<1>0. bsp \in Cpu
  BY NoOtherCpu
<1>1. PICK target : GoTo(bsp, target)
  BY DEF Resume, Deactivate
<1>2. op'[bsp].kind = op[bsp].kind /\ op'[bsp].thread = op[bsp].thread
  BY <1>0, <1>1 DEF GoTo, SchedInv, TypeOK
<1>3. pc[bsp] = "inactive"
  BY DEF Resume, Deactivate, Entered
<1>4. op[bsp].kind = "resume" => quantum'[op[bsp].thread] = Quantum
  <2>1. op[bsp].thread \in Thread
    BY <1>0, <1>3 DEF SchedInv, OpInv
  <2> QED
    BY <2>1 DEF Resume, Deactivate, Entered, SchedInv, TypeOK
<1> QED
  BY <1>2, <1>4 DEF QuantumInv

(* No other step brings a call to the point where it uses a CPU. *)
LEMMA NotAtCpu ==
  ASSUME OneCpu, UniInv, NEW c \in Cpu,
         \/ \E t \in Thread :
              \/ attach_thread(c, t) \/ detach_thread(c, t)
              \/ \E kind \in {"resume", "pause", "stop"} : Request(c, kind, t)
              \/ LockedResume(c, t) \/ TimerWithProc(c, t)
         \/ pause_this_thread(c)
         \/ AcquireUser(c) \/ AcquireAll(c) \/ Attach(c) \/ Detach(c)
         \/ Refuse(c) \/ StopPaused(c) \/ LocalTask(c) \/ Complete(c) \/ CompleteSelf(c)
         \/ do_self_halt_task(c) \/ UnlockInactive(c) \/ UnlockUser(c)
  PROVE  pc'[bsp] # "cpu"
<1>1. c = bsp /\ pc \in [Cpu -> PC]
  BY NoOtherCpu DEF UniInv, SchedInv, TypeOK
<1>2. PICK p \in {"user", "all", "inactive", "run", "done", "halt", "unlock_inactive",
                 "unlock_user"} :
        pc' = [pc EXCEPT ![c] = p]
  BY DEF attach_thread, detach_thread, Request, LockedResume, TimerWithProc,
         pause_this_thread, Begin, AcquireUser, AcquireAll, Attach, Detach, Refuse,
         StopPaused, LocalTask, Complete, Return, CompleteSelf, do_self_halt_task,
         UnlockInactive, UnlockUser
<1> QED
  BY <1>1, <1>2

LEMMA UniStep ==
  ASSUME OneCpu
  PROVE  UniInv /\ [Next]_vars => UniInv'
<1> SUFFICES ASSUME UniInv, [Next]_vars PROVE QuantumInv'
  BY Inductive DEF UniInv
<1>1. CASE UNCHANGED vars
  BY <1>1 DEF vars, UniInv, QuantumInv
<1>2. CASE pc'[bsp] # "cpu"
  BY <1>2 DEF QuantumInv
<1>3. CASE Timer(bsp) \/ \E t \in Thread : set_thread_context(bsp, t)
  <2>1. pc[bsp] = "run" /\ pc' = pc
    BY <1>3 DEF Timer, set_thread_context, CanCall
  <2> QED
    BY <2>1 DEF QuantumInv
<1>4. PICK c \in Cpu :
        \/ \E t \in Thread :
             \/ set_thread_context(c, t) \/ attach_thread(c, t)
             \/ detach_thread(c, t)
             \/ \E kind \in {"resume", "pause", "stop"} : Request(c, kind, t)
             \/ LockedResume(c, t) \/ TimerWithProc(c, t)
        \/ pause_this_thread(c)
        \/ CallStep(c) \/ TaskInterrupt(c) \/ Timer(c)
        \/ UNCHANGED vars
  BY NoOtherCpu DEF UniInv, Next
<1>5. c = bsp
  BY NoOtherCpu DEF UniInv
<1> QED
  BY <1>1, <1>2, <1>3, <1>4, <1>5, NotAtCpu, GoKeeps, NoOtherCpu DEF CallStep, UniInv

LEMMA UniInvariant ==
  ASSUME OneCpu
  PROVE  Spec => []UniInv
<1>1. Init => UniInv
  BY Initially, NoOtherCpu DEF UniInv, QuantumInv, Init
<1> QED
  BY <1>1, UniStep, PTL DEF Spec
-----------------------------------------------------------------------------
(* The mapping, outside of the last steps of a pause *)
Attached(a, s) == [t \in Thread |-> IF t \in a THEN s[t] ELSE "detached"]

QuantumOf(k, q) == [t \in Thread |-> IF t \in Members(k) THEN q[t] ELSE 0]

LEMMA Mapping ==
  /\ QueueQuantum = QuantumOf(rq[bsp], quantum)
  /\ pc[bsp] \notin {"done", "halt"} =>
       QueueState = Attached(all, state) /\ QueueFrame = frame[bsp] /\ QueueCtx = ctx
<1>1. QueueQuantum = QuantumOf(rq[bsp], quantum)
  BY DEF QueueQuantum, QuantumOf
<1>2. ASSUME pc[bsp] \notin {"done", "halt"}
      PROVE  QueueState = Attached(all, state) /\ QueueFrame = frame[bsp] /\ QueueCtx = ctx
  <2>1. QueueFrame = frame[bsp] /\ QueueCtx = ctx
    BY <1>2 DEF QueueFrame, QueueCtx, SelfHalting
  <2>2. ASSUME NEW t PROVE StateOf(t) = IF t \in all THEN state[t] ELSE "detached"
    <3>1. ~Deactivated(t)
      BY <1>2 DEF Deactivated
    <3> QED
      BY <3>1 DEF StateOf
  <2>3. QueueState = Attached(all, state)
    BY <2>2 DEF QueueState, Attached
  <2> QED
    BY <2>1, <2>3
<1> QED
  BY <1>1, <1>2

LEMMA MappingNext ==
  /\ QueueQuantum' = QuantumOf(rq'[bsp], quantum')
  /\ pc'[bsp] \notin {"done", "halt"} =>
       QueueState' = Attached(all', state') /\ QueueFrame' = frame'[bsp] /\ QueueCtx' = ctx'
<1>1. QueueQuantum' = QuantumOf(rq'[bsp], quantum')
  BY DEF QueueQuantum, QuantumOf
<1>2. ASSUME pc'[bsp] \notin {"done", "halt"}
      PROVE  QueueState' = Attached(all', state') /\ QueueFrame' = frame'[bsp] /\ QueueCtx' = ctx'
  <2>1. QueueFrame' = frame'[bsp] /\ QueueCtx' = ctx'
    BY <1>2 DEF QueueFrame, QueueCtx, SelfHalting
  <2>2. ASSUME NEW t PROVE StateOf(t)' = IF t \in all' THEN state'[t] ELSE "detached"
    <3>1. ~Deactivated(t)'
      BY <1>2 DEF Deactivated
    <3> QED
      BY <3>1 DEF StateOf
  <2>3. QueueState' = Attached(all', state')
    BY <2>2 DEF QueueState, Attached
  <2> QED
    BY <2>1, <2>3
<1> QED
  BY <1>1, <1>2

Same == UNCHANGED <<rq[bsp], QueueState, QueueQuantum, fs[bsp], QueueFrame, QueueCtx>>

(* What the queues do not see of a call *)
LEMMA QuietStep ==
  ASSUME OneCpu, SchedInv, pc[bsp] \notin {"done", "halt"}, pc'[bsp] \notin {"done", "halt"},
         UNCHANGED <<all, rq, fs, frame, ctx>>,
         \A t \in all : state'[t] = state[t],
         \A t \in Members(rq[bsp]) : quantum'[t] = quantum[t]
  PROVE  Same
<1>1. Attached(all', state') = Attached(all, state)
  BY DEF Attached
<1>2. QuantumOf(rq'[bsp], quantum') = QuantumOf(rq[bsp], quantum)
  BY DEF QuantumOf
<1> QED
  BY <1>1, <1>2, Mapping, MappingNext DEF Same

Quiet ==
  \/ \E t \in Thread : \/ attach_thread(bsp, t) \/ detach_thread(bsp, t)
                       \/ \E kind \in {"resume", "pause", "stop"} : Request(bsp, kind, t)
                       \/ LockedResume(bsp, t)
  \/ pause_this_thread(bsp) \/ AcquireUser(bsp) \/ AcquireAll(bsp)
  \/ Refuse(bsp) \/ Resume(bsp) \/ Deactivate(bsp)
  \/ UnlockInactive(bsp) \/ UnlockUser(bsp)

LEMMA QuietActions ==
  ASSUME OneCpu, SchedInv, Quiet PROVE Same
<1>0. bsp \in Cpu /\ pc \in [Cpu -> PC]
  BY NoOtherCpu DEF SchedInv, TypeOK
<1>1. pc[bsp] \notin {"done", "halt"} /\ pc'[bsp] \notin {"done", "halt"}
  <2>1. CASE \E t \in Thread : \/ attach_thread(bsp, t) \/ detach_thread(bsp, t)
                               \/ \E kind \in {"resume", "pause", "stop"} : Request(bsp, kind, t)
                               \/ LockedResume(bsp, t)
    BY <1>0, <2>1 DEF attach_thread, detach_thread, Request, LockedResume, CanCall, Begin
  <2>2. CASE pause_this_thread(bsp) \/ AcquireUser(bsp) \/ AcquireAll(bsp)
    BY <1>0, <2>2 DEF pause_this_thread, AcquireUser, AcquireAll, CanCall, Begin
  <2>3. CASE Refuse(bsp) \/ Resume(bsp) \/ Deactivate(bsp)
    BY <1>0, <2>3 DEF Refuse, Resume, Deactivate, Entered, Return, GoTo
  <2>4. CASE UnlockInactive(bsp) \/ UnlockUser(bsp)
    BY <1>0, <2>4 DEF UnlockInactive, UnlockUser
  <2> QED
    BY <2>1, <2>2, <2>3, <2>4 DEF Quiet
<1>2. UNCHANGED <<all, rq, fs, frame, ctx>>
  BY DEF Quiet, attach_thread, detach_thread, Request, LockedResume, pause_this_thread,
         AcquireUser, AcquireAll, Refuse, Resume, Deactivate, UnlockInactive, UnlockUser,
         lists, threads, cpus
<1>3. \A t \in all : state'[t] = state[t]
  <2>1. ASSUME NEW t \in Thread, attach_thread(bsp, t) PROVE \A u \in all : state'[u] = state[u]
    BY <2>1 DEF attach_thread, SchedInv, TypeOK
  <2>2. (\E t \in Thread : attach_thread(bsp, t)) \/ state' = state
    BY DEF Quiet, detach_thread, Request, LockedResume, pause_this_thread,
           AcquireUser, AcquireAll, Refuse, Resume, Deactivate, UnlockInactive, UnlockUser,
           threads
  <2> QED
    BY <2>1, <2>2
<1>4. \A t \in Members(rq[bsp]) : quantum'[t] = quantum[t]
  <2>1. CASE Resume(bsp)
    <3>1. state[op[bsp].thread] = "paused"
      BY <2>1 DEF Resume
    <3>2. op[bsp].thread \notin Members(rq[bsp]) /\ Members(rq[bsp]) \subseteq Thread
      BY <1>0, <3>1, MembersFacts DEF SchedInv, PlaceInv, TypeOK
    <3> QED
      BY <2>1, <3>2 DEF Resume, SchedInv, TypeOK
  <2>2. CASE ~Resume(bsp)
    <3>1. quantum' = quantum
      BY <2>2 DEF Quiet, attach_thread, detach_thread, Request, LockedResume,
         pause_this_thread, AcquireUser, AcquireAll, Refuse, Deactivate,
         UnlockInactive, UnlockUser, threads
    <3> QED
      BY <3>1
  <2> QED
    BY <2>1, <2>2
<1> QED
  BY <1>1, <1>2, <1>3, <1>4, QuietStep

LEMMA SetContextAction ==
  ASSUME OneCpu, SchedInv, NEW t \in Thread, set_thread_context(bsp, t)
  PROVE  Queue1!Next
<1>1. /\ pc[bsp] = "run" /\ pc' = pc /\ t \notin all
      /\ ctx' = [ctx EXCEPT ![t] = t]
      /\ UNCHANGED <<all, state, quantum, rq, fs, frame>>
  BY DEF set_thread_context, CanCall, lists, cpus
<1>2. /\ QueueCtx = ctx /\ QueueCtx' = ctx'
      /\ UNCHANGED <<rq[bsp], QueueState, QueueQuantum, fs[bsp], QueueFrame>>
  BY <1>1, Mapping, MappingNext
<1>3. QueueState[t] = "detached"
  BY <1>1, Mapping DEF Attached
<1> QED
  BY <1>1, <1>2, <1>3, SetContextIsAStep

(* The steps on the lists take the state of one thread further. *)
LEMMA ListSteps ==
  ASSUME OneCpu, SchedInv, Attach(bsp) \/ Detach(bsp) \/ StopPaused(bsp)
  PROVE  Same \/ Queue1!Next
<1>0. bsp \in Cpu /\ pc[bsp] = "inactive"
  BY NoOtherCpu DEF Attach, Detach, StopPaused, Entered
<1>1. /\ pc[bsp] \notin {"done", "halt"} /\ pc'[bsp] \notin {"done", "halt"}
      /\ UNCHANGED <<quantum, rq, fs, frame, ctx>>
  BY <1>0 DEF Attach, Detach, StopPaused, Entered, Return, threads, cpus, SchedInv, TypeOK
<1>2. /\ UNCHANGED <<rq[bsp], QueueQuantum, fs[bsp], QueueFrame, QueueCtx>>
      /\ QueueState = Attached(all, state) /\ QueueState' = Attached(all', state')
  BY <1>1, Mapping, MappingNext
<1>3. PICK t \in Thread : t = op[bsp].thread
  BY <1>0 DEF SchedInv, OpInv
<1>4. CASE Attach(bsp)
  <2>1. t \notin all /\ state[t] = "paused"
    BY <1>0, <1>3, <1>4 DEF Attach, Entered, SchedInv, AttachInv
  <2>2. all' = all \cup {t} /\ state' = state
    BY <1>3, <1>4 DEF Attach, threads
  <2>3. Attached(all, state)[t] = "detached"
    BY <2>1 DEF Attached
  <2>4. Attached(all', state') = [Attached(all, state) EXCEPT ![t] = "paused"]
    BY <2>1, <2>2 DEF Attached
  <2> QED
    BY <1>2, <2>3, <2>4, AttachIsAStep
<1>5. CASE Detach(bsp)
  <2>1. CASE t \in all /\ state[t] \in {"paused", "stopped"}
    <3>1. all' = all \ {t} /\ state' = state
      BY <1>3, <1>5, <2>1 DEF Detach, threads
    <3>2. Attached(all, state)[t] \in {"paused", "stopped"}
      BY <2>1 DEF Attached
    <3>3. Attached(all', state') = [Attached(all, state) EXCEPT ![t] = "detached"]
      BY <3>1 DEF Attached
    <3> QED
      BY <1>2, <3>2, <3>3, DetachIsAStep
  <2>2. CASE ~(t \in all /\ state[t] \in {"paused", "stopped"})
    <3>1. all' = all /\ state' = state
      BY <1>3, <1>5, <2>2 DEF Detach, threads
    <3> QED
      BY <1>2, <3>1 DEF Same
  <2> QED
    BY <2>1, <2>2
<1>6. CASE StopPaused(bsp)
  <2>1. t \in all /\ state[t] = "paused" /\ all' = all /\ state' = [state EXCEPT ![t] = "stopped"]
    BY <1>3, <1>6 DEF StopPaused, lists
  <2>2. Attached(all, state)[t] = "paused"
    BY <2>1 DEF Attached
  <2>3. Attached(all', state') = [Attached(all, state) EXCEPT ![t] = "stopped"]
    BY <2>1 DEF Attached, SchedInv, TypeOK
  <2> QED
    BY <1>2, <2>2, <2>3, StopIsAStep
<1> QED
  BY <1>4, <1>5, <1>6

(* A timer interrupt is a tick, or finds no thread. *)
LEMMA TickSteps ==
  ASSUME OneCpu, SchedInv, pc[bsp] = "run", pc'[bsp] \notin {"done", "halt"}, Tick(bsp),
         UNCHANGED <<all, state>>
  PROVE  Same \/ Queue1!Next
<1> USE DEF SchedInv
<1>0. /\ bsp \in Cpu
      /\ QueueState = Attached(all, state) /\ UNCHANGED QueueState
      /\ QueueFrame = frame[bsp] /\ QueueFrame' = frame'[bsp]
      /\ QueueCtx = ctx /\ QueueCtx' = ctx'
      /\ QueueQuantum = QuantumOf(rq[bsp], quantum)
      /\ QueueQuantum' = QuantumOf(rq'[bsp], quantum')
  BY NoOtherCpu, Mapping, MappingNext
<1>1. CASE IsIdle(rq[bsp])
  <2>1. UNCHANGED <<rq, fs, frame, quantum, ctx>>
    BY <1>1 DEF Tick
  <2> QED
    BY <1>0, <2>1 DEF Same
<1>2. CASE ~IsIdle(rq[bsp])
  <2>1. WellFormed(rq[bsp])
    BY <1>0 DEF FrameInv
  <2>2. PICK t \in Thread : t = Current(rq[bsp]) /\ t \in Members(rq[bsp])
    <3>1. Members(rq[bsp]) \subseteq Thread
      BY <1>0, MembersFacts DEF TypeOK
    <3> QED
      BY <1>2, <2>1, <3>1, WellFormedFacts
  <2>3. QueueQuantum[t] = quantum[t]
    BY <1>0, <2>2 DEF QuantumOf
  <2>4. CASE TickLoad(bsp)
    <3>1. PICK r : r = [rq[bsp] EXCEPT !.load = FALSE]
      OBVIOUS
    <3>2. Members(r) = Members(rq[bsp])
      BY <2>1, <3>1, LoadedFacts
    <3>3. /\ rq[bsp].load /\ rq' = [rq EXCEPT ![bsp] = r]
          /\ frame' = [frame EXCEPT ![bsp] = ctx[t]]
          /\ fs' = [fs EXCEPT ![bsp] = t]
          /\ quantum' = quantum /\ ctx' = ctx
      BY <2>2, <2>4, <3>1 DEF TickLoad, TypeOK
    <3>4. rq'[bsp] = r /\ frame'[bsp] = ctx[t] /\ fs'[bsp] = t
      BY <1>0, <3>3 DEF TypeOK
    <3>5. QuantumOf(rq'[bsp], quantum') = QuantumOf(rq[bsp], quantum)
      BY <3>2, <3>3, <3>4 DEF QuantumOf
    <3> QED
      BY <1>0, <1>2, <2>2, <3>1, <3>3, <3>4, <3>5, TickLoadIsAStep
  <2>5. CASE /\ TickRun(bsp)
             /\ Highest(rq[bsp]) >= rq[bsp].current /\ quantum[t] > 0
    <3>1. /\ ~rq[bsp].load /\ quantum' = [quantum EXCEPT ![t] = @ - 1]
          /\ UNCHANGED <<rq, fs, frame, ctx>>
      BY <2>2, <2>5 DEF TickRun
    <3>2. QueueQuantum' = [QueueQuantum EXCEPT ![t] = @ - 1]
      BY <1>0, <2>2, <3>1 DEF QuantumOf, TypeOK
    <3> QED
      BY <1>0, <1>2, <2>2, <2>3, <2>5, <3>1, <3>2, TickCountIsAStep
  <2>6. CASE /\ TickRun(bsp)
             /\ ~(Highest(rq[bsp]) >= rq[bsp].current /\ quantum[t] > 0)
    <3>1. PICK r : r = Switched(rq[bsp])
      OBVIOUS
    <3>2. Members(r) = Members(rq[bsp])
      BY <1>2, <2>1, <3>1, SwitchedFacts
    <3>3. PICK next : next = Current(r)
      OBVIOUS
    <3>4. /\ ~rq[bsp].load /\ quantum' = [quantum EXCEPT ![t] = Quantum]
          /\ rq' = [rq EXCEPT ![bsp] = r]
          /\ ctx' = [ctx EXCEPT ![t] = frame[bsp]]
          /\ next = t => UNCHANGED <<fs, frame>>
          /\ next # t => /\ fs' = [fs EXCEPT ![bsp] = next]
                         /\ frame' = [frame EXCEPT ![bsp] = ctx[next]]
      BY <2>2, <2>6, <3>1, <3>3 DEF TickRun
    <3>5. rq'[bsp] = r
      BY <1>0, <3>4 DEF TypeOK
    <3>6. QueueQuantum' = [QueueQuantum EXCEPT ![t] = Quantum]
      BY <1>0, <2>2, <3>2, <3>4, <3>5 DEF QuantumOf, TypeOK
    <3>7. IF next # t THEN fs'[bsp] = next /\ QueueFrame' = QueueCtx[next]
                      ELSE UNCHANGED <<fs[bsp], QueueFrame>>
      BY <1>0, <3>4 DEF TypeOK
    <3>8. /\ ~(Highest(rq[bsp]) >= rq[bsp].current /\ QueueQuantum[t] > 0)
          /\ QueueCtx' = [QueueCtx EXCEPT ![t] = QueueFrame]
          /\ UNCHANGED QueueState
      BY <1>0, <2>3, <2>6, <3>4
    <3> QED
      BY <1>2, <2>2, <3>1, <3>3, <3>4, <3>5, <3>6, <3>7, <3>8, TickSwitchIsAStep
  <2> QED
    BY <1>2, <2>4, <2>5, <2>6 DEF Tick
<1> QED
  BY <1>1, <1>2

LEMMA TimerActions ==
  ASSUME OneCpu, SchedInv, Timer(bsp) \/ \E t \in Thread : TimerWithProc(bsp, t)
  PROVE  Same \/ Queue1!Next
<1>1. /\ pc[bsp] = "run" /\ pc'[bsp] \notin {"done", "halt"} /\ Tick(bsp)
      /\ UNCHANGED <<all, state>>
  BY NoOtherCpu DEF Timer, TimerWithProc, Begin, lists, SchedInv, TypeOK
<1> QED
  BY <1>1, TickSteps
-----------------------------------------------------------------------------
(* The task handlers, called in place *)
LEMMA ResumeTaskStep ==
  ASSUME OneCpu, UniInv, LocalTask(bsp), op[bsp].kind = "resume"
  PROVE  Queue1!Next
<1> USE DEF UniInv, SchedInv
<1>0. bsp \in Cpu /\ pc[bsp] = "cpu" /\ op[bsp].target = bsp
  BY NoOtherCpu DEF LocalTask
<1>1. Runner(bsp, bsp)
  BY <1>0 DEF Runner, Pending
<1>2. PICK t \in Thread : t = op[bsp].thread /\ t \in all
  BY <1>0, <1>1, RunnerFacts
<1>3. state[t] = "paused" /\ quantum[t] = Quantum
  <2>1. PendingOK(bsp)
    BY <1>0, <1>1, RunnerFacts
  <2> QED
    BY <1>0, <1>2, <2>1 DEF PendingOK, QuantumInv
<1>4. t \notin Members(rq[bsp]) /\ WellFormed(rq[bsp])
  BY <1>0, <1>3 DEF PlaceInv, FrameInv
<1>5. PICK k : k = TaskOf(op[bsp])
  OBVIOUS
<1>6. k.type = "resume" /\ k.thread = t
  <2>1. k = [type |-> "resume", error |-> "none", thread |-> t,
             lock |-> op[bsp].user /\ op[bsp].kind = "pause"]
    BY <1>2, <1>5 DEF TaskOf
  <2> QED
    BY <2>1
<1>7. do_resume_task(bsp, t, k)
  <2>1. RunTask(bsp, TaskOf(op[bsp]), FALSE)
    BY DEF LocalTask
  <2> QED
    BY <1>5, <1>6, <2>1 DEF RunTask
<1>8. PICK r : r = Resumed(rq[bsp], t)
  OBVIOUS
<1>9. Members(r) = Members(rq[bsp]) \cup {t}
  BY <1>4, <1>8, ResumedFacts
<1>10. /\ state' = [state EXCEPT ![t] = "running"]
       /\ rq'[bsp] = r /\ UNCHANGED <<ctx, fs, frame>>
       /\ task'[bsp].type = "resume"
  <2>1. PICK j : j = [k EXCEPT !.error = "none"]
    OBVIOUS
  <2>2. j.type = "resume"
    <3>1. k = [type |-> "resume", error |-> "none", thread |-> t,
               lock |-> op[bsp].user /\ op[bsp].kind = "pause"]
      BY <1>2, <1>5 DEF TaskOf
    <3> QED
      BY <2>1, <3>1
  <2> QED
    BY <1>0, <1>7, <1>8, <2>1, <2>2 DEF do_resume_task, TypeOK
<1>11. pc'[bsp] = "done" /\ UNCHANGED <<all, op, quantum>>
  BY <1>0 DEF LocalTask, lists, TypeOK
<1>12. QueueFrame' = frame'[bsp] /\ QueueCtx' = ctx'
  BY <1>10 DEF QueueFrame, QueueCtx, SelfHalting
<1>13. QueueState' = Attached(all', state')
  <2>1. ASSUME NEW u PROVE StateOf(u)' = IF u \in all' THEN state'[u] ELSE "detached"
    <3>1. ~Deactivated(u)'
      BY <1>11 DEF Deactivated
    <3> QED
      BY <3>1 DEF StateOf
  <2> QED
    BY <2>1 DEF QueueState, Attached
<1>14. /\ QueueState[t] = "paused"
       /\ QueueState' = [QueueState EXCEPT ![t] = "running"]
  <2>1. QueueState = Attached(all, state)
    BY <1>0, Mapping
  <2> QED
    BY <1>2, <1>3, <1>10, <1>11, <1>13, <2>1 DEF Attached, TypeOK
<1>15. QueueQuantum' = [QueueQuantum EXCEPT ![t] = Quantum]
  BY <1>3, <1>9, <1>10, <1>11, Mapping, MappingNext DEF QuantumOf, TypeOK
<1>16. UNCHANGED <<fs[bsp], QueueFrame, QueueCtx>>
  BY <1>0, <1>10, <1>12, Mapping
<1> QED
  BY <1>8, <1>10, <1>14, <1>15, <1>16, ResumeIsAStep

LEMMA PauseTaskStep ==
  ASSUME OneCpu, UniInv, LocalTask(bsp), op[bsp].kind # "resume"
  PROVE  Queue1!Next
<1> USE DEF UniInv, SchedInv
<1>0. bsp \in Cpu /\ pc[bsp] = "cpu" /\ op[bsp].target = bsp
  BY NoOtherCpu DEF LocalTask
<1>1. Runner(bsp, bsp)
  BY <1>0 DEF Runner, Pending
<1>2. PICK t \in Thread : t = op[bsp].thread /\ t \in all
  BY <1>0, <1>1, RunnerFacts
<1>3. op[bsp].kind \in {"pause", "stop"}
  <2>1. op[bsp].kind \notin {"none", "attach", "detach"}
    BY <1>0, <1>1, RunnerFacts
  <2> QED
    BY <1>0, <2>1 DEF TypeOK, Kind
<1>4. /\ t \in Members(rq[bsp]) /\ WellFormed(rq[bsp])
      /\ state[t] = "running" /\ cpu[t] = bsp
  <2>1. PendingOK(bsp)
    BY <1>0, <1>1, RunnerFacts
  <2>2. t \in Members(rq[bsp])
    BY <1>0, <1>2, <2>1 DEF PendingOK
  <2> QED
    BY <1>0, <2>2 DEF PlaceInv, FrameInv
<1>5. PICK k : k = TaskOf(op[bsp])
  OBVIOUS
<1>6. PICK b : k = [type |-> "pause", error |-> "none", thread |-> t, lock |-> b]
  BY <1>2, <1>5 DEF TaskOf
<1>7. do_pause_task(bsp, t, k, FALSE)
  <2>1. RunTask(bsp, TaskOf(op[bsp]), FALSE)
    BY DEF LocalTask
  <2>2. k.type = "pause" /\ k.thread = t
    BY <1>6
  <2> QED
    BY <1>5, <2>1, <2>2 DEF RunTask
<1>8. PICK r : r = Paused(rq[bsp], t)
  OBVIOUS
<1>9. Members(r) = Members(rq[bsp]) \ {t}
  BY <1>4, <1>8, PausedFacts
<1>10. PICK j : j = [k EXCEPT !.error = "none",
                             !.type = IF IsCurrent(rq[bsp], t) THEN "self_halt" ELSE @]
  OBVIOUS
<1>11. /\ j.thread = t
       /\ j.type = IF IsCurrent(rq[bsp], t) THEN "self_halt" ELSE "pause"
  BY <1>6, <1>10
<1>12. /\ rq' = [rq EXCEPT ![bsp] = r]
       /\ fs' = IF IsCurrent(rq[bsp], t) THEN [fs EXCEPT ![bsp] = NULL] ELSE fs
       /\ UNCHANGED <<ctx, frame, state>>
       /\ task' = [task EXCEPT ![bsp] = j]
  BY <1>4, <1>7, <1>8, <1>10 DEF do_pause_task
<1>13. rq'[bsp] = r /\ task'[bsp] = j
  BY <1>0, <1>12 DEF TypeOK
<1>14. pc'[bsp] = "done" /\ UNCHANGED <<all, op, quantum>>
  BY <1>0 DEF LocalTask, lists, TypeOK
<1>15. PICK to \in {"paused", "stopped"} :
         to = IF op[bsp].kind = "stop" THEN "stopped" ELSE "paused"
  OBVIOUS
<1>16. /\ QueueState[t] = "running"
       /\ QueueState' = [QueueState EXCEPT ![t] = to]
  <2>1. QueueState = Attached(all, state)
    BY <1>0, Mapping
  <2>2. ASSUME NEW u \in Thread
        PROVE  StateOf(u)' = IF u = t THEN to ELSE IF u \in all THEN state[u] ELSE "detached"
    <3>1. Deactivated(u)' <=> u = t
      BY <1>2, <1>3, <1>14 DEF Deactivated
    <3> QED
      BY <1>2, <1>12, <1>14, <1>15, <3>1 DEF StateOf
  <2>3. QueueState' = [u \in Thread |-> IF u = t THEN to
                                        ELSE IF u \in all THEN state[u] ELSE "detached"]
    BY <2>2 DEF QueueState
  <2> QED
    BY <1>2, <1>4, <2>1, <2>3 DEF Attached
<1>17. QueueQuantum' = [QueueQuantum EXCEPT ![t] = 0]
  BY <1>9, <1>13, <1>14, Mapping, MappingNext DEF QuantumOf
<1>18. QueueFrame = frame[bsp] /\ QueueCtx = ctx
  BY <1>0, Mapping
<1>19. IF IsCurrent(rq[bsp], t)
       THEN /\ fs'[bsp] = NULL /\ QueueFrame' = NULL
            /\ QueueCtx' = [QueueCtx EXCEPT ![t] = QueueFrame]
       ELSE UNCHANGED <<fs[bsp], QueueFrame, QueueCtx>>
  <2>1. CASE IsCurrent(rq[bsp], t)
    <3>1. SelfHalting'
      BY <1>11, <1>13, <1>14, <2>1 DEF SelfHalting
    <3> QED
      BY <1>0, <1>11, <1>12, <1>13, <1>18, <2>1, <3>1 DEF QueueFrame, QueueCtx, TypeOK
  <2>2. CASE ~IsCurrent(rq[bsp], t)
    <3>1. ~SelfHalting'
      BY <1>11, <1>13, <1>14, <2>2 DEF SelfHalting
    <3> QED
      BY <1>12, <1>18, <2>2, <3>1 DEF QueueFrame, QueueCtx
  <2> QED
    BY <2>1, <2>2
<1>20. rq'[bsp] = Paused(rq[bsp], t)
  BY <1>8, <1>13
<1> QED
  BY <1>16, <1>17, <1>19, <1>20, DeactivateIsAStep

(* The end of a call shows what its task has done already. *)
LEMMA CompleteSteps ==
  ASSUME OneCpu, SchedInv, Complete(bsp) \/ CompleteSelf(bsp)
  PROVE  Same
<1> USE DEF SchedInv
<1>0. bsp \in Cpu /\ Ended(bsp) /\ pc[bsp] = "done"
  BY NoOtherCpu DEF Complete, CompleteSelf, Ended
<1>1. HasRunOK(bsp) /\ op[bsp].target = bsp
  BY <1>0, EndedFacts DEF CallInv
<1>2. PICK t \in Thread : t = op[bsp].thread /\ t \in all
  BY <1>0, EndedFacts
<1>3. /\ task[bsp].error = "none"
      /\ op[bsp].kind = "resume" <=> task[bsp].type = "resume"
      /\ op[bsp].kind \notin {"none", "attach", "detach"}
  BY <1>0, <1>1, EndedFacts DEF HasRunOK
<1>4. op[bsp].kind \in {"resume", "pause", "stop"}
  BY <1>0, <1>3 DEF TypeOK, Kind
<1>5. PICK to : to = IF op[bsp].kind = "stop" THEN "stopped" ELSE "paused"
  OBVIOUS
<1>6. /\ UNCHANGED <<all, quantum, ctx, rq, fs, frame, task>>
      /\ \/ task[bsp].type # "self_halt" /\ pc'[bsp] = "run"
         \/ task[bsp].type = "self_halt" /\ pc'[bsp] = "halt"
      /\ state' = IF op[bsp].kind = "resume" THEN state ELSE [state EXCEPT ![t] = to]
  <2>1. CASE Complete(bsp)
    <3>1. task[bsp].type # "self_halt" /\ pc'[bsp] = "run"
      BY <1>0, <1>1, <2>1 DEF Complete, Return, TypeOK
    <3>2. UNCHANGED <<all, quantum, ctx, rq, fs, frame, task>>
      BY <2>1 DEF Complete, cpus, tasks
    <3>3. state' = IF op[bsp].kind = "resume" THEN state ELSE [state EXCEPT ![t] = to]
      BY <1>1, <1>2, <1>3, <1>5, <2>1 DEF Complete
    <3> QED
      BY <3>1, <3>2, <3>3
  <2>2. CASE CompleteSelf(bsp)
    <3>1. task[bsp].type = "self_halt" /\ pc'[bsp] = "halt"
      BY <1>0, <1>1, <2>2 DEF CompleteSelf, TypeOK
    <3>2. UNCHANGED <<all, quantum, ctx, rq, fs, frame, task>>
      BY <2>2 DEF CompleteSelf, cpus, tasks
    <3>3. state' = IF op[bsp].kind = "resume" THEN state ELSE [state EXCEPT ![t] = to]
      BY <1>2, <1>3, <1>5, <2>2, <3>1 DEF CompleteSelf
    <3> QED
      BY <3>1, <3>2, <3>3
  <2> QED
    BY <2>1, <2>2
<1>7. SelfHalting <=> SelfHalting'
  BY <1>0, <1>6 DEF SelfHalting
<1>8. UNCHANGED <<QueueFrame, QueueCtx, QueueQuantum, rq[bsp], fs[bsp]>>
  BY <1>6, <1>7 DEF QueueFrame, QueueCtx, QueueQuantum
<1>9. ASSUME NEW u \in Thread PROVE StateOf(u)' = StateOf(u)
  <2>1. ~Deactivated(u)'
    BY <1>6 DEF Deactivated
  <2>2. StateOf(u)' = IF u \in all THEN state'[u] ELSE "detached"
    BY <1>6, <2>1 DEF StateOf
  <2>3. CASE u = t /\ op[bsp].kind # "resume"
    <3>1. Deactivated(u)
      BY <1>0, <1>2, <1>4, <2>3 DEF Deactivated
    <3>2. StateOf(u) = to
      BY <1>2, <1>5, <2>3, <3>1 DEF StateOf
    <3>3. state'[u] = to
      BY <1>6, <2>3 DEF TypeOK
    <3> QED
      BY <1>2, <2>2, <2>3, <3>2, <3>3
  <2>4. CASE ~(u = t /\ op[bsp].kind # "resume")
    <3>1. ~Deactivated(u)
      BY <1>2, <2>4 DEF Deactivated
    <3>2. StateOf(u) = IF u \in all THEN state[u] ELSE "detached"
      BY <3>1 DEF StateOf
    <3>3. state'[u] = state[u]
      BY <1>6, <2>4 DEF TypeOK
    <3> QED
      BY <2>2, <3>2, <3>3
  <2> QED
    BY <2>3, <2>4
<1> QED
  BY <1>8, <1>9 DEF Same, QueueState

LEMMA HaltSteps ==
  ASSUME OneCpu, SchedInv, do_self_halt_task(bsp)
  PROVE  Same
<1> USE DEF SchedInv
<1>0. bsp \in Cpu /\ pc[bsp] = "halt"
  BY NoOtherCpu DEF do_self_halt_task
<1>1. SelfHalting
  BY <1>0 DEF SelfHalting, CallInv
<1>2. /\ UNCHANGED <<all, state, quantum, rq, fs>> /\ pc'[bsp] = "unlock_inactive"
      /\ ctx' = [ctx EXCEPT ![task[bsp].thread] = frame[bsp]]
      /\ frame'[bsp] = NULL
  BY <1>0 DEF do_self_halt_task, lists, TypeOK
<1>3. QueueFrame = NULL /\ QueueCtx = ctx'
  BY <1>1, <1>2 DEF QueueFrame, QueueCtx
<1>4. QueueFrame' = NULL /\ QueueCtx' = ctx' /\ QueueState' = Attached(all', state')
  BY <1>2, MappingNext
<1>5. QueueState = Attached(all, state)
  <2>1. ASSUME NEW t PROVE StateOf(t) = IF t \in all THEN state[t] ELSE "detached"
    <3>1. ~Deactivated(t)
      BY <1>0 DEF Deactivated
    <3> QED
      BY <3>1 DEF StateOf
  <2> QED
    BY <2>1 DEF QueueState, Attached
<1>6. UNCHANGED QueueQuantum
  BY <1>2 DEF QueueQuantum
<1> QED
  BY <1>2, <1>3, <1>4, <1>5, <1>6 DEF Same
-----------------------------------------------------------------------------
LEMMA StepOrStutter ==
  ASSUME OneCpu
  PROVE  UniInv /\ [Next]_vars => [Queue1!Next]_(Queue1!vars)
<1> SUFFICES ASSUME UniInv, [Next]_vars PROVE Same \/ Queue1!Next
  BY DEF Same, Queue1!vars
<1>0. SchedInv /\ \A c \in Cpu : c = bsp
  BY NoOtherCpu DEF UniInv
<1>1. CASE UNCHANGED vars
  BY <1>1 DEF vars, Same, QueueState, StateOf, Deactivated, QueueQuantum,
              QueueFrame, QueueCtx, SelfHalting
<1>2. CASE Quiet
  BY <1>0, <1>2, QuietActions
<1>3. CASE LocalTask(bsp)
  BY <1>3, ResumeTaskStep, PauseTaskStep
<1>4. CASE CallStep(bsp)
  BY <1>0, <1>2, <1>3, <1>4, NoOtherCpu, ListSteps, CompleteSteps, HaltSteps
  DEF CallStep, Quiet
<1>5. ASSUME NEW t \in Thread, set_thread_context(bsp, t) PROVE Queue1!Next
  BY <1>0, <1>5, SetContextAction
<1>6. CASE Timer(bsp) \/ \E t \in Thread : TimerWithProc(bsp, t)
  BY <1>0, <1>6, TimerActions
<1> QED
  BY <1>0, <1>1, <1>2, <1>4, <1>5, <1>6, NoOtherCpu DEF Next, Quiet

(* The steps of ImplementsCpuQueue: whatever locks a call takes and in     *)
(* however many steps it pauses its own thread, it does to the threads and *)
(* to the queue of the CPU what one operation of CpuQueue does, at once.   *)
THEOREM CallsAreAtomic ==
  ASSUME OneCpu
  PROVE  Spec => [][Queue1!Next]_(Queue1!vars)
  BY UniInvariant, StepOrStutter, PTL DEF Spec
=============================================================================
