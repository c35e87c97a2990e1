---------------------------- MODULE Uniprocessor ----------------------------
(***************************************************************************)
(* The scheduler on a machine with one CPU, bsp, where every task is run   *)
(* in place: it does what CpuQueue says, with every operation of CpuQueue  *)
(* taking effect in one step of the call that performs it.                 *)
(***************************************************************************)
EXTENDS Scheduler

CONSTANT bsp

(* What the machine is taken to be; a hypothesis of the theorems *)
OneCpu == Cpu = {bsp}

(* A thread that is pausing itself has left its queue and is about to halt *)
(* the CPU; CpuQueue has it halted already.                                *)
SelfHalting == pc[bsp] \in {"done", "halt"} /\ task[bsp].type = "self_halt"

Deactivated(t) ==
  pc[bsp] = "done" /\ op[bsp].thread = t /\ op[bsp].kind \in {"pause", "stop"}

StateOf(t) ==
  CASE t \notin all -> "detached"
    [] Deactivated(t) -> IF op[bsp].kind = "stop" THEN "stopped" ELSE "paused"
    [] OTHER -> state[t]

QueueState == [t \in Thread |-> StateOf(t)]

QueueQuantum ==
  [t \in Thread |-> IF t \in Members(rq[bsp]) THEN quantum[t] ELSE 0]

QueueFrame == IF SelfHalting THEN NULL ELSE frame[bsp]

QueueCtx ==
  IF SelfHalting THEN [ctx EXCEPT ![task[bsp].thread] = frame[bsp]] ELSE ctx

Queue1 == INSTANCE CpuQueue WITH
  rq <- rq[bsp], fs <- fs[bsp], state <- QueueState,
  quantum <- QueueQuantum, frame <- QueueFrame, ctx <- QueueCtx

(* The locks and the two-phase self-halt of schedule.c make every call     *)
(* look like one step of CpuQueue to everybody else, and the timer keeps   *)
(* its fairness: in particular nobody starves (CpuQueue's NoStarvation).   *)
(* The initial state is the one CpuQueue is in after Attach and Resume of  *)
(* kmain.                                                                  *)
ImplementsCpuQueue == Queue1!Steps
=============================================================================
