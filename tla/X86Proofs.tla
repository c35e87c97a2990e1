----------------------------- MODULE X86Proofs ------------------------------
(***************************************************************************)
(* Proofs about three parts of x86_64.  Spinlock, for every set of CPUs,   *)
(* threads and locks: mutual exclusion, the contract of acquire_spinlock   *)
(* unless an interrupt hits the window between the outer lock and cli, and *)
(* that nobody spins at a standstill.  Ahci, for every machine and every   *)
(* size of the table: what a scan of the drives leaves in the table, and   *)
(* what an enumeration returns.  PageMap, for every width of the fields    *)
(* and every size of the address space: the descriptor that page_map.c     *)
(* computes the place of is the one the processor walks to.                *)
(***************************************************************************)
EXTENDS Spinlock, Ahci, PageMap, ListProofs

(* A call under way has a lock, and one that acquires has a CPU. *)
CallOK ==
  \A a \in Agent :
    /\ pc[a] \in {"enter", "cli", "xchg", "leave"} => call[a].lock \in Lock
    /\ pc[a] \in {"enter", "cli", "xchg"} => call[a].slot \in Cpu

(* The disjuncts of Next, with the agent that CPU c executes *)
Acts(c) ==
  \/ Enter(c, exec[c]) \/ Cli(c, exec[c]) \/ Take(c, exec[c])
  \/ GiveUp(c, exec[c]) \/ Leave(c, exec[c]) \/ HaltReturn(c, exec[c])
  \/ Halt(c, exec[c]) \/ ProcBegin(c)
  \/ \E l \in Lock : Release(c, exec[c], l)
  \/ \E l \in Lock : HaltRelease(c, exec[c], l)
  \/ \E l \in Lock : Call(c, exec[c], l)
  \/ \E t \in Thread : ProcEnd(c, t)
  \/ \E t \in Thread : Timer(c, t)
  \/ \E t \in Thread : Migrate(t, c)

LEMMA NextActs == Next => Record /\ \E c \in Cpu : Acts(c)
  BY DEF Next, CodeStep, CpuStep, Step, Acts

(* The type invariant is inductive together with CallOK. *)
LEMMA TypeStep ==
  ASSUME TypeOK, CallOK, [Next]_vars
  PROVE  TypeOK' /\ CallOK'
<1>1. CASE UNCHANGED vars
  BY <1>1 DEF TypeOK, CallOK, vars, code
<1>2. ASSUME NEW c \in Cpu, Acts(c), hit' \in BOOLEAN
      PROVE  TypeOK' /\ CallOK'
  <2> DEFINE a == exec[c]
  <2>0. a \in Agent
    BY DEF TypeOK
  <2>1. CASE Enter(c, a)
    BY <1>2, <2>0, <2>1 DEF Enter, TypeOK, CallOK, PC
  <2>2. CASE Cli(c, a)
    BY <1>2, <2>0, <2>2 DEF Cli, TypeOK, CallOK, PC
  <2>3. CASE Take(c, a)
    BY <1>2, <2>0, <2>3 DEF Take, Return, NoCall, TypeOK, CallOK, PC
  <2>4. CASE GiveUp(c, a)
    BY <1>2, <2>0, <2>4 DEF GiveUp, LeaveOuter, Return, NoCall, TypeOK, CallOK, PC
  <2>5. CASE Leave(c, a)
    BY <1>2, <2>0, <2>5 DEF Leave, LeaveOuter, Return, NoCall, TypeOK, CallOK, PC
  <2>6. CASE HaltReturn(c, a)
    BY <1>2, <2>0, <2>6 DEF HaltReturn, TypeOK, CallOK, PC
  <2>7. CASE Halt(c, a)
    BY <1>2, <2>0, <2>7 DEF Halt, TypeOK, CallOK, PC
  <2>8. CASE ProcBegin(c)
    BY <1>2, <2>0, <2>8 DEF ProcBegin, TypeOK, CallOK, PC, Agent
  <2>9. ASSUME NEW l \in Lock, Release(c, a, l) PROVE TypeOK' /\ CallOK'
    BY <1>2, <2>0, <2>9 DEF Release, NoCall, TypeOK, CallOK, PC
  <2>10. ASSUME NEW l \in Lock, HaltRelease(c, a, l) PROVE TypeOK' /\ CallOK'
    BY <1>2, <2>0, <2>10 DEF HaltRelease, TypeOK, CallOK, PC
  <2>11. ASSUME NEW l \in Lock, Call(c, a, l) PROVE TypeOK' /\ CallOK'
    BY <1>2, <2>0, <2>11 DEF Call, TypeOK, CallOK, PC
  <2>12. ASSUME NEW t \in Thread, ProcEnd(c, t) PROVE TypeOK' /\ CallOK'
    <3>1. t \in Agent
      BY DEF Agent
    <3> QED
      BY <1>2, <3>1, <2>12 DEF ProcEnd, SwitchTo, TypeOK, CallOK
  <2>13. ASSUME NEW t \in Thread, Timer(c, t) PROVE TypeOK' /\ CallOK'
    <3>1. t \in Agent
      BY DEF Agent
    <3> QED
      BY <1>2, <3>1, <2>13 DEF Timer, SwitchTo, TypeOK, CallOK
  <2>14. ASSUME NEW t \in Thread, Migrate(t, c) PROVE TypeOK' /\ CallOK'
    BY <1>2, <2>0, <2>14 DEF Migrate, TypeOK, CallOK
  <2> QED
    BY <1>2, <2>1, <2>2, <2>3, <2>4, <2>5, <2>6, <2>7, <2>8, <2>9, <2>10,
       <2>11, <2>12, <2>13, <2>14 DEF Acts
<1>3. Record => hit' \in BOOLEAN
  BY DEF Record
<1> QED
  BY <1>1, <1>2, <1>3, NextActs

LEMMA TypeInit == Init => TypeOK /\ CallOK
<1> SUFFICES ASSUME Init PROVE TypeOK /\ CallOK
  OBVIOUS
<1>1. hit \in BOOLEAN
  BY DEF Init
<1>2. CallOK
  BY DEF Init, CallOK
<1> QED
  BY <1>1, <1>2 DEF Init, TypeOK, NoCall, PC, Agent

(* Every variable of Spinlock stays within its type. *)
THEOREM TypeCorrect == Spec => []TypeOK
<1>1. TypeOK /\ CallOK /\ [Next]_vars => (TypeOK /\ CallOK)'
  BY TypeStep
<1> QED
  BY TypeInit, <1>1, PTL DEF Spec
-----------------------------------------------------------------------------
(* Only Take, Release and HaltRelease touch busy and held, and they do so  *)
(* together.                                                               *)
LEMMA ExclusionStep ==
  ASSUME TypeOK, CallOK, MutualExclusion, [Next]_vars
  PROVE  MutualExclusion'
<1>1. CASE UNCHANGED <<busy, held>>
  BY <1>1 DEF MutualExclusion
<1>2. ASSUME NEW c \in Cpu, Take(c, exec[c])
      PROVE  MutualExclusion'
  BY <1>2 DEF Take, TypeOK, CallOK, MutualExclusion
<1>3. ASSUME NEW c \in Cpu, NEW l \in Lock,
             Release(c, exec[c], l) \/ HaltRelease(c, exec[c], l)
      PROVE  MutualExclusion'
  <2>1. /\ l \in held[exec[c]]
        /\ busy' = [busy EXCEPT ![l] = FALSE]
        /\ held' = [held EXCEPT ![exec[c]] = @ \ {l}]
    BY <1>3 DEF Release, HaltRelease, Innermost
  <2> QED
    BY <2>1 DEF TypeOK, MutualExclusion
<1>4. ASSUME NEW c \in Cpu, Acts(c)
      PROVE  MutualExclusion'
  <2>1. \/ Take(c, exec[c]) \/ UNCHANGED <<busy, held>>
        \/ \E l \in Lock : Release(c, exec[c], l) \/ HaltRelease(c, exec[c], l)
    BY <1>4 DEF Acts, Enter, Cli, GiveUp, Leave, HaltReturn, Halt, ProcBegin,
                Call, ProcEnd, Timer, Migrate
  <2> QED
    BY <1>1, <1>2, <1>3, <2>1
<1>5. CASE UNCHANGED vars
  BY <1>1, <1>5 DEF vars, code
<1> QED
  BY <1>4, <1>5, NextActs

(* A spinlock has one holder at a time, and busy says so, for any number   *)
(* of CPUs, threads and locks and wherever the timer interrupt arrives.    *)
THEOREM Exclusion == Spec => []MutualExclusion
<1>1. Init => MutualExclusion
  BY DEF Init, MutualExclusion
<1>2. /\ TypeOK /\ CallOK /\ MutualExclusion /\ [Next]_vars
      => (TypeOK /\ CallOK /\ MutualExclusion)'
  BY TypeStep, ExclusionStep
<1> QED
  BY TypeInit, <1>1, <1>2, PTL DEF Spec
-----------------------------------------------------------------------------
(* The contract.  What a CPU executes, with the outer lock and the         *)
(* interrupt flag that go with the place in the code:                      *)
(*   - an acquiring agent wants a lock that callers nest in all the ones   *)
(*     it holds, and a releasing one has let go of its own;                *)
(*   - a timer procedure has the pretended outer lock and no interrupts;   *)
(*   - a thread's outer lock is the one the others it holds are nested in, *)
(*     or the one it is about to take or has just released, and interrupts *)
(*     are disabled unless there is none or cli is still to come.          *)
Args(c, a) ==
  /\ pc[a] \in {"enter", "cli", "xchg"} => call[a].slot = c
  /\ pc[a] \in {"enter", "cli", "xchg"} =>
       \A k \in held[a] : <<k, call[a].lock>> \in Nested
  /\ pc[a] = "leave" => call[a].lock \notin held[a]

ProcOK(c) == outer[c] = ISR /\ ~int_on[c] /\ pc[c] \notin {"cli", "halt"}

ThreadOK(c, a) ==
  /\ pc[a] = "halt" => outer[c] = NULL /\ ~int_on[c]
  /\ pc[a] = "cli" => held[a] = {} /\ outer[c] = call[a].lock
  /\ pc[a] \notin {"halt", "cli"} /\ held[a] # {} =>
       /\ ~int_on[c] /\ outer[c] \in held[a]
       /\ \A k \in held[a] \ {outer[c]} : <<outer[c], k>> \in Nested
  /\ pc[a] \in {"xchg", "leave"} /\ held[a] = {} =>
       ~int_on[c] /\ outer[c] = call[a].lock
  /\ pc[a] \in {"out", "enter"} /\ held[a] = {} =>
       int_on[c] /\ outer[c] = NULL

CpuOK(c) ==
  /\ exec[c] \in Thread => home[exec[c]] = c /\ ThreadOK(c, exec[c])
  /\ exec[c] \in Cpu => exec[c] = c /\ ProcOK(c)
  /\ Args(c, exec[c])

(* An agent that no CPU executes is in no call and holds nothing. *)
RestsOK ==
  \A a \in Agent :
    (\A c \in Cpu : exec[c] # a) => pc[a] = "out" /\ held[a] = {}

Contract == RestsOK /\ \A c \in Cpu : CpuOK(c)

(* No lock is nested in itself, nor in one that is nested in it. *)
LEMMA NestedFacts ==
  ASSUME NEW k, NEW l, <<k, l>> \in Nested
  PROVE  k # l /\ <<l, k>> \notin Nested
  BY DEF Nested

(* Different CPUs execute different agents. *)
LEMMA Separate ==
  ASSUME TypeOK, Contract, NEW c \in Cpu, NEW d \in Cpu, exec[c] = exec[d]
  PROVE  c = d
  BY DEF TypeOK, Contract, CpuOK, Agent

(* A step of the agent of one CPU that leaves exec and home alone.         *)
LEMMA LocalStep ==
  ASSUME TypeOK, Contract, NEW c \in Cpu, NEW a, a = exec[c],
         UNCHANGED <<exec, home>>,
         \A d \in Cpu \ {c} : outer'[d] = outer[d] /\ int_on'[d] = int_on[d],
         \A b \in Agent \ {a} : /\ pc'[b] = pc[b] /\ call'[b] = call[b]
                                /\ held'[b] = held[b],
         CpuOK(c)'
  PROVE  Contract'
<1>1. ASSUME NEW d \in Cpu, d # c PROVE CpuOK(d)'
  <2>1. exec[d] \in Agent \ {a}
    BY <1>1, Separate DEF TypeOK
  <2>2. CpuOK(d)
    BY DEF Contract
  <2>3. d # c /\ (exec[d] \in Cpu => d \in Agent \ {a})
    BY <1>1, <2>1, <2>2 DEF CpuOK
  <2> QED
    BY <1>1, <2>1, <2>2, <2>3 DEF CpuOK, ThreadOK, ProcOK, Args
<1>2. RestsOK'
  BY DEF Contract, RestsOK, Agent
<1> QED
  BY <1>1, <1>2 DEF Contract

(* A step of the timer interrupt of one CPU, which then executes b: what   *)
(* it executed before was in no call and held nothing.                     *)
LEMMA SwitchStep ==
  ASSUME TypeOK, Contract, NEW c \in Cpu, NEW b \in Agent,
         exec' = [exec EXCEPT ![c] = b],
         UNCHANGED <<home, pc, call, held>>,
         \A d \in Cpu \ {c} : outer'[d] = outer[d] /\ int_on'[d] = int_on[d],
         pc[exec[c]] = "out" /\ held[exec[c]] = {},
         CpuOK(c)'
  PROVE  Contract'
<1>1. ASSUME NEW d \in Cpu, d # c PROVE CpuOK(d)'
  <2>1. exec'[d] = exec[d] /\ CpuOK(d)
    BY <1>1 DEF TypeOK, Contract
  <2> QED
    BY <1>1, <2>1 DEF CpuOK, ThreadOK, ProcOK, Args
<1>2. ASSUME NEW x \in Agent, \A d \in Cpu : exec'[d] # x
      PROVE  pc'[x] = "out" /\ held'[x] = {}
  <2>1. \A d \in Cpu \ {c} : exec[d] # x
    BY <1>2 DEF TypeOK
  <2> QED
    BY <2>1 DEF Contract, RestsOK
<1>3. RestsOK'
  BY <1>2 DEF RestsOK, Agent
<1> QED
  BY <1>1, <1>3 DEF Contract

(* A thread whose CPU is c, or the timer procedure of c, is executed by c  *)
(* or is at rest.                                                          *)
LEMMA AtRest ==
  ASSUME SpinlockAssumption, TypeOK, Contract, NEW c \in Cpu, NEW b \in Agent,
         b = c \/ (b \in Thread /\ home[b] = c), exec[c] # b
  PROVE  pc[b] = "out" /\ held[b] = {}
<1>1. ASSUME NEW d \in Cpu PROVE exec[d] # b
  BY <1>1 DEF Contract, CpuOK, SpinlockAssumption
<1> QED
  BY <1>1 DEF Contract, RestsOK

LEMMA ContractStep ==
  ASSUME TypeOK, CallOK, Contract, [Next]_vars,
         \A c \in Cpu : InWindow(exec[c]) => exec'[c] = exec[c]
  PROVE  Contract'
<1> USE SpinlockAssumption DEF SpinlockAssumption
<1>1. CASE UNCHANGED vars
  BY <1>1 DEF vars, code, Contract, RestsOK, CpuOK, ThreadOK, ProcOK, Args
<1>2. ASSUME NEW c \in Cpu, Acts(c)
      PROVE  Contract'
  <2> DEFINE a == exec[c]
  <2>0. a \in Agent /\ CpuOK(c) /\ (a \in Thread <=> a \notin Cpu)
    BY DEF TypeOK, Contract, Agent
  <2>1. CASE Enter(c, a)
    <3>0. call[a].slot = c
      BY <2>0, <2>1 DEF Enter, CpuOK, Args
    <3>1. CpuOK(c)'
      BY <2>0, <3>0, <2>1 DEF Enter, TypeOK, CallOK, CpuOK, ThreadOK, ProcOK, Args
    <3> QED
      BY <2>0, <3>0, <2>1, <3>1, LocalStep DEF Enter, TypeOK
  <2>2. CASE Cli(c, a)
    <3>1. CpuOK(c)'
      BY <2>0, <2>2 DEF Cli, TypeOK, CallOK, CpuOK, ThreadOK, ProcOK, Args
    <3> QED
      BY <2>0, <2>2, <3>1, LocalStep DEF Cli, TypeOK
  <2>3. CASE Take(c, a)
    <3>1. Args(c, a)'
      BY <2>0, <2>3 DEF Take, Return, TypeOK, CpuOK, Args
    <3>2. a = c => ProcOK(c)'
      BY <2>0, <2>3 DEF Take, Return, TypeOK, CallOK, CpuOK, ProcOK, Args
    <3>3. a \in Thread => ThreadOK(c, a)'
      <4> DEFINE l == call[a].lock
      <4>1. SUFFICES ASSUME a \in Thread PROVE ThreadOK(c, a)'
        OBVIOUS
      <4>2. /\ l \in Lock /\ ~int_on[c] /\ \A k \in held[a] : <<k, l>> \in Nested
            /\ held[a] = {} => outer[c] = l
            /\ held[a] # {} => outer[c] \in held[a]
            /\ held[a] # {} =>
                 \A k \in held[a] \ {outer[c]} : <<outer[c], k>> \in Nested
        BY <2>0, <2>3, <4>1 DEF Take, CallOK, CpuOK, ThreadOK, Args
      <4>3. /\ held'[a] = held[a] \cup {l} /\ pc'[a] = "out"
            /\ UNCHANGED <<exec, outer, int_on>>
        BY <2>0, <2>3 DEF Take, Return, TypeOK
      <4>4. /\ outer[c] \in held'[a]
            /\ \A k \in held'[a] \ {outer[c]} : <<outer[c], k>> \in Nested
        <5>1. CASE held[a] = {}
          BY <4>2, <4>3, <5>1
        <5>2. CASE held[a] # {}
          BY <4>2, <4>3, <5>2
        <5> QED
          BY <5>1, <5>2
      <4> QED
        BY <4>2, <4>3, <4>4 DEF ThreadOK
    <3>4. CpuOK(c)'
      BY <2>0, <2>3, <3>1, <3>2, <3>3 DEF Take, CpuOK
    <3> QED
      BY <2>0, <2>3, <3>4, LocalStep DEF Take, Return, TypeOK
  <2>4. CASE GiveUp(c, a)
    <3>0. call[a].slot = c
      BY <2>0, <2>4 DEF GiveUp, CpuOK, Args
    <3>1. Args(c, a)'
      BY <2>0, <3>0, <2>4 DEF GiveUp, LeaveOuter, Return, TypeOK, CpuOK, Args
    <3>2. a = c => ProcOK(c)'
      BY <2>0, <3>0, <2>4 DEF GiveUp, LeaveOuter, Return, TypeOK, CallOK, CpuOK, ProcOK, Args
    <3>3. a \in Thread => ThreadOK(c, a)'
      <4> DEFINE l == call[a].lock
      <4>1. SUFFICES ASSUME a \in Thread PROVE ThreadOK(c, a)'
        OBVIOUS
      <4>2. /\ l \in Lock /\ ~int_on[c] /\ l \notin held[a]
            /\ held[a] = {} => outer[c] = l
            /\ held[a] # {} => outer[c] \in held[a]
            /\ held[a] # {} =>
                 \A k \in held[a] \ {outer[c]} : <<outer[c], k>> \in Nested
        BY <2>0, <2>4, <4>1, NestedFacts DEF GiveUp, CallOK, CpuOK, ThreadOK, Args
      <4>3. pc'[a] = "out" /\ UNCHANGED <<exec, held>>
        BY <2>0, <2>4 DEF GiveUp, Return, TypeOK
      <4>4. IF outer[c] = l THEN outer'[c] = NULL /\ int_on'[c]
                           ELSE UNCHANGED <<outer, int_on>>
        BY <2>0, <3>0, <2>4 DEF GiveUp, LeaveOuter, TypeOK
      <4>5. outer[c] = l <=> held[a] = {}
        BY <4>2
      <4> QED
        BY <4>2, <4>3, <4>4, <4>5 DEF ThreadOK
    <3>4. CpuOK(c)'
      BY <2>0, <3>0, <2>4, <3>1, <3>2, <3>3 DEF GiveUp, CpuOK
    <3> QED
      BY <2>0, <3>0, <2>4, <3>4, LocalStep DEF GiveUp, LeaveOuter, Return, TypeOK
  <2>5. CASE Leave(c, a)
    <3>1. Args(c, a)'
      BY <2>0, <2>5 DEF Leave, LeaveOuter, Return, TypeOK, CpuOK, Args
    <3>2. a = c => ProcOK(c)'
      BY <2>0, <2>5 DEF Leave, LeaveOuter, Return, TypeOK, CallOK, CpuOK, ProcOK, Args
    <3>3. a \in Thread => ThreadOK(c, a)'
      <4> DEFINE l == call[a].lock
      <4>1. SUFFICES ASSUME a \in Thread PROVE ThreadOK(c, a)'
        OBVIOUS
      <4>2. /\ l \in Lock /\ ~int_on[c] /\ l \notin held[a]
            /\ held[a] = {} => outer[c] = l
            /\ held[a] # {} => outer[c] \in held[a]
            /\ held[a] # {} =>
                 \A k \in held[a] \ {outer[c]} : <<outer[c], k>> \in Nested
        BY <2>0, <2>5, <4>1 DEF Leave, CallOK, CpuOK, ThreadOK, Args
      <4>3. pc'[a] = "out" /\ UNCHANGED <<exec, held>>
        BY <2>0, <2>5 DEF Leave, Return, TypeOK
      <4>4. IF outer[c] = l THEN outer'[c] = NULL /\ int_on'[c]
                           ELSE UNCHANGED <<outer, int_on>>
        BY <2>0, <2>5 DEF Leave, LeaveOuter, TypeOK
      <4>5. outer[c] = l <=> held[a] = {}
        BY <4>2
      <4> QED
        BY <4>2, <4>3, <4>4, <4>5 DEF ThreadOK
    <3>4. CpuOK(c)'
      BY <2>0, <2>5, <3>1, <3>2, <3>3 DEF Leave, CpuOK
    <3> QED
      BY <2>0, <2>5, <3>4, LocalStep DEF Leave, LeaveOuter, Return, TypeOK
  <2>6. CASE HaltReturn(c, a)
    <3>1. CpuOK(c)'
      BY <2>0, <2>6 DEF HaltReturn, TypeOK, CallOK, CpuOK, ThreadOK, ProcOK, Args
    <3> QED
      BY <2>0, <2>6, <3>1, LocalStep DEF HaltReturn, TypeOK
  <2>7. CASE Halt(c, a)
    <3>1. CpuOK(c)'
      BY <2>0, <2>7 DEF Halt, TypeOK, CallOK, CpuOK, ThreadOK, ProcOK, Args
    <3> QED
      BY <2>0, <2>7, <3>1, LocalStep DEF Halt, TypeOK
  <2>8. ASSUME NEW l \in Lock, Release(c, a, l) PROVE Contract'
    <3>0. /\ held'[a] = held[a] \ {l} /\ pc'[a] = "leave" /\ call'[a].lock = l
          /\ l \in held[a] /\ \A k \in held[a] : <<l, k>> \notin Nested
          /\ UNCHANGED <<exec, home, outer, int_on>>
      <4>1. \A k \in held[a] : <<l, k>> \notin Nested
        BY <2>8 DEF Release, Innermost
      <4>2. /\ held'[a] = held[a] \ {l} /\ l \in held[a]
            /\ UNCHANGED <<exec, home, outer, int_on>>
        BY <2>0, <2>8 DEF Release, Innermost, TypeOK
      <4>3. pc'[a] = "leave" /\ call'[a].lock = l
        BY <2>0, <2>8 DEF Release, NoCall, TypeOK
      <4> QED
        BY <4>1, <4>2, <4>3
    <3>1. Args(c, a)'
      BY <3>0 DEF Args
    <3>2. a = c => ProcOK(c)'
      BY <2>0, <2>8 DEF Release, TypeOK, CallOK, CpuOK, ProcOK, Args
    <3>3. a \in Thread => ThreadOK(c, a)'
      <4>1. SUFFICES ASSUME a \in Thread PROVE ThreadOK(c, a)'
        OBVIOUS
      <4>2. /\ ~int_on[c] /\ outer[c] \in held[a]
            /\ \A k \in held[a] \ {outer[c]} : <<outer[c], k>> \in Nested
        BY <2>0, <3>0, <2>8, <4>1 DEF Release, CpuOK, ThreadOK
      <4>3. held'[a] = {} => outer[c] = l
        BY <3>0, <4>2
      <4>4. held'[a] # {} => outer[c] \in held'[a]
        BY <3>0, <4>2
      <4> QED
        BY <3>0, <4>2, <4>3, <4>4 DEF ThreadOK
    <3>4. CpuOK(c)'
      BY <2>0, <2>8, <3>1, <3>2, <3>3 DEF Release, CpuOK
    <3> QED
      BY <2>0, <2>8, <3>4, LocalStep DEF Release, TypeOK
  <2>9. ASSUME NEW l \in Lock, HaltRelease(c, a, l) PROVE Contract'
    <3>1. CpuOK(c)'
      BY <2>0, <2>9 DEF HaltRelease, TypeOK, CallOK, CpuOK, ThreadOK, ProcOK, Args
    <3> QED
      BY <2>0, <2>9, <3>1, LocalStep DEF HaltRelease, TypeOK
  <2>10. ASSUME NEW l \in Lock, Call(c, a, l) PROVE Contract'
    <3>1. CpuOK(c)'
      BY <2>0, <2>10 DEF Call, TypeOK, CallOK, CpuOK, ThreadOK, ProcOK, Args
    <3> QED
      BY <2>0, <2>10, <3>1, LocalStep DEF Call, TypeOK
  <2>11. CASE ProcBegin(c)
    <3>1. pc[a] = "out" /\ held[a] = {} /\ a # c
      BY <2>0, <2>11 DEF ProcBegin, Interruptible, InWindow, TypeOK, CpuOK,
                         ThreadOK, PC
    <3>2. pc[c] = "out" /\ held[c] = {} /\ c \in Agent
      BY <3>1, AtRest DEF Agent
    <3>3. CpuOK(c)'
      BY <2>0, <2>11, <3>2 DEF ProcBegin, TypeOK, CpuOK, ProcOK, Args
    <3> QED
      BY <2>11, <3>1, <3>2, <3>3, SwitchStep DEF ProcBegin, TypeOK
  <2>12. ASSUME NEW t \in Thread, ProcEnd(c, t) PROVE Contract'
    <3>1. t \in Agent /\ pc[t] = "out" /\ held[t] = {}
      BY <2>12, AtRest DEF ProcEnd, SwitchTo, Agent
    <3>2. CpuOK(c)'
      BY <2>0, <2>12, <3>1 DEF ProcEnd, SwitchTo, TypeOK, CpuOK, ThreadOK, Args
    <3> QED
      BY <2>12, <3>1, <3>2, SwitchStep DEF ProcEnd, SwitchTo, TypeOK
  <2>13. ASSUME NEW t \in Thread, Timer(c, t) PROVE Contract'
    <3>0. CASE t = a
      BY <2>0, <2>13, <3>0 DEF Timer, SwitchTo, TypeOK, Contract, RestsOK, CpuOK,
                               ThreadOK, ProcOK, Args
    <3> SUFFICES ASSUME t # a PROVE Contract'
      BY <3>0
    <3>1. pc[a] = "out" /\ held[a] = {} /\ outer[c] = NULL /\ int_on[c]
      BY <2>0, <2>13 DEF Timer, SwitchTo, Interruptible, InWindow, TypeOK,
                         CpuOK, ThreadOK, PC
    <3>2. t \in Agent /\ pc[t] = "out" /\ held[t] = {}
      BY <2>13, <3>1, AtRest DEF Timer, SwitchTo, Agent
    <3>3. CpuOK(c)'
      BY <2>0, <2>13, <3>1, <3>2
      DEF Timer, SwitchTo, TypeOK, CpuOK, ThreadOK, Args
    <3> QED
      BY <2>13, <3>1, <3>2, <3>3, SwitchStep DEF Timer, SwitchTo, TypeOK
  <2>14. ASSUME NEW t \in Thread, Migrate(t, c) PROVE Contract'
    BY <2>0, <2>14 DEF Migrate, TypeOK, Contract, RestsOK, CpuOK, ThreadOK,
                       ProcOK, Args, Agent
  <2> QED
    BY <1>2, <2>1, <2>2, <2>3, <2>4, <2>5, <2>6, <2>7, <2>8, <2>9, <2>10,
       <2>11, <2>12, <2>13, <2>14 DEF Acts
<1> QED
  BY <1>1, <1>2, NextActs

LEMMA ContractInit == Init => Contract
<1> SUFFICES ASSUME Init PROVE Contract
  OBVIOUS
<1>1. RestsOK
  BY DEF Init, RestsOK
<1>2. ASSUME NEW c \in Cpu PROVE CpuOK(c)
  <2>1. exec[c] \in Thread /\ exec[c] \in Agent /\ exec[c] \notin Cpu
    BY SpinlockAssumption DEF SpinlockAssumption, Init, Agent
  <2> QED
    BY <2>1 DEF Init, CpuOK, ThreadOK, Args, NoCall
<1> QED
  BY <1>1, <1>2 DEF Contract

LEMMA ContractHolds ==
  ASSUME TypeOK, Contract
  PROVE  /\ \A a \in Agent : held[a] # {} => \E c \in Cpu : exec[c] = a /\ ~int_on[c]
         /\ InterruptsComeBack
<1>1. ASSUME NEW a \in Agent, held[a] # {}
      PROVE  \E c \in Cpu : exec[c] = a /\ ~int_on[c]
  <2>1. PICK c \in Cpu : exec[c] = a
    BY <1>1 DEF Contract, RestsOK
  <2>2. CpuOK(c)
    BY DEF Contract
  <2> QED
    BY <1>1, <2>1, <2>2 DEF CpuOK, ThreadOK, ProcOK, Agent
<1>2. InterruptsComeBack
  BY DEF InterruptsComeBack, Contract, CpuOK, ThreadOK
<1> QED
  BY <1>1, <1>2

(* Wherever interrupts arrive, a CPU executes a thread of its own or its   *)
(* timer procedure.                                                        *)
AtHome ==
  \A c \in Cpu : /\ exec[c] \in Thread => home[exec[c]] = c
                 /\ exec[c] \in Cpu => exec[c] = c

LEMMA AtHomeStep ==
  ASSUME TypeOK, AtHome, [Next]_vars
  PROVE  AtHome'
<1> USE SpinlockAssumption DEF SpinlockAssumption
<1>1. CASE UNCHANGED <<exec, home>>
  BY <1>1 DEF AtHome
<1>2. ASSUME NEW c \in Cpu, ProcBegin(c) PROVE AtHome'
  BY <1>2 DEF ProcBegin, TypeOK, AtHome
<1>3. ASSUME NEW c \in Cpu, NEW t \in Thread, ProcEnd(c, t) \/ Timer(c, t)
      PROVE  AtHome'
  BY <1>3 DEF ProcEnd, Timer, SwitchTo, TypeOK, AtHome
<1>4. ASSUME NEW c \in Cpu, NEW t \in Thread, Migrate(t, c) PROVE AtHome'
  BY <1>4 DEF Migrate, TypeOK, AtHome
<1>5. ASSUME NEW c \in Cpu, Acts(c) PROVE AtHome'
  <2>1. \/ UNCHANGED <<exec, home>> \/ ProcBegin(c)
        \/ \E t \in Thread : ProcEnd(c, t) \/ Timer(c, t) \/ Migrate(t, c)
    BY <1>5 DEF Acts, Enter, Cli, Take, GiveUp, Leave, HaltReturn, Halt, Call,
                Release, HaltRelease
  <2> QED
    BY <1>1, <1>2, <1>3, <1>4, <2>1
<1>6. CASE UNCHANGED vars
  BY <1>1, <1>6 DEF vars, code
<1> QED
  BY <1>5, <1>6, NextActs

(* Once all is quiet the contract holds again. *)
LEMMA QuietContract ==
  ASSUME AtHome, Quiet
  PROVE  Contract
<1>1. RestsOK
  BY DEF Quiet, RestsOK
<1>2. ASSUME NEW c \in Cpu PROVE CpuOK(c)
  <2>1. exec[c] \in Thread /\ exec[c] \in Agent /\ exec[c] \notin Cpu
    BY SpinlockAssumption DEF SpinlockAssumption, Quiet, Agent
  <2> QED
    BY <2>1 DEF AtHome, Quiet, CpuOK, ThreadOK, Args
<1> QED
  BY <1>1, <1>2 DEF Contract

LEMMA QuietAgain == AtHome' /\ Quiet' => Contract'
<1>1. AtHome /\ Quiet => Contract
  BY QuietContract
<1> QED
  BY <1>1, PTL

SpinInv == TypeOK /\ CallOK /\ MutualExclusion /\ AtHome /\ (hit \/ Contract)

LEMMA SpinInvInit == Init => SpinInv
<1>1. Init => MutualExclusion
  BY DEF Init, MutualExclusion
<1>2. Init => AtHome
  BY SpinlockAssumption DEF SpinlockAssumption, Init, AtHome
<1> QED
  BY TypeInit, ContractInit, <1>1, <1>2 DEF SpinInv

LEMMA SpinInvStep == SpinInv /\ [Next]_vars => SpinInv'
<1> SUFFICES ASSUME SpinInv, [Next]_vars PROVE SpinInv'
  OBVIOUS
<1>1. (TypeOK /\ CallOK)' /\ MutualExclusion' /\ AtHome'
  BY TypeStep, ExclusionStep, AtHomeStep DEF SpinInv
<1>2. CASE UNCHANGED vars
  BY <1>1, <1>2, ContractStep DEF SpinInv, vars, code
<1>3. CASE Record
  <2>1. CASE Quiet'
    BY <1>1, <2>1, QuietAgain DEF SpinInv
  <2>2. CASE ~Quiet' /\ \E c \in Cpu : InWindow(exec[c]) /\ exec'[c] # exec[c]
    BY <1>1, <1>3, <2>2 DEF SpinInv, Record
  <2>3. CASE ~Quiet' /\ hit
    BY <1>1, <1>3, <2>3 DEF SpinInv, Record
  <2>4. CASE ~hit /\ \A c \in Cpu : InWindow(exec[c]) => exec'[c] = exec[c]
    BY <1>1, <2>4, ContractStep DEF SpinInv
  <2> QED
    BY <2>1, <2>2, <2>3, <2>4
<1> QED
  BY <1>2, <1>3, NextActs

(* Unless an interrupt hits the window between the outer lock and cli,     *)
(* acquire_spinlock keeps its promise on any machine: who holds a lock     *)
(* runs, with interrupts disabled ...                                      *)
THEOREM HoldersRun == Spec => []HoldersRunUninterrupted
<1>1. SpinInv => HoldersRunUninterrupted
  BY ContractHolds DEF SpinInv, HoldersRunUninterrupted
<1> QED
  BY SpinInvInit, SpinInvStep, <1>1, PTL DEF Spec

(* ... and whoever has released its last lock has interrupts enabled.      *)
THEOREM ComeBack == Spec => []InterruptsComeBack
<1>1. SpinInv => InterruptsComeBack
  BY ContractHolds DEF SpinInv, InterruptsComeBack
<1> QED
  BY SpinInvInit, SpinInvStep, <1>1, PTL DEF Spec

(* An agent that spins waits for one that executes with interrupts         *)
(* disabled and, if it spins itself, for a lock nested in the first one's. *)
LEMMA Waits ==
  ASSUME TypeOK, CallOK, MutualExclusion, Contract,
         NEW a \in Agent, Spins(a)
  PROVE  \E c \in Cpu :
           /\ call[a].lock \in held[exec[c]] /\ ~int_on[c]
           /\ Spins(exec[c]) =>
                <<call[a].lock, call[exec[c]].lock>> \in Nested
<1>1. call[a].lock \in Lock /\ busy[call[a].lock]
  BY DEF Spins, CallOK
<1>2. PICK b \in Agent : call[a].lock \in held[b]
  BY <1>1 DEF MutualExclusion
<1>3. PICK c \in Cpu : exec[c] = b /\ ~int_on[c]
  BY <1>2, ContractHolds
<1>4. Args(c, b)
  BY <1>3 DEF Contract, CpuOK
<1> QED
  BY <1>2, <1>3, <1>4 DEF Spins, Args

(* On any machine, while somebody spins, the holder of some lock runs and  *)
(* does not: the callers nest at most three locks, and every wait leads to *)
(* a lock nested further in.                                               *)
THEOREM SomebodyGoesOn == Spec => []NoStandstill
<1>1. ASSUME TypeOK, CallOK, MutualExclusion, Contract,
             NEW a \in Agent, Spins(a)
      PROVE  \E c \in Cpu : /\ held[exec[c]] # {} /\ ~int_on[c]
                            /\ ~Spins(exec[c])
  <2>1. \A x \in Agent : Spins(x) =>
          \E c \in Cpu :
            /\ call[x].lock \in held[exec[c]] /\ ~int_on[c]
            /\ Spins(exec[c]) => <<call[x].lock, call[exec[c]].lock>> \in Nested
    BY <1>1, Waits
  <2>2. \A c \in Cpu : exec[c] \in Agent
    BY <1>1 DEF TypeOK
  <2>3. PICK c \in Cpu : /\ call[a].lock \in held[exec[c]] /\ ~int_on[c]
                         /\ Spins(exec[c]) =>
                              <<call[a].lock, call[exec[c]].lock>> \in Nested
    BY <1>1, <2>1
  <2>4. SUFFICES ASSUME Spins(exec[c])
                 PROVE  \E d \in Cpu : /\ held[exec[d]] # {} /\ ~int_on[d]
                                       /\ ~Spins(exec[d])
    BY <2>3
  <2>5. PICK d \in Cpu : /\ call[exec[c]].lock \in held[exec[d]] /\ ~int_on[d]
                         /\ Spins(exec[d]) =>
                              <<call[exec[c]].lock, call[exec[d]].lock>> \in Nested
    BY <2>1, <2>2, <2>4
  <2>6. SUFFICES ASSUME Spins(exec[d])
                 PROVE  \E e \in Cpu : /\ held[exec[e]] # {} /\ ~int_on[e]
                                       /\ ~Spins(exec[e])
    BY <2>5
  <2>7. PICK e \in Cpu : /\ call[exec[d]].lock \in held[exec[e]] /\ ~int_on[e]
                         /\ Spins(exec[e]) =>
                              <<call[exec[d]].lock, call[exec[e]].lock>> \in Nested
    BY <2>1, <2>2, <2>6
  <2>8. \A k, l, m, n : ~ (/\ <<k, l>> \in Nested /\ <<l, m>> \in Nested
                           /\ <<m, n>> \in Nested)
    BY DEF Nested
  <2> QED
    BY <2>3, <2>4, <2>5, <2>6, <2>7, <2>8
<1>2. SpinInv => NoStandstill
  BY <1>1 DEF SpinInv, NoStandstill
<1> QED
  BY SpinInvInit, SpinInvStep, <1>2, PTL DEF Spec
-----------------------------------------------------------------------------
(* An id that is made of a slot's address and a stamp gives both back. *)
LEMMA SlotIdFacts ==
  ASSUME NEW i \in Slot, NEW st \in Nat
  PROVE  /\ get_stamp_id(i + 1, st) \in Nat \ {0}
         /\ get_stamp_id_ptr(get_stamp_id(i + 1, st)) = i + 1
<1>1. PICK q : q = 2 ^ PtrBits
  OBVIOUS
<1>0. q \in Int
  BY <1>1, StampIdAssumption
<1>2. i + 1 \in Nat /\ i + 1 > 0 /\ i + 1 < q
  BY <1>0, <1>1, AhciAssumption DEF Slot, Pointers
<1>3. i + 1 + st * q \in Nat /\ i + 1 + st * q # 0
  BY <1>0, <1>2
<1>4. (i + 1 + st * q) % q = i + 1
  BY <1>0, <1>2
<1> QED
  BY <1>1, <1>3, <1>4 DEF get_stamp_id, get_stamp_id_ptr

(* The first of some slots *)
LEMMA FirstSlot ==
  ASSUME NEW T \in SUBSET Slot, T # {}
  PROVE  Min(T) \in T /\ \A i \in T : Min(T) <= i
<1>1. T \in SUBSET Nat
  BY AhciAssumption DEF Slot
<1>2. \E m \in T : \A i \in T : m =< i
  BY <1>1, LeastExists
<1> QED
  BY <1>2 DEF Min

Drive == [magic : BOOLEAN, stamp : Nat, in_use : BOOLEAN, scanned : BOOLEAN,
          device : Int, port : Int, used : BOOLEAN]

TableOK ==
  /\ drives \in [Slot -> Drive] /\ stamp \in Nat
  /\ attached \subseteq Place
  /\ pos \in Nat
  /\ phase \in {"mark", "add"} => pos > 0
  /\ phase \in {"idle", "mark", "add", "done"}
  /\ phase = "done" => pos > Len(Places)

(* The slot of an id *)
SlotOf(k) == get_stamp_id_ptr(k) - 1

HasReturned(i) == \E n \in DOMAIN seen : SlotOf(seen[n]) = i

(* An enumeration goes up through the slots, and passes over none that is  *)
(* in use all the time.                                                    *)
ClientOK ==
  /\ stayed \subseteq InUse
  /\ id \in Nat /\ seen \in Seq(Nat)
  /\ \A n \in DOMAIN seen : SlotOf(seen[n]) \in Slot
  /\ \A n, m \in DOMAIN seen : n < m => SlotOf(seen[n]) < SlotOf(seen[m])
  /\ result = "none" =>
       /\ IF id = 0 THEN seen = <<>> ELSE Len(seen) > 0 /\ id = seen[Len(seen)]
       /\ \A i \in stayed : id = 0 \/ i > SlotOf(id) \/ HasReturned(i)
  /\ result = "no_more" => \A i \in stayed : HasReturned(i)

LEMMA TableInit == AhciInit => TableOK /\ ClientOK
<1> SUFFICES ASSUME AhciInit PROVE TableOK /\ ClientOK
  OBVIOUS
<1>1. TableOK
  BY DEF AhciInit, TableOK, Drive
<1>2. ClientOK
  BY DEF AhciInit, ClientOK, HasReturned
<1> QED
  BY <1>1, <1>2

(* A step that leaves everything of a slot but scanned as it is *)
SameDrive(i) ==
  /\ drives'[i].in_use = drives[i].in_use
  /\ drives'[i].stamp = drives[i].stamp
  /\ drives'[i].device = drives[i].device
  /\ drives'[i].port = drives[i].port

LEMMA SameTable ==
  ASSUME \A i \in Slot : SameDrive(i)
  PROVE  /\ InUse' = InUse
         /\ \A i \in Slot : PlaceOf(i)' = PlaceOf(i) /\ IdOf(i)' = IdOf(i)
  BY DEF SameDrive, InUse, PlaceOf, IdOf

(* Scanning a place sets the scanned flag of its first drive alone. *)
LEMMA MarkFacts ==
  ASSUME NEW p, drives \in [Slot -> Drive], Mark(p)
  PROVE  /\ drives' \in [Slot -> Drive]
         /\ \A i \in Slot : SameDrive(i)
         /\ \A i \in Slot : drives[i].scanned => drives'[i].scanned
         /\ \A i \in Slot : drives'[i].scanned => drives[i].scanned \/ i \in Known(p)
         /\ Known(p) # {} => \E i \in Known(p) : drives'[i].scanned
<1>1. CASE Known(p) = {}
  <2>1. drives' = drives
    BY <1>1 DEF Mark
  <2> QED
    BY <1>1, <2>1 DEF SameDrive
<1>2. CASE Known(p) # {}
  <2>1. PICK m : m = Min(Known(p))
    OBVIOUS
  <2>2. m \in Known(p) /\ m \in Slot
    BY <1>2, <2>1, FirstSlot DEF Known, InUse
  <2>3. drives' = [drives EXCEPT ![m].scanned = TRUE]
    BY <1>2, <2>1 DEF Mark
  <2>4. drives' \in [Slot -> Drive]
    BY <2>2, <2>3 DEF Drive
  <2>5. \A i \in Slot : SameDrive(i)
    BY <2>2, <2>3 DEF Drive, SameDrive
  <2>6. \A i \in Slot : drives'[i].scanned = IF i = m THEN TRUE ELSE drives[i].scanned
    BY <2>2, <2>3 DEF Drive
  <2> QED
    BY <2>2, <2>4, <2>5, <2>6
<1> QED
  BY <1>1, <1>2

(* A drive is added in a slot that was free, or the table is full. *)
LEMMA AddFacts ==
  ASSUME NEW p, Stored(p).device \in Int, Stored(p).port \in Int,
         drives \in [Slot -> Drive], stamp \in Nat, AddDrive(p),
         scan_error = "none"
  PROVE  /\ drives' \in [Slot -> Drive] /\ stamp' \in Nat
         /\ \/ scan_error' # "none" /\ drives' = drives
            \/ \E f \in Slot \ InUse :
                 /\ \A i \in Slot \ {f} : SameDrive(i)
                 /\ InUse' = InUse \cup {f}
                 /\ PlaceOf(f)' = Stored(p)
<1>1. CASE Slot \ InUse = {}
  BY <1>1 DEF AddDrive
<1>2. CASE Slot \ InUse # {}
  <2>1. PICK f : f = Min(Slot \ InUse)
    OBVIOUS
  <2>2. f \in Slot \ InUse
    BY <1>2, <2>1, FirstSlot
  <2>0. PICK u \in BOOLEAN : u = IF scan_error' = "none" THEN TRUE ELSE drives[f].used
    BY <2>2 DEF Drive
  <2>3. PICK d : d = [magic |-> TRUE, stamp |-> stamp, in_use |-> TRUE,
                      scanned |-> drives[f].scanned, device |-> Stored(p).device,
                      port |-> Stored(p).port, used |-> u]
    OBVIOUS
  <2>4. drives' = [drives EXCEPT ![f] = d] /\ stamp' = NextStamp(stamp)
    BY <1>2, <2>0, <2>1, <2>2, <2>3 DEF AddDrive
  <2>5. /\ d \in Drive /\ d.in_use = TRUE
        /\ d.device = Stored(p).device /\ d.port = Stored(p).port
    BY <2>2, <2>3 DEF Drive
  <2>6. drives' \in [Slot -> Drive]
    BY <2>4, <2>5
  <2>7. /\ drives'[f] = d
        /\ \A i \in Slot \ {f} : drives'[i] = drives[i]
    BY <2>2, <2>4
  <2>8. InUse' = InUse \cup {f}
    BY <2>2, <2>5, <2>7 DEF InUse
  <2>9. PlaceOf(f)' = Stored(p)
    BY <2>5, <2>7 DEF PlaceOf, Stored
  <2>10. \A i \in Slot \ {f} : SameDrive(i)
    BY <2>7 DEF SameDrive
  <2>11. stamp' \in Nat
    <3>1. PICK q : q = 2 ^ StampBits
      OBVIOUS
    <3>2. q \in Int /\ q > 0
      BY <3>1, StampIdAssumption, AhciAssumption DEF Stamps
    <3> QED
      BY <2>4, <3>1, <3>2 DEF NextStamp
  <2> QED
    BY <2>2, <2>6, <2>8, <2>9, <2>10, <2>11
<1> QED
  BY <1>1, <1>2

(* What was not found again is removed. *)
LEMMA RemovedFacts ==
  ASSUME drives \in [Slot -> Drive], drives' = Removed
  PROVE  /\ drives' \in [Slot -> Drive]
         /\ InUse' = {i \in InUse : drives[i].scanned}
         /\ \A i \in InUse' : SameDrive(i)
<1>1. PICK gone : gone = {i \in InUse : ~drives[i].scanned}
  OBVIOUS
<1>2. \A i \in Slot :
        drives'[i] = [drives[i] EXCEPT
           !.magic = IF i = 0 /\ gone # {} THEN FALSE ELSE @,
           !.in_use = IF i \in gone THEN FALSE ELSE @]
  BY <1>1 DEF Removed
<1>3. ASSUME NEW i \in Slot
      PROVE  /\ drives'[i] \in Drive
             /\ drives'[i].in_use = IF i \in gone THEN FALSE ELSE drives[i].in_use
             /\ drives'[i].stamp = drives[i].stamp
             /\ drives'[i].device = drives[i].device
             /\ drives'[i].port = drives[i].port
  <2>1. PICK d \in Drive : d = drives[i]
    OBVIOUS
  <2>2. PICK a \in BOOLEAN : a = IF i = 0 /\ gone # {} THEN FALSE ELSE d.magic
    BY DEF Drive
  <2>3. PICK b \in BOOLEAN : b = IF i \in gone THEN FALSE ELSE d.in_use
    BY DEF Drive
  <2>4. drives'[i] = [d EXCEPT !.magic = a, !.in_use = b]
    BY <1>2, <2>1, <2>2, <2>3 DEF Drive
  <2> QED
    BY <2>1, <2>3, <2>4 DEF Drive
<1>4. drives' \in [Slot -> Drive]
  <2>1. drives' = [i \in Slot |-> drives'[i]]
    BY DEF Removed
  <2> QED
    BY <1>3, <2>1
<1>5. InUse' = {i \in InUse : drives[i].scanned}
  BY <1>1, <1>3 DEF InUse
<1>6. \A i \in InUse' : SameDrive(i)
  BY <1>1, <1>3, <1>5 DEF InUse, SameDrive
<1> QED
  BY <1>4, <1>5, <1>6

(* A place is one that the registers can name: 24 bits of the device's     *)
(* address and 5 of the port's number.                                     *)
LEMMA PlaceFacts == Place \subseteq [device : 0 .. 2 ^ 24 - 1, port : 0 .. 31]
<1> SUFFICES ASSUME NEW p \in Place
             PROVE  p \in [device : 0 .. 2 ^ 24 - 1, port : 0 .. 31]
  OBVIOUS
<1>1. PICK a \in DOMAIN Config :
        p \in [device : {get_pci_device(a[1], a[2], a[3])}, port : Config[a].pi]
  BY DEF Place
<1>2. PICK d : d = get_pci_device(a[1], a[2], a[3])
  OBVIOUS
<1>3. PICK x \in 0 .. 255, y \in 0 .. 31, z \in 0 .. 7 :
        a[1] = x /\ a[2] = y /\ a[3] = z
  BY AddressAssumption
<1>4. d = x * 2 ^ 16 + y * 2 ^ 8 + z
  BY <1>2, <1>3 DEF get_pci_device
<1>5. d \in 0 .. 2 ^ 24 - 1
  BY <1>4
<1>6. Config[a].pi \subseteq 0 .. 31
  BY AhciAssumption
<1> QED
  BY <1>1, <1>2, <1>5, <1>6

(* A signed bit field holds a number or the number less its range; the     *)
(* device's field and the port's field hold numbers below these.           *)
Narrow(x, half) == IF x < half THEN x ELSE x - 2 * half

HalfDevice == 2 ^ 23
HalfPort == 16

LEMMA StoredFacts ==
  ASSUME NEW p \in Place
  PROVE  \E d \in 0 .. 2 * HalfDevice - 1, n \in 0 .. 2 * HalfPort - 1 :
           /\ p = [device |-> d, port |-> n]
           /\ Stored(p) = [device |-> Narrow(d, HalfDevice), port |-> Narrow(n, HalfPort)]
<1>1. /\ 2 ^ (24 - 1) = 2 ^ 23 /\ 2 ^ 23 \in Nat /\ 2 ^ 24 = 2 * 2 ^ 23
      /\ 2 ^ 5 = 32 /\ 2 ^ (5 - 1) = 16
  BY SMT
<1>2. PICK d \in 0 .. 2 ^ 24 - 1, n \in 0 .. 31 : p = [device |-> d, port |-> n]
  BY PlaceFacts
<1>3. d % 2 ^ 24 = d /\ n % 32 = n
  BY <1>1
<1>4. Signed(d, 24) = Narrow(d, HalfDevice)
  BY <1>1, <1>3 DEF Signed, Narrow, HalfDevice, HalfPort
<1>5. Signed(n, 5) = Narrow(n, HalfPort)
  BY <1>1, <1>3 DEF Signed, Narrow, HalfDevice, HalfPort
<1>6. Stored(p) = [device |-> Narrow(d, HalfDevice), port |-> Narrow(n, HalfPort)]
  BY <1>2, <1>4, <1>5 DEF Stored
<1>7. d \in 0 .. 2 * HalfDevice - 1 /\ n \in 0 .. 2 * HalfPort - 1
  BY <1>1 DEF HalfDevice, HalfPort
<1> QED
  BY <1>2, <1>6, <1>7

LEMMA NarrowFacts ==
  ASSUME NEW half \in Nat, NEW x \in 0 .. 2 * half - 1
  PROVE  /\ Narrow(x, half) \in Int
         /\ Narrow(x, half) >= 0 => Narrow(x, half) = x
         /\ \A y \in 0 .. 2 * half - 1 : Narrow(x, half) = Narrow(y, half) => x = y
  BY DEF Narrow

LEMMA StoredFields ==
  ASSUME NEW p \in Place
  PROVE  Stored(p).device \in Int /\ Stored(p).port \in Int
<1>1. HalfDevice \in Nat /\ HalfPort \in Nat
  BY DEF HalfDevice, HalfPort
<1>2. PICK d \in 0 .. 2 * HalfDevice - 1, n \in 0 .. 2 * HalfPort - 1 :
           Stored(p) = [device |-> Narrow(d, HalfDevice), port |-> Narrow(n, HalfPort)]
  BY StoredFacts
<1>3. Narrow(d, HalfDevice) \in Int /\ Narrow(n, HalfPort) \in Int
  BY <1>1, NarrowFacts
<1> QED
  BY <1>2, <1>3

(* What the fields hold is a place only if it is the place that was stored. *)
LEMMA StoredIsPlace ==
  ASSUME NEW p \in Place, Stored(p) \in Place
  PROVE  Stored(p) = p
<1>1. HalfDevice \in Nat /\ HalfPort \in Nat
  BY DEF HalfDevice, HalfPort
<1>2. PICK d \in 0 .. 2 * HalfDevice - 1, n \in 0 .. 2 * HalfPort - 1 :
           /\ p = [device |-> d, port |-> n]
           /\ Stored(p) = [device |-> Narrow(d, HalfDevice), port |-> Narrow(n, HalfPort)]
  BY StoredFacts
<1>3. PICK e \in 0 .. 2 ^ 24 - 1, m \in 0 .. 31 : Stored(p) = [device |-> e, port |-> m]
  BY PlaceFacts
<1>4. e = Narrow(d, HalfDevice) /\ m = Narrow(n, HalfPort)
  BY <1>2, <1>3
<1>5. e = d
  BY <1>1, <1>3, <1>4, NarrowFacts
<1>6. m = n
  <2>1. Narrow(n, HalfPort) >= 0
    BY <1>3, <1>4
  <2> QED
    BY <1>1, <1>2, <1>4, <2>1, NarrowFacts
<1> QED
  BY <1>2, <1>3, <1>5, <1>6

(* Two places are not stored alike. *)
LEMMA StoredDiffers ==
  ASSUME NEW p \in Place, NEW q \in Place, Stored(p) = Stored(q)
  PROVE  p = q
<1>1. HalfDevice \in Nat /\ HalfPort \in Nat
  BY DEF HalfDevice, HalfPort
<1>2. PICK d \in 0 .. 2 * HalfDevice - 1, n \in 0 .. 2 * HalfPort - 1 :
           /\ p = [device |-> d, port |-> n]
           /\ Stored(p) = [device |-> Narrow(d, HalfDevice), port |-> Narrow(n, HalfPort)]
  BY StoredFacts
<1>3. PICK e \in 0 .. 2 * HalfDevice - 1, m \in 0 .. 2 * HalfPort - 1 :
           /\ q = [device |-> e, port |-> m]
           /\ Stored(q) = [device |-> Narrow(e, HalfDevice), port |-> Narrow(m, HalfPort)]
  BY StoredFacts
<1>4. Narrow(d, HalfDevice) = Narrow(e, HalfDevice) /\ Narrow(n, HalfPort) = Narrow(m, HalfPort)
  <2>1. PICK r : r = Stored(p) /\ r = Stored(q)
    OBVIOUS
  <2>2. r.device = Narrow(d, HalfDevice) /\ r.port = Narrow(n, HalfPort)
    BY <1>2, <2>1
  <2>3. r.device = Narrow(e, HalfDevice) /\ r.port = Narrow(m, HalfPort)
    BY <1>3, <2>1
  <2> QED
    BY <2>2, <2>3
<1>5. d = e /\ n = m
  BY <1>1, <1>4, NarrowFacts
<1> QED
  BY <1>2, <1>3, <1>5
-----------------------------------------------------------------------------
(* A step that leaves the client alone, and the drives that stayed in use *)
LEMMA ClientKept ==
  ASSUME ClientOK, UNCHANGED client, stayed' \subseteq stayed, stayed' \subseteq InUse'
  PROVE  ClientOK'
<1>1. \A i : HasReturned(i)' <=> HasReturned(i)
  BY DEF HasReturned, SlotOf, client
<1> QED
  BY <1>1 DEF ClientOK, SlotOf, client

(* No step puts the table out of shape. *)
LEMMA TableStep ==
  ASSUME TableOK, [AhciNext]_ahciVars
  PROVE  TableOK'
<1>0. drives \in [Slot -> Drive] /\ stamp \in Nat /\ pos \in Nat
  BY DEF TableOK
<1>1. CASE UNCHANGED ahciVars
  BY <1>1 DEF TableOK, ahciVars
<1>2. CASE ScanBegin
  <2>1. ASSUME NEW i \in Slot
        PROVE  drives'[i] \in Drive
    <3>1. PICK b \in BOOLEAN : b = IF drives[i].in_use THEN FALSE ELSE drives[i].scanned
      BY <1>0 DEF Drive
    <3>2. drives'[i] = [drives[i] EXCEPT !.scanned = b]
      BY <1>2, <3>1 DEF ScanBegin
    <3> QED
      BY <1>0, <3>2 DEF Drive
  <2>2. drives' = [i \in Slot |-> drives'[i]]
    BY <1>2 DEF ScanBegin
  <2>3. drives' \in [Slot -> Drive]
    BY <2>1, <2>2
  <2>4. phase' = "mark" /\ pos' = 1 /\ stamp' = stamp /\ attached' = attached
    BY <1>2 DEF ScanBegin
  <2> QED
    BY <2>3, <2>4 DEF TableOK
<1>3. CASE VisitToMark
  <2>1. drives' \in [Slot -> Drive]
    BY <1>0, <1>3, MarkFacts DEF VisitToMark
  <2> QED
    BY <1>3, <2>1 DEF VisitToMark, TableOK
<1>4. CASE RemoveDrives
  <2>1. drives' \in [Slot -> Drive]
    BY <1>0, <1>4, RemovedFacts DEF RemoveDrives
  <2> QED
    BY <1>4, <2>1 DEF RemoveDrives, TableOK
<1>5. CASE VisitToAdd
  <2>1. PICK p : p = Places[pos]
    OBVIOUS
  <2>2. drives' \in [Slot -> Drive] /\ stamp' \in Nat
    <3>1. CASE p \notin attached \/ scan_error # "none"
      BY <1>0, <1>5, <2>1, <3>1 DEF VisitToAdd
    <3>2. CASE p \in attached /\ scan_error = "none" /\ Known(p) # {}
      BY <1>0, <1>5, <2>1, <3>2, MarkFacts DEF VisitToAdd
    <3>3. CASE p \in attached /\ scan_error = "none" /\ Known(p) = {}
      <4>1. AddDrive(p) /\ p \in Place
        BY <1>5, <2>1, <3>3 DEF VisitToAdd, TableOK
      <4> QED
        BY <1>0, <3>3, <4>1, AddFacts, StoredFields
    <3> QED
      BY <3>1, <3>2, <3>3
  <2> QED
    BY <1>5, <2>2 DEF VisitToAdd, TableOK
<1>6. CASE ScanDone
  BY <1>6 DEF ScanDone, TableOK
<1>7. CASE ScanEnd
  BY <1>7 DEF ScanEnd, TableOK
<1>8. ASSUME NEW p \in Place, Plug(p) PROVE TableOK'
  BY <1>8 DEF Plug, TableOK
<1>9. ASSUME NEW p \in Place, Unplug(p) PROVE TableOK'
  BY <1>9 DEF Unplug, TableOK
<1>10. CASE get_next_device
  BY <1>10 DEF get_next_device, TableOK
<1>11. CASE Start
  BY <1>11 DEF Start, TableOK
<1>12. CASE ScanRefused
  BY <1>12 DEF ScanRefused, TableOK
<1> QED
  BY <1>1, <1>2, <1>3, <1>4, <1>5, <1>6, <1>7, <1>8, <1>9, <1>10, <1>11, <1>12 DEF AhciNext

(* The next device of an enumeration is in a later slot than those before, *)
(* and the slots in between were not in use all the time.                  *)
LEMMA DeviceStep ==
  ASSUME TableOK, ClientOK, get_next_device
  PROVE  ClientOK'
<1> DEFINE err == IF id = 0 THEN "none" ELSE Lookup(id, Registered, StampOf)
           found == {i \in InUse : i >= SearchFrom(err)}
<1>0. /\ drives \in [Slot -> Drive] /\ id \in Nat /\ seen \in Seq(Nat)
      /\ Len(seen) \in Nat /\ DOMAIN seen = 1 .. Len(seen)
      /\ Slot \subseteq Nat /\ stayed \subseteq InUse /\ InUse \subseteq Slot
      /\ \A n \in DOMAIN seen : SlotOf(seen[n]) \in Slot
      /\ \A n, m \in DOMAIN seen : n < m => SlotOf(seen[n]) < SlotOf(seen[m])
  BY AhciAssumption DEF TableOK, ClientOK, InUse, Slot
<1>1. /\ result = "none" /\ stayed' = stayed /\ drives' = drives
      /\ IF id = 0 THEN seen = <<>> ELSE Len(seen) > 0 /\ id = seen[Len(seen)]
      /\ \A i \in stayed : id = 0 \/ i > SlotOf(id) \/ HasReturned(i)
  BY DEF get_next_device, ClientOK
<1>2. InUse' = InUse
  BY <1>1 DEF InUse
<1>3. err \in {"none", "not_found", "expired"}
  BY DEF Lookup
<1>4. SearchFrom(err) = IF id = 0 \/ err # "none" THEN 0 ELSE SlotOf(id) + 1
  BY DEF SearchFrom, SlotOf
<1>5. id # 0 => SlotOf(id) \in Slot
  BY <1>0, <1>1
<1>6. \A i \in stayed : i \notin found => err = "none" /\ id # 0 /\ HasReturned(i)
  <2> SUFFICES ASSUME NEW i \in stayed, i \notin found
               PROVE  err = "none" /\ id # 0 /\ HasReturned(i)
    OBVIOUS
  <2>1. i \in InUse /\ i \in Nat /\ ~(i >= SearchFrom(err))
    BY <1>0
  <2>2. err = "none" /\ id # 0
    BY <1>4, <2>1
  <2>3. ~(i > SlotOf(id))
    <3>1. PICK j \in Nat : j = SlotOf(id)
      BY <1>0, <1>5, <2>2
    <3>2. ~(i >= j + 1)
      BY <1>4, <2>1, <2>2, <3>1
    <3> QED
      BY <2>1, <3>1, <3>2
  <2> QED
    BY <1>1, <2>2, <2>3
<1>7. CASE found = {}
  <2>1. result' = "no_more" /\ id' = id /\ seen' = seen
    BY <1>7 DEF get_next_device
  <2>2. \A i \in stayed : HasReturned(i)'
    BY <1>6, <1>7, <2>1 DEF HasReturned, SlotOf
  <2> QED
    BY <1>0, <1>1, <1>2, <2>1, <2>2 DEF ClientOK, SlotOf
<1>8. CASE found # {}
  <2>1. PICK m : m = Min(found)
    OBVIOUS
  <2>2. m \in found /\ \A i \in found : m <= i
    <3>1. found \in SUBSET Slot
      BY <1>0
    <3> QED
      BY <1>8, <2>1, <3>1, FirstSlot
  <2>3. PICK k : k = IdOf(m)
    OBVIOUS
  <2>4. k \in Nat \ {0} /\ SlotOf(k) = m
    <3>1. m \in Slot /\ m \in Int /\ drives[m].stamp \in Nat
      BY <1>0, <2>2 DEF Drive
    <3> QED
      BY <2>3, <3>1, SlotIdFacts DEF IdOf, SlotOf
  <2>5. id' = k /\ result' = err /\ seen' = IF err = "none" THEN Append(seen, k) ELSE seen
    BY <1>8, <2>1, <2>3 DEF get_next_device
  <2>6. CASE err # "none"
    BY <1>0, <1>1, <1>2, <1>3, <2>4, <2>5, <2>6 DEF ClientOK, SlotOf
  <2>7. CASE err = "none"
    <3>1. PICK r : r = Append(seen, k)
      OBVIOUS
    <3>2. /\ r \in Seq(Nat) /\ Len(r) = Len(seen) + 1 /\ DOMAIN r = 1 .. Len(seen) + 1
          /\ r[Len(seen) + 1] = k /\ \A n \in 1 .. Len(seen) : r[n] = seen[n]
      BY <1>0, <2>4, <3>1
    <3>3. seen' = r /\ id' = k /\ result' = "none"
      BY <2>5, <2>7, <3>1
    <3>4. \A n \in 1 .. Len(seen) : SlotOf(seen[n]) < m
      <4>1. CASE id = 0
        BY <1>0, <1>1, <4>1
      <4>2. CASE id # 0
        <5>1. SlotOf(id) < m
          BY <1>0, <1>4, <1>5, <2>2, <2>7, <4>2
        <5>2. PICK l \in DOMAIN seen : l = Len(seen) /\ id = seen[l]
          BY <1>0, <1>1, <4>2
        <5>3. ASSUME NEW n \in 1 .. Len(seen)
              PROVE  SlotOf(seen[n]) < m
          <6>1. n = l \/ SlotOf(seen[n]) < SlotOf(id)
            <7>0. PICK e \in Nat : e = Len(seen)
              BY <1>0
            <7>1. n \in DOMAIN seen /\ n \in 1 .. e /\ l = e
              BY <1>0, <5>2, <7>0
            <7>2. n < l => SlotOf(seen[n]) < SlotOf(seen[l])
              BY <1>0, <7>1
            <7> QED
              BY <5>2, <7>0, <7>1, <7>2
          <6>2. SlotOf(seen[n]) \in Nat /\ SlotOf(id) \in Nat /\ m \in Nat
            BY <1>0, <1>5, <2>2, <4>2
          <6> QED
            BY <5>1, <5>2, <6>1, <6>2
        <5> QED
          BY <5>3
      <4> QED
        BY <4>1, <4>2
    <3>5. \A n \in DOMAIN r : SlotOf(r[n]) \in Slot
      BY <1>0, <2>2, <2>4, <3>2
    <3>6. \A a, b \in DOMAIN r : a < b => SlotOf(r[a]) < SlotOf(r[b])
      <4> SUFFICES ASSUME NEW a \in DOMAIN r, NEW b \in DOMAIN r, a < b
                   PROVE  SlotOf(r[a]) < SlotOf(r[b])
        OBVIOUS
      <4>1. a \in 1 .. Len(seen)
        BY <1>0, <3>2
      <4>2. CASE b = Len(seen) + 1
        BY <2>4, <3>2, <3>4, <4>1, <4>2
      <4>3. CASE b # Len(seen) + 1
        <5>1. b \in 1 .. Len(seen)
          BY <1>0, <3>2, <4>3
        <5>2. r[a] = seen[a] /\ r[b] = seen[b] /\ a \in DOMAIN seen /\ b \in DOMAIN seen
          BY <1>0, <3>2, <4>1, <5>1
        <5> QED
          BY <1>0, <5>2
      <4> QED
        BY <4>2, <4>3
    <3>7. \A i : HasReturned(i) \/ i = m => \E n \in DOMAIN r : SlotOf(r[n]) = i
      <4>1. DOMAIN seen \subseteq DOMAIN r /\ Len(seen) + 1 \in DOMAIN r
        BY <1>0, <3>2
      <4> QED
        BY <1>0, <2>4, <3>2, <4>1 DEF HasReturned
    <3>8. \A i \in stayed : i > m \/ \E n \in DOMAIN r : SlotOf(r[n]) = i
      <4> SUFFICES ASSUME NEW i \in stayed, ~(i > m)
                   PROVE  \E n \in DOMAIN r : SlotOf(r[n]) = i
        OBVIOUS
      <4>1. i = m \/ i \notin found
        BY <1>0, <2>2
      <4> QED
        BY <1>6, <3>7, <4>1
    <3> QED
      BY <1>0, <1>1, <1>2, <2>4, <3>2, <3>3, <3>5, <3>6, <3>8 DEF ClientOK, SlotOf, HasReturned
  <2> QED
    BY <2>6, <2>7
<1> QED
  BY <1>7, <1>8

LEMMA ClientStep ==
  ASSUME TableOK, ClientOK, [AhciNext]_ahciVars
  PROVE  ClientOK'
<1>0. drives \in [Slot -> Drive] /\ stayed \subseteq InUse
  BY DEF TableOK, ClientOK
<1>1. CASE UNCHANGED ahciVars
  BY <1>0, <1>1, ClientKept DEF ahciVars, client, InUse
<1>2. CASE ScanBegin
  <2>1. \A i \in Slot : drives'[i].in_use = drives[i].in_use
    BY <1>0, <1>2 DEF ScanBegin, Drive
  <2> QED
    BY <1>0, <1>2, <2>1, ClientKept DEF ScanBegin, InUse
<1>3. CASE VisitToMark
  <2>1. \A i \in Slot : drives'[i].in_use = drives[i].in_use
    BY <1>0, <1>3, MarkFacts DEF VisitToMark, SameDrive
  <2> QED
    BY <1>0, <1>3, <2>1, ClientKept DEF VisitToMark, InUse
<1>4. CASE RemoveDrives
  <2>1. stayed' = {i \in stayed : drives'[i].in_use}
    BY <1>4 DEF RemoveDrives
  <2> QED
    BY <1>0, <1>4, <2>1, ClientKept DEF RemoveDrives, InUse
<1>5. CASE VisitToAdd
  <2>1. PICK p : p = Places[pos]
    OBVIOUS
  <2>2. InUse \subseteq InUse'
    <3>1. CASE p \notin attached \/ scan_error # "none"
      BY <1>0, <1>5, <2>1, <3>1 DEF VisitToAdd, InUse
    <3>2. CASE p \in attached /\ scan_error = "none" /\ Known(p) # {}
      <4>1. Mark(p)
        BY <1>5, <2>1, <3>2 DEF VisitToAdd
      <4> QED
        BY <1>0, <4>1, MarkFacts DEF SameDrive, InUse
    <3>3. CASE p \in attached /\ scan_error = "none" /\ Known(p) = {}
      <4>1. AddDrive(p) /\ p \in Place /\ stamp \in Nat
        BY <1>5, <2>1, <3>3 DEF VisitToAdd, TableOK
      <4>2. drives' = drives => InUse' = InUse
        BY DEF InUse
      <4> QED
        BY <1>0, <3>3, <4>1, <4>2, AddFacts, StoredFields
    <3> QED
      BY <3>1, <3>2, <3>3
  <2> QED
    BY <1>0, <1>5, <2>2, ClientKept DEF VisitToAdd
<1>6. CASE ScanRefused \/ ScanDone \/ ScanEnd \/ \E p \in Place : Plug(p) \/ Unplug(p)
  <2>1. drives' = drives /\ UNCHANGED client /\ stayed' = stayed
    BY <1>6 DEF ScanRefused, ScanDone, ScanEnd, Plug, Unplug
  <2> QED
    BY <1>0, <2>1, ClientKept DEF InUse
<1>7. CASE get_next_device
  BY <1>7, DeviceStep
<1>8. CASE Start
  BY <1>8 DEF Start, ClientOK, HasReturned, InUse
<1> QED
  BY <1>1, <1>2, <1>3, <1>4, <1>5, <1>6, <1>7, <1>8 DEF AhciNext

(* get_next_device of ahci.c returns no drive twice in an enumeration, and *)
(* every drive that was in the table all the time before ERR_NO_MORE,      *)
(* whatever scans and hot plugging happen in between, for every machine.   *)
THEOREM DevicesAreEnumerated == AhciSpec => []DevicesEnumerated
<1>1. TableOK /\ ClientOK => DevicesEnumerated
  <2> SUFFICES ASSUME TableOK, ClientOK PROVE DevicesEnumerated
    OBVIOUS
  <2>1. IsInjective(seen)
    <3> SUFFICES ASSUME NEW a \in DOMAIN seen, NEW b \in DOMAIN seen, seen[a] = seen[b]
                 PROVE  a = b
      BY DEF IsInjective
    <3>1. a \in Nat /\ b \in Nat
      BY DEF ClientOK
    <3>2. SlotOf(seen[a]) \in Int /\ SlotOf(seen[b]) \in Int
      BY AhciAssumption DEF ClientOK, Slot
    <3>3. ~(a < b) /\ ~(b < a)
      BY <3>2 DEF ClientOK
    <3> QED
      BY <3>1, <3>3
  <2>2. ASSUME result = "no_more", NEW i \in stayed
        PROVE  i \in {get_stamp_id_ptr(k) - 1 : k \in ToSet(seen)}
    <3>1. PICK n \in DOMAIN seen : SlotOf(seen[n]) = i
      BY <2>2 DEF ClientOK, HasReturned
    <3> QED
      BY <3>1 DEF SlotOf, ToSet
  <2> QED
    BY <2>1, <2>2 DEF DevicesEnumerated
<1> QED
  BY <1>1, TableInit, TableStep, ClientStep, PTL DEF AhciSpec
-----------------------------------------------------------------------------
(* The places that a scan visits *)
Visited == {Places[n] : n \in DOMAIN Places}

(* A drive was stored for a place that was visited, and there is one drive *)
(* only for a place that the bit fields hold.                              *)
PlacesOK ==
  /\ \A i \in InUse : \E p \in Visited : PlaceOf(i) = Stored(p)
  /\ \A i, j \in InUse : PlaceOf(i) = PlaceOf(j) /\ PlaceOf(i) \in Place => i = j

LEMMA WalkFacts ==
  ASSUME WalkEnds
  PROVE  /\ Len(Places) \in Nat /\ DOMAIN Places = 1 .. Len(Places)
         /\ \A n \in DOMAIN Places : Places[n] \in Place
         /\ Visited \subseteq Place
  BY DEF WalkEnds, Visited

(* A drive whose fields name a place is the drive of that place. *)
LEMMA PlaceIsVisited ==
  ASSUME WalkEnds, PlacesOK, NEW i \in InUse, PlaceOf(i) \in Place
  PROVE  PlaceOf(i) \in Visited /\ Stored(PlaceOf(i)) = PlaceOf(i)
<1>1. PICK p \in Visited : PlaceOf(i) = Stored(p)
  BY DEF PlacesOK
<1>2. p \in Place
  BY WalkFacts
<1>3. Stored(p) = p
  BY <1>1, <1>2, StoredIsPlace
<1> QED
  BY <1>1, <1>3

(* What the second visit of place p may do: nothing, mark its drive, or    *)
(* add one in slot f.                                                      *)
PassesOver(p) ==
  /\ p \notin attached \/ scan_error # "none" \/ scan_error' # "none"
  /\ drives' = drives
FindsAgain(p) ==
  /\ p \in attached /\ Known(p) # {}
  /\ \A i \in Slot : SameDrive(i)
AddsIn(p, f) ==
  /\ p \in attached /\ Known(p) = {}
  /\ f \in Slot \ InUse
  /\ \A i \in Slot \ {f} : SameDrive(i)
  /\ InUse' = InUse \cup {f}
  /\ PlaceOf(f)' = Stored(p)

LEMMA AddCases ==
  ASSUME WalkEnds, TableOK, VisitToAdd
  PROVE  \E p \in Place :
           /\ pos \in DOMAIN Places /\ Places[pos] = p
           /\ scan_error # "none" => scan_error' # "none"
           /\ PassesOver(p) \/ FindsAgain(p) \/ \E f \in Slot : AddsIn(p, f)
<1>1. pos \in DOMAIN Places
  BY WalkFacts DEF VisitToAdd, TableOK
<1>2. PICK p \in Place : p = Places[pos]
  BY <1>1, WalkFacts
<1>3. CASE p \notin attached \/ scan_error # "none"
  BY <1>1, <1>2, <1>3 DEF VisitToAdd, PassesOver
<1>4. CASE p \in attached /\ scan_error = "none" /\ Known(p) # {}
  <2>1. Mark(p)
    BY <1>2, <1>4 DEF VisitToAdd
  <2>2. FindsAgain(p)
    BY <1>4, <2>1, MarkFacts DEF FindsAgain, TableOK
  <2> QED
    BY <1>1, <1>2, <1>4, <2>2
<1>5. CASE p \in attached /\ scan_error = "none" /\ Known(p) = {}
  <2>1. AddDrive(p)
    BY <1>2, <1>5 DEF VisitToAdd
  <2>2. \/ scan_error' # "none" /\ drives' = drives
        \/ \E f \in Slot \ InUse :
                 /\ \A i \in Slot \ {f} : SameDrive(i)
                 /\ InUse' = InUse \cup {f}
                 /\ PlaceOf(f)' = Stored(p)
    BY <1>5, <2>1, AddFacts, StoredFields DEF TableOK
  <2>3. PassesOver(p) \/ \E f \in Slot : AddsIn(p, f)
    BY <1>5, <2>2 DEF PassesOver, AddsIn
  <2> QED
    BY <1>1, <1>2, <1>5, <2>3
<1> QED
  BY <1>3, <1>4, <1>5

(* A slot that a step leaves as it is *)
LEMMA SameFacts ==
  ASSUME NEW i, SameDrive(i)
  PROVE  PlaceOf(i)' = PlaceOf(i) /\ IdOf(i)' = IdOf(i)
  BY DEF SameDrive, PlaceOf, IdOf

LEMMA PlacesKept ==
  ASSUME PlacesOK, InUse' \subseteq InUse, \A i \in InUse' : PlaceOf(i)' = PlaceOf(i)
  PROVE  PlacesOK'
  BY DEF PlacesOK

(* The steps that change nothing of the table but scanned flags *)
Looks ==
  \/ UNCHANGED ahciVars \/ ScanBegin \/ ScanRefused \/ VisitToMark
  \/ ScanDone \/ ScanEnd \/ get_next_device \/ Start
  \/ \E p \in Place : Plug(p) \/ Unplug(p)

LEMMA LooksFacts ==
  ASSUME TableOK, Looks
  PROVE  \A i \in Slot : SameDrive(i)
<1>0. drives \in [Slot -> Drive]
  BY DEF TableOK
<1>1. CASE drives' = drives
  BY <1>1 DEF SameDrive
<1>2. CASE ScanBegin
  <2>1. ASSUME NEW i \in Slot PROVE SameDrive(i)
    <3>1. PICK b : b = IF drives[i].in_use THEN FALSE ELSE drives[i].scanned
      OBVIOUS
    <3>2. drives'[i] = [drives[i] EXCEPT !.scanned = b]
      BY <1>2, <3>1 DEF ScanBegin
    <3> QED
      BY <1>0, <3>2 DEF Drive, SameDrive
  <2> QED
    BY <2>1
<1>3. CASE VisitToMark
  BY <1>0, <1>1, <1>3, MarkFacts DEF VisitToMark
<1> QED
  BY <1>1, <1>2, <1>3 DEF Looks, ahciVars, ScanRefused, ScanDone, ScanEnd, get_next_device, Start,
     Plug, Unplug

LEMMA NextLooks ==
  [AhciNext]_ahciVars => Looks \/ RemoveDrives \/ VisitToAdd
  BY DEF AhciNext, Looks

LEMMA PlacesStep ==
  ASSUME WalkEnds, TableOK, PlacesOK, [AhciNext]_ahciVars
  PROVE  PlacesOK'
<1>1. CASE Looks
  BY <1>1, LooksFacts, SameTable, PlacesKept DEF InUse
<1>2. CASE RemoveDrives
  <2>1. InUse' \subseteq InUse /\ \A i \in InUse' : SameDrive(i)
    BY <1>2, RemovedFacts DEF RemoveDrives, TableOK
  <2> QED
    BY <2>1, SameFacts, PlacesKept
<1>3. CASE VisitToAdd
  <2>1. PICK p \in Place :
           /\ pos \in DOMAIN Places /\ Places[pos] = p
           /\ PassesOver(p) \/ FindsAgain(p) \/ \E f \in Slot : AddsIn(p, f)
    BY <1>3, AddCases
  <2>2. CASE PassesOver(p)
    BY <2>2, PlacesKept DEF PassesOver, InUse, PlaceOf
  <2>3. CASE FindsAgain(p)
    BY <2>3, SameTable, PlacesKept DEF FindsAgain, InUse
  <2>4. ASSUME NEW f \in Slot, AddsIn(p, f) PROVE PlacesOK'
    <3>1. /\ InUse' = InUse \cup {f} /\ f \notin InUse /\ PlaceOf(f)' = Stored(p)
          /\ \A i \in InUse : PlaceOf(i)' = PlaceOf(i) /\ PlaceOf(i) # p
      <4>1. \A i \in InUse : i \in Slot \ {f}
        BY <2>4 DEF AddsIn, InUse
      <4>2. \A i \in InUse : PlaceOf(i) # p
        BY <2>4 DEF AddsIn, Known
      <4> QED
        BY <2>4, <4>1, <4>2, SameFacts DEF AddsIn
    <3>2. p \in Visited /\ (Stored(p) \in Place => Stored(p) = p)
      BY <2>1, StoredIsPlace DEF Visited
    <3>3. \A i \in InUse' : \E q \in Visited : PlaceOf(i)' = Stored(q)
      BY <3>1, <3>2 DEF PlacesOK
    <3>4. ASSUME NEW i \in InUse', NEW j \in InUse', PlaceOf(i)' = PlaceOf(j)',
                 PlaceOf(i)' \in Place
          PROVE  i = j
      <4>1. CASE i \in InUse /\ j \in InUse
        BY <3>1, <3>4, <4>1 DEF PlacesOK
      <4>2. CASE i = f \/ j = f
        BY <3>1, <3>2, <3>4, <4>2
      <4> QED
        BY <3>1, <4>1, <4>2
    <3>5. Visited' = Visited /\ Place' = Place
      BY DEF Visited, Place
    <3> QED
      BY <3>3, <3>4, <3>5 DEF PlacesOK
  <2> QED
    BY <2>1, <2>2, <2>3, <2>4
<1> QED
  BY <1>1, <1>2, <1>3, NextLooks
-----------------------------------------------------------------------------
(* A drive that stays where it is has been found again, or will be unless  *)
(* the scan is given up.                                                   *)
ToBeFound(i) ==
  /\ PlaceOf(i) \in attached
  /\ drives[i].scanned \/ \E n \in DOMAIN Places : n >= pos /\ Places[n] = PlaceOf(i)

KeptOK ==
  \A k \in kept :
    /\ phase = "mark" /\ scan_error = "none" =>
         \E i \in InUse : IdOf(i) = k /\ ToBeFound(i)
    /\ phase \in {"mark", "add", "done"} => \E i \in InUse : IdOf(i) = k

LEMMA KeptStep ==
  ASSUME WalkEnds, TableOK, PlacesOK, KeptOK, [AhciNext]_ahciVars
  PROVE  KeptOK'
<1>0. /\ drives \in [Slot -> Drive] /\ attached \subseteq Place /\ pos \in Nat
      /\ InUse \subseteq Slot
      /\ Len(Places) \in Nat /\ DOMAIN Places = 1 .. Len(Places)
  BY WalkFacts DEF TableOK, InUse
<1>1. CASE UNCHANGED ahciVars \/ get_next_device \/ Start
  <2>1. UNCHANGED <<drives, attached, phase, pos, kept, scan_error>>
    BY <1>1 DEF ahciVars, get_next_device, Start
  <2> QED
    BY <2>1 DEF KeptOK, InUse, IdOf, ToBeFound, PlaceOf
<1>2. CASE ScanBegin
  <2>1. /\ kept' = {IdOf(i) : i \in {j \in InUse : PlaceOf(j) \in attached}}
        /\ phase' = "mark" /\ pos' = 1 /\ attached' = attached
    BY <1>2 DEF ScanBegin
  <2>2. InUse' = InUse /\ \A i \in Slot : PlaceOf(i)' = PlaceOf(i) /\ IdOf(i)' = IdOf(i)
    BY <1>2, LooksFacts, SameTable DEF Looks
  <2>3. ASSUME NEW k \in kept'
        PROVE  \E i \in InUse' : IdOf(i)' = k /\ ToBeFound(i)'
    <3>1. PICK i \in InUse : k = IdOf(i) /\ PlaceOf(i) \in attached
      BY <2>1, <2>3
    <3>2. PICK n \in DOMAIN Places : Places[n] = PlaceOf(i)
      BY <1>0, <3>1, PlaceIsVisited DEF Visited
    <3>3. n >= pos'
      BY <1>0, <2>1
    <3>4. ToBeFound(i)'
      BY <1>0, <2>1, <2>2, <3>1, <3>2, <3>3 DEF ToBeFound
    <3> QED
      BY <1>0, <2>2, <3>1, <3>4
  <2> QED
    BY <2>1, <2>3 DEF KeptOK
<1>3. CASE VisitToMark
  <2>1. /\ phase = "mark" /\ phase' = "mark" /\ pos' = pos + 1 /\ attached' = attached
        /\ kept' = kept /\ scan_error' = scan_error
    BY <1>3 DEF VisitToMark
  <2>2. InUse' = InUse /\ \A i \in Slot : PlaceOf(i)' = PlaceOf(i) /\ IdOf(i)' = IdOf(i)
    BY <1>3, LooksFacts, SameTable DEF Looks
  <2>3. PICK p : p = Places[pos]
    OBVIOUS
  <2>4. ASSUME NEW k \in kept', scan_error = "none"
        PROVE  \E i \in InUse' : IdOf(i)' = k /\ ToBeFound(i)'
    <3>1. PICK i \in InUse : IdOf(i) = k /\ ToBeFound(i)
      BY <2>1, <2>4 DEF KeptOK
    <3>2. CASE drives[i].scanned
      <4>1. drives'[i].scanned
        BY <1>0, <1>3, <3>2, MarkFacts DEF VisitToMark
      <4> QED
        BY <1>0, <2>1, <2>2, <3>1, <4>1 DEF ToBeFound
    <3>3. CASE \E n \in DOMAIN Places : n > pos /\ Places[n] = PlaceOf(i)
      <4>1. PICK n \in DOMAIN Places : n > pos /\ Places[n] = PlaceOf(i)
        BY <3>3
      <4>2. n >= pos'
        BY <1>0, <2>1, <4>1
      <4> QED
        BY <1>0, <2>1, <2>2, <3>1, <4>1, <4>2 DEF ToBeFound
    <3>4. CASE p = PlaceOf(i)
      <4>1. p \in attached /\ i \in Known(p)
        BY <3>1, <3>4 DEF ToBeFound, Known
      <4>2. Mark(p)
        BY <1>3, <2>3, <2>4, <4>1 DEF VisitToMark
      <4>3. PICK j \in Known(p) : drives'[j].scanned
        BY <1>0, <4>1, <4>2, MarkFacts
      <4>4. j = i
        BY <1>0, <4>1, <4>3 DEF Known, PlacesOK
      <4> QED
        BY <1>0, <2>1, <2>2, <3>1, <4>3, <4>4 DEF ToBeFound
    <3> QED
      <4>1. drives[i].scanned \/ \E n \in DOMAIN Places : n >= pos /\ Places[n] = PlaceOf(i)
        BY <3>1 DEF ToBeFound
      <4>2. \A n \in DOMAIN Places : n >= pos => n > pos \/ n = pos
        BY <1>0
      <4> QED
        BY <2>3, <3>2, <3>3, <3>4, <4>1, <4>2
  <2>5. \A k \in kept' : \E i \in InUse' : IdOf(i)' = k
    BY <1>0, <2>1, <2>2 DEF KeptOK
  <2> QED
    BY <2>1, <2>4, <2>5 DEF KeptOK
<1>4. CASE RemoveDrives
  <2>1. /\ phase = "mark" /\ pos > Len(Places) /\ phase' = "add" /\ kept' = kept
        /\ scan_error = "none"
    BY <1>4 DEF RemoveDrives
  <2>2. InUse' = {i \in InUse : drives[i].scanned} /\ \A i \in InUse' : SameDrive(i)
    BY <1>0, <1>4, RemovedFacts DEF RemoveDrives
  <2>3. ASSUME NEW k \in kept'
        PROVE  \E i \in InUse' : IdOf(i)' = k
    <3>1. PICK i \in InUse : IdOf(i) = k /\ ToBeFound(i)
      BY <2>1, <2>3 DEF KeptOK
    <3>2. drives[i].scanned
      BY <1>0, <2>1, <3>1 DEF ToBeFound
    <3> QED
      BY <2>2, <3>1, <3>2, SameFacts
  <2> QED
    BY <2>1, <2>3 DEF KeptOK
<1>5. CASE VisitToAdd
  <2>1. phase = "add" /\ phase' = "add" /\ kept' = kept
    BY <1>5 DEF VisitToAdd
  <2>2. PICK p \in Place : PassesOver(p) \/ FindsAgain(p) \/ \E f \in Slot : AddsIn(p, f)
    BY <1>5, AddCases
  <2>3. \A i \in InUse : i \in InUse' /\ IdOf(i)' = IdOf(i)
    <3>1. CASE PassesOver(p)
      BY <3>1 DEF PassesOver, InUse, IdOf
    <3>2. CASE FindsAgain(p)
      BY <1>0, <3>2, SameTable DEF FindsAgain
    <3>3. ASSUME NEW f \in Slot, AddsIn(p, f)
          PROVE  \A i \in InUse : i \in InUse' /\ IdOf(i)' = IdOf(i)
      <4>1. \A i \in InUse : i \in Slot \ {f}
        BY <1>0, <3>3 DEF AddsIn
      <4> QED
        BY <3>3, <4>1, SameFacts DEF AddsIn
    <3> QED
      BY <2>2, <3>1, <3>2, <3>3
  <2> QED
    BY <2>1, <2>3 DEF KeptOK
<1>6. CASE ScanDone
  <2>1. phase \in {"mark", "add"} /\ phase' = "done" /\ kept' = kept /\ drives' = drives
    BY <1>6 DEF ScanDone
  <2> QED
    BY <2>1 DEF KeptOK, InUse, IdOf
<1>7. CASE ScanEnd
  BY <1>7 DEF ScanEnd, KeptOK
<1>8. ASSUME NEW p \in Place, Plug(p) PROVE KeptOK'
  <2>1. /\ attached' = attached \cup {p} /\ drives' = drives /\ phase' = phase
        /\ pos' = pos /\ kept' = kept /\ scan_error' = scan_error
    BY <1>8 DEF Plug
  <2>2. \A i : ToBeFound(i) => ToBeFound(i)'
    BY <2>1 DEF ToBeFound, PlaceOf
  <2>3. InUse' = InUse /\ \A i : IdOf(i)' = IdOf(i)
    BY <2>1 DEF InUse, IdOf
  <2> QED
    BY <2>1, <2>2, <2>3 DEF KeptOK
<1>9. ASSUME NEW p \in Place, Unplug(p) PROVE KeptOK'
  <2>1. /\ attached' = attached \ {p} /\ drives' = drives /\ phase' = phase /\ pos' = pos
        /\ scan_error' = scan_error
        /\ kept' = {k \in kept : PlaceOf(get_stamp_id_ptr(k) - 1) # p}
    BY <1>9 DEF Unplug
  <2>2. InUse' = InUse /\ \A i : IdOf(i)' = IdOf(i) /\ PlaceOf(i)' = PlaceOf(i)
    BY <2>1 DEF InUse, IdOf, PlaceOf
  <2>3. ASSUME NEW k \in kept', NEW i \in InUse, IdOf(i) = k, ToBeFound(i)
        PROVE  ToBeFound(i)'
    <3>1. i \in Slot /\ i \in Int /\ drives[i].stamp \in Nat
      BY <1>0, AhciAssumption DEF Drive, Slot
    <3>2. get_stamp_id_ptr(k) - 1 = i
      BY <2>3, <3>1, SlotIdFacts DEF IdOf
    <3>3. PlaceOf(i) # p
      BY <2>1, <3>2
    <3> QED
      BY <2>1, <2>2, <2>3, <3>3 DEF ToBeFound
  <2>4. kept' \subseteq kept
    BY <2>1
  <2> QED
    BY <2>1, <2>2, <2>3, <2>4 DEF KeptOK
<1>10. CASE ScanRefused
  <2>1. scan_error' = "memory" /\ UNCHANGED <<drives, phase, kept>>
    BY <1>10 DEF ScanRefused
  <2> QED
    BY <2>1 DEF KeptOK, InUse, IdOf
<1> QED
  BY <1>1, <1>2, <1>3, <1>4, <1>5, <1>6, <1>7, <1>8, <1>9, <1>10 DEF AhciNext

LEMMA ScanInit == AhciInit => PlacesOK /\ KeptOK
  BY DEF AhciInit, PlacesOK, KeptOK, InUse

(* scan_devices does not remove a drive that is attached all the time and  *)
(* whose place its bit fields hold, nor does it change the drive's id, on  *)
(* every machine whose buses the walk of scan_pci comes to an end on.      *)
THEOREM ScanKeepsDrives ==
  ASSUME WalkEnds
  PROVE  AhciSpec => []DrivesAreKept
<1>1. KeptOK => DrivesAreKept
  BY DEF KeptOK, DrivesAreKept
<1>2. AhciInit => TableOK /\ PlacesOK /\ KeptOK
  BY TableInit, ScanInit
<1>3. TableOK /\ PlacesOK /\ KeptOK /\ [AhciNext]_ahciVars
        => (TableOK /\ PlacesOK /\ KeptOK)'
  BY TableStep, PlacesStep, KeptStep
<1> QED
  BY <1>1, <1>2, <1>3, PTL DEF AhciSpec
-----------------------------------------------------------------------------
(* The second visit has passed place p. *)
Passed(p) == \E n \in DOMAIN Places : n < pos /\ Places[n] = p

VisitedTwice(p) ==
  \E n, m \in DOMAIN Places : n # m /\ Places[n] = p /\ Places[m] = p

(* What the table holds for an attached place p: its drive once it has     *)
(* been passed, and, if the bit fields do not hold p, none before, and one *)
(* afterwards unless p is visited twice                                    *)
HeldFor(p) ==
  /\ Passed(p) => \E i \in InUse : PlaceOf(i) = Stored(p)
  /\ Stored(p) # p /\ ~Passed(p) => \A i \in InUse : PlaceOf(i) # Stored(p)
  /\ Stored(p) # p => \A i, j \in InUse :
       PlaceOf(i) = Stored(p) /\ PlaceOf(j) = Stored(p) /\ i # j => VisitedTwice(p)

TableHolds ==
  /\ \A i \in InUse : \E p \in attached : PlaceOf(i) = Stored(p)
  /\ \A p \in attached : HeldFor(p)

(* As long as nothing is plugged, what the first visit marks is attached,  *)
(* and the second visit keeps to TableHolds.                               *)
ScanOK ==
  /\ phase = "mark" /\ unchanged =>
       \A i \in InUse : drives[i].scanned => PlaceOf(i) \in attached
  /\ phase \in {"add", "done"} /\ unchanged /\ scan_error = "none" => TableHolds

(* A place that is passed or found again: only the places passed change. *)
LEMMA HoldsOn ==
  ASSUME InUse' = InUse, \A i \in InUse : PlaceOf(i)' = PlaceOf(i),
         attached' = attached, TableHolds,
         \A p \in attached : \/ Passed(p)' <=> Passed(p)
                             \/ /\ Passed(p)' /\ Stored(p) = p
                                /\ \E i \in InUse : PlaceOf(i) = Stored(p)
  PROVE  TableHolds'
<1>1. \A i \in InUse' : \E p \in attached' : PlaceOf(i)' = Stored(p)
  BY DEF TableHolds
<1>2. ASSUME NEW p \in attached PROVE HeldFor(p)'
  <2>1. HeldFor(p)
    BY DEF TableHolds
  <2>2. VisitedTwice(p)' = VisitedTwice(p) /\ Stored(p)' = Stored(p)
    BY DEF VisitedTwice
  <2>3. CASE Passed(p)' <=> Passed(p)
    BY <2>1, <2>2, <2>3 DEF HeldFor
  <2>4. CASE /\ Passed(p)' /\ Stored(p) = p
             /\ \E i \in InUse : PlaceOf(i) = Stored(p)
    BY <2>4 DEF HeldFor
  <2> QED
    BY <2>3, <2>4
<1> QED
  BY <1>1, <1>2 DEF TableHolds

(* A step to the next place passes that one only. *)
LEMMA PassedFacts ==
  ASSUME WalkEnds, NEW p, pos \in DOMAIN Places, Places[pos] = p, pos' = pos + 1
  PROVE  /\ Passed(p)'
         /\ \A q : q # p => (Passed(q)' <=> Passed(q))
<1>1. DOMAIN Places = 1 .. Len(Places) /\ Len(Places) \in Nat
  BY WalkFacts
<1>2. \A n \in DOMAIN Places : n < pos' <=> n < pos \/ n = pos
  BY <1>1
<1> QED
  BY <1>2 DEF Passed

(* The table, once a drive was added for place p *)
LEMMA HoldsAdded ==
  ASSUME WalkEnds, TableOK, TableHolds, NEW p \in attached,
         pos \in DOMAIN Places, Places[pos] = p, pos' = pos + 1, attached' = attached,
         NEW f \in Slot, AddsIn(p, f)
  PROVE  TableHolds'
<1>1. /\ InUse' = InUse \cup {f} /\ f \notin InUse /\ PlaceOf(f)' = Stored(p)
      /\ \A i \in InUse : PlaceOf(i)' = PlaceOf(i)
  <2>1. \A i \in InUse : i \in Slot \ {f}
    BY DEF AddsIn, InUse
  <2> QED
    BY <2>1, SameFacts DEF AddsIn
<1>2. Passed(p)' /\ \A q : q # p => (Passed(q)' <=> Passed(q))
  BY PassedFacts
<1>3. \A i \in InUse' : \E q \in attached' : PlaceOf(i)' = Stored(q)
  BY <1>1 DEF TableHolds
<1>4. ASSUME NEW q \in attached PROVE HeldFor(q)'
  <2>0. HeldFor(q)
    BY DEF TableHolds
  <2>1. VisitedTwice(q)' = VisitedTwice(q)
    BY DEF VisitedTwice
  <2>2. CASE q # p
    <3>1. Stored(q) # Stored(p)
      BY <2>2, StoredDiffers DEF TableOK
    <3>2. \A i \in InUse' : PlaceOf(i)' = Stored(q) <=> i \in InUse /\ PlaceOf(i) = Stored(q)
      BY <1>1, <3>1
    <3> QED
      BY <1>1, <1>2, <2>0, <2>1, <2>2, <3>2 DEF HeldFor
  <2>3. CASE q = p
    <3>1. \E i \in InUse' : PlaceOf(i)' = Stored(p)
      BY <1>1
    <3>2. ASSUME Stored(p) # p, NEW i \in InUse', NEW j \in InUse',
                 PlaceOf(i)' = Stored(p), PlaceOf(j)' = Stored(p), i # j
          PROVE  VisitedTwice(p)
      <4>1. CASE i \in InUse /\ j \in InUse
        BY <1>1, <2>0, <2>3, <3>2, <4>1 DEF HeldFor
      <4>2. CASE i = f \/ j = f
        <5>1. PICK k \in InUse : PlaceOf(k) = Stored(p)
          BY <1>1, <3>2, <4>2
        <5>2. Passed(p)
          BY <2>0, <2>3, <3>2, <5>1 DEF HeldFor
        <5>3. PICK n \in DOMAIN Places : n < pos /\ Places[n] = p
          BY <5>2 DEF Passed
        <5>4. n # pos
          BY <5>3, WalkFacts
        <5> QED
          BY <5>3, <5>4 DEF VisitedTwice
      <4> QED
        BY <1>1, <4>1, <4>2
    <3> QED
      BY <1>2, <2>1, <2>3, <3>1, <3>2 DEF HeldFor
  <2> QED
    BY <2>2, <2>3
<1> QED
  BY <1>3, <1>4 DEF TableHolds

(* Before the second visit, when nothing has been passed yet *)
LEMMA HoldsRemoved ==
  ASSUME WalkEnds, TableOK, PlacesOK, RemoveDrives,
         \A i \in InUse : drives[i].scanned => PlaceOf(i) \in attached
  PROVE  TableHolds'
<1>0. attached' = attached /\ attached \subseteq Place /\ pos' = 1
  BY DEF RemoveDrives, TableOK
<1>1. InUse' = {i \in InUse : drives[i].scanned} /\ \A i \in InUse' : SameDrive(i)
  BY RemovedFacts DEF RemoveDrives, TableOK
<1>2. \A i \in InUse' : /\ i \in InUse /\ PlaceOf(i)' = PlaceOf(i)
                        /\ PlaceOf(i) \in attached /\ Stored(PlaceOf(i)) = PlaceOf(i)
  BY <1>0, <1>1, SameFacts, PlaceIsVisited
<1>3. \A i \in InUse' : \E p \in attached' : PlaceOf(i)' = Stored(p)
  BY <1>0, <1>2
<1>4. ASSUME NEW p \in attached PROVE HeldFor(p)'
  <2>1. ~Passed(p)'
    BY <1>0, WalkFacts DEF Passed
  <2>2. ASSUME NEW i \in InUse', PlaceOf(i)' = Stored(p)
        PROVE  Stored(p) = p
    BY <1>0, <1>2, <2>2, StoredIsPlace
  <2> QED
    BY <2>1, <2>2 DEF HeldFor
<1> QED
  BY <1>0, <1>3, <1>4 DEF TableHolds

LEMMA ScanStep ==
  ASSUME WalkEnds, TableOK, PlacesOK, ScanOK, [AhciNext]_ahciVars
  PROVE  ScanOK'
<1>0. /\ drives \in [Slot -> Drive] /\ attached \subseteq Place /\ pos \in Nat
      /\ InUse \subseteq Slot
  BY DEF TableOK, InUse
<1>1. CASE UNCHANGED ahciVars \/ get_next_device \/ Start
  <2>1. UNCHANGED <<drives, attached, phase, pos, unchanged, scan_error>>
    BY <1>1 DEF ahciVars, get_next_device, Start
  <2>2. TableHolds' = TableHolds
    BY <2>1 DEF TableHolds, HeldFor, Passed, InUse, PlaceOf, VisitedTwice
  <2> QED
    BY <2>1, <2>2 DEF ScanOK, InUse, PlaceOf
<1>2. CASE ScanBegin
  <2>1. phase' = "mark"
    BY <1>2 DEF ScanBegin
  <2>2. InUse' = InUse
    BY <1>2, LooksFacts, SameTable DEF Looks
  <2>3. ASSUME NEW i \in InUse PROVE ~drives'[i].scanned
    <3>1. drives[i].in_use
      BY DEF InUse
    <3>2. drives'[i] = [drives[i] EXCEPT !.scanned = FALSE]
      BY <1>0, <1>2, <3>1 DEF ScanBegin
    <3> QED
      BY <1>0, <3>2 DEF Drive
  <2> QED
    BY <2>1, <2>2, <2>3 DEF ScanOK
<1>3. CASE VisitToMark
  <2>1. phase = "mark" /\ phase' = "mark" /\ attached' = attached /\ unchanged' = unchanged
    BY <1>3 DEF VisitToMark
  <2>2. InUse' = InUse /\ \A i \in Slot : PlaceOf(i)' = PlaceOf(i)
    BY <1>3, LooksFacts, SameTable DEF Looks
  <2>3. ASSUME NEW i \in InUse, drives'[i].scanned
        PROVE  drives[i].scanned \/ PlaceOf(i) \in attached
    <3>1. CASE Places[pos] \in attached /\ scan_error = "none"
      <4>1. Mark(Places[pos])
        BY <1>3, <3>1 DEF VisitToMark
      <4> QED
        BY <1>0, <2>3, <3>1, <4>1, MarkFacts DEF Known
    <3>2. CASE ~(Places[pos] \in attached /\ scan_error = "none")
      BY <1>3, <2>3, <3>2 DEF VisitToMark
    <3> QED
      BY <3>1, <3>2
  <2> QED
    BY <1>0, <2>1, <2>2, <2>3 DEF ScanOK
<1>4. CASE RemoveDrives
  <2>1. phase = "mark" /\ phase' = "add" /\ unchanged' = unchanged
    BY <1>4 DEF RemoveDrives
  <2> QED
    BY <1>4, <2>1, HoldsRemoved DEF ScanOK
<1>5. CASE VisitToAdd
  <2>1. /\ phase = "add" /\ phase' = "add" /\ unchanged' = unchanged
        /\ attached' = attached /\ pos' = pos + 1
    BY <1>5 DEF VisitToAdd
  <2>2. PICK p \in Place :
           /\ pos \in DOMAIN Places /\ Places[pos] = p
           /\ scan_error # "none" => scan_error' # "none"
           /\ PassesOver(p) \/ FindsAgain(p) \/ \E f \in Slot : AddsIn(p, f)
    BY <1>5, AddCases
  <2>3. Passed(p)' /\ \A q : q # p => (Passed(q)' <=> Passed(q))
    BY <2>1, <2>2, PassedFacts
  <2>4. ASSUME unchanged', scan_error' = "none"
        PROVE  TableHolds'
    <3>1. TableHolds /\ scan_error = "none"
      BY <2>1, <2>2, <2>4 DEF ScanOK
    <3>2. CASE PassesOver(p)
      <4>1. p \notin attached /\ drives' = drives
        BY <2>4, <3>1, <3>2 DEF PassesOver
      <4>2. InUse' = InUse /\ \A i \in InUse : PlaceOf(i)' = PlaceOf(i)
        BY <4>1 DEF InUse, PlaceOf
      <4> QED
        BY <2>1, <2>3, <3>1, <4>1, <4>2, HoldsOn
    <3>3. CASE FindsAgain(p)
      <4>1. InUse' = InUse /\ \A i \in InUse : PlaceOf(i)' = PlaceOf(i)
        BY <1>0, <3>3, SameTable DEF FindsAgain
      <4>2. PICK i \in InUse : PlaceOf(i) = p
        BY <3>3 DEF FindsAgain, Known
      <4>3. Stored(p) = p
        BY <4>2, PlaceIsVisited
      <4> QED
        BY <2>1, <2>3, <3>1, <4>1, <4>2, <4>3, HoldsOn
    <3>4. ASSUME NEW f \in Slot, AddsIn(p, f) PROVE TableHolds'
      <4>1. p \in attached
        BY <3>4 DEF AddsIn
      <4> QED
        BY <2>1, <2>2, <3>1, <3>4, <4>1, HoldsAdded
    <3> QED
      BY <2>2, <3>2, <3>3, <3>4
  <2> QED
    BY <2>1, <2>4 DEF ScanOK
<1>6. CASE ScanDone
  <2>1. /\ phase = "add" \/ scan_error # "none"
        /\ phase' = "done"
        /\ UNCHANGED <<drives, attached, pos, unchanged, scan_error>>
    BY <1>6 DEF ScanDone
  <2>2. TableHolds' = TableHolds
    BY <2>1 DEF TableHolds, HeldFor, Passed, InUse, PlaceOf, VisitedTwice
  <2> QED
    BY <2>1, <2>2 DEF ScanOK
<1>7. CASE ScanEnd
  BY <1>7 DEF ScanEnd, ScanOK
<1>8. CASE \E p \in Place : Plug(p) \/ Unplug(p)
  BY <1>8 DEF Plug, Unplug, ScanOK
<1>9. CASE ScanRefused
  <2>1. scan_error' = "memory" /\ UNCHANGED <<drives, attached, phase, unchanged>>
    BY <1>9 DEF ScanRefused
  <2> QED
    BY <2>1 DEF ScanOK, InUse, PlaceOf
<1> QED
  BY <1>1, <1>2, <1>3, <1>4, <1>5, <1>6, <1>7, <1>8, <1>9 DEF AhciNext

(* At the end of a scan without an error, during which nothing was plugged *)
(* or taken away, the table of ahci.c holds the attached drives and no     *)
(* others, each once, on every machine whose controllers the walk over the *)
(* buses all reaches.                                                      *)
THEOREM ScanFindsAll ==
  ASSUME WalkEnds, WalkReachesAll
  PROVE  AhciSpec => []ScanIsExact
<1>1. TableOK /\ PlacesOK /\ ScanOK => ScanIsExact
  <2> SUFFICES ASSUME TableOK, PlacesOK, ScanOK, phase = "done",
                      scan_error = "none", unchanged
               PROVE  /\ {PlaceOf(i) : i \in InUse} = {Stored(p) : p \in attached}
                      /\ \A p \in attached :
                           Stored(p) = p \/ Cardinality({n \in DOMAIN Places : Places[n] = p}) = 1
                             => Cardinality({i \in InUse : PlaceOf(i) = Stored(p)}) = 1
    BY DEF ScanIsExact
  <2>0. TableHolds /\ attached \subseteq Place /\ pos \in Nat /\ pos > Len(Places)
    BY DEF ScanOK, TableOK
  <2>1. \A p \in attached : Passed(p)
    BY <2>0, WalkFacts DEF WalkReachesAll, Passed
  <2>2. \A p \in attached : \E i \in InUse : PlaceOf(i) = Stored(p)
    BY <2>0, <2>1 DEF TableHolds, HeldFor
  <2>3. \A i \in InUse : \E p \in attached : PlaceOf(i) = Stored(p)
    BY <2>0 DEF TableHolds
  <2>4. {PlaceOf(i) : i \in InUse} = {Stored(p) : p \in attached}
    BY <2>2, <2>3
  <2>5. ASSUME NEW p \in attached,
               Stored(p) = p \/ Cardinality({n \in DOMAIN Places : Places[n] = p}) = 1
        PROVE  Cardinality({i \in InUse : PlaceOf(i) = Stored(p)}) = 1
    <3>1. PICK i \in InUse : PlaceOf(i) = Stored(p)
      BY <2>2
    <3>2. ASSUME NEW j \in InUse, PlaceOf(j) = Stored(p), j # i PROVE FALSE
      <4>1. CASE Stored(p) = p
        BY <2>0, <3>1, <3>2, <4>1 DEF PlacesOK
      <4>2. CASE Stored(p) # p
        <5>1. PICK n \in DOMAIN Places, m \in DOMAIN Places :
                n # m /\ Places[n] = p /\ Places[m] = p
          BY <2>0, <3>1, <3>2, <4>2 DEF TableHolds, HeldFor, VisitedTwice
        <5>2. PICK T : T = {l \in DOMAIN Places : Places[l] = p}
          OBVIOUS
        <5>3. IsFiniteSet(T)
          <6>1. T \in SUBSET (1 .. Len(Places)) /\ Len(Places) \in Int /\ 1 \in Int
            BY <5>2, WalkFacts
          <6> QED
            BY <6>1, FS_Interval, FS_Subset
        <5>4. \E x : T = {x}
          BY <2>5, <4>2, <5>2, <5>3, FS_Singleton
        <5> QED
          BY <5>1, <5>2, <5>4
      <4> QED
        BY <4>1, <4>2
    <3>3. {j \in InUse : PlaceOf(j) = Stored(p)} = {i}
      BY <3>1, <3>2
    <3> QED
      BY <3>3, FS_Singleton
  <2> QED
    BY <2>4, <2>5
<1>2. AhciInit => TableOK /\ PlacesOK /\ ScanOK
  BY TableInit, ScanInit DEF AhciInit, ScanOK
<1>3. TableOK /\ PlacesOK /\ ScanOK /\ [AhciNext]_ahciVars
        => (TableOK /\ PlacesOK /\ ScanOK)'
  BY TableStep, PlacesStep, ScanStep
<1> QED
  BY <1>1, <1>2, <1>3, PTL DEF AhciSpec
-----------------------------------------------------------------------------
(* Division, by divisors that are not given numbers *)
LEMMA DivFacts ==
  ASSUME NEW n \in Nat, NEW d \in Nat \ {0}
  PROVE  n \div d \in Nat /\ n % d \in 0 .. d - 1 /\ n = d * (n \div d) + (n % d)
  BY Z3

LEMMA DivSplit ==
  ASSUME NEW n \in Nat, NEW d \in Nat \ {0}
  PROVE  \E q \in Nat, r \in 0 .. d - 1 : q = n \div d /\ r = n % d /\ n = d * q + r
  BY DivFacts

LEMMA DivUnique ==
  ASSUME NEW d \in Nat \ {0}, NEW q \in Nat, NEW r \in 0 .. d - 1
  PROVE  (d * q + r) \div d = q /\ (d * q + r) % d = r
  BY Z3

LEMMA DivLess ==
  ASSUME NEW d \in Nat \ {0}, NEW m \in Nat, NEW n \in Nat, n < d * m
  PROVE  n \div d < m
  BY Z3

LEMMA DivDiv ==
  ASSUME NEW n \in Nat, NEW d \in Nat \ {0}
  PROVE  n \div (d * d) = (n \div d) \div d
  BY Z3

(* SIZE_ELEMENTS: as many units as it takes *)
LEMMA ElementsFacts ==
  ASSUME NEW d \in Nat \ {0}, NEW m \in Nat \ {0}, NEW n \in 0 .. m - 1
  PROVE  Elements(m, d) \in Nat \ {0} /\ n \div d < Elements(m, d)
<1>1. PICK k \in Nat : k = m + d - 1
  OBVIOUS
<1>2. PICK q \in Nat, r \in 0 .. d - 1 : q = k \div d /\ k = d * q + r
  BY DivFacts
<1>3. n < d * q
  BY <1>1, <1>2
<1>4. n \div d < q /\ n \div d \in Nat
  BY <1>3, DivLess, DivFacts
<1> QED
  BY <1>1, <1>2, <1>4 DEF Elements
-----------------------------------------------------------------------------
(* The sizes that the widths of the fields amount to *)
Unit == 2 ^ Addr0Shift
Field == 2 ^ Addr0Bits
Frames == 2 ^ (Addr0Bits - TableBits)
Half == 2 ^ (IntBits - 1)
Ints == 2 ^ IntBits

LEMMA SizeFacts ==
  /\ D \in Nat \ {0} /\ Unit \in Nat \ {0} /\ Field \in Nat \ {0}
  /\ Frames \in Nat \ {0} /\ Half \in Nat \ {0}
  /\ Ints \in Nat \ {0} /\ PageSize \in Nat \ {0}
  /\ PageSize = Unit * D /\ Field = D * Frames /\ Ints = Unit * Field
  /\ Ints = 2 * Half /\ 2 ^ AddrBits = Ints * Ints
  /\ 2 ^ (AddrBits - Addr0Shift) = Ints * Field
<1>1. /\ D \in Nat \ {0} /\ Unit \in Nat \ {0} /\ Field \in Nat \ {0}
      /\ Frames \in Nat \ {0} /\ Half \in Nat \ {0}
  BY PowerLaws DEF D, Unit, Field, Frames, Half
<1>2. PageSize = Unit * D /\ Field = D * Frames /\ Ints = Unit * Field /\ Ints = 2 * Half
  BY PowerLaws DEF D, Unit, Field, Frames, Half, Ints
<1>3. 2 ^ AddrBits = Ints * Ints /\ 2 ^ (AddrBits - Addr0Shift) = Ints * Field
  BY PowerLaws DEF Ints, Field
<1>4. Ints \in Nat \ {0} /\ PageSize \in Nat \ {0}
  BY <1>1, <1>2
<1> QED
  BY <1>1, <1>2, <1>3, <1>4

LEMMA TableFacts ==
  /\ PDs \in Nat \ {0} /\ PDPTs \in Nat \ {0} /\ PDPTs <= D /\ Tables = PDs + PDPTs + 1
  /\ Pages \in Nat \ {0}
<1>1. Pages \in Nat \ {0} /\ PDPTs <= D
  BY PageMapAssumption
<1>2. PDs \in Nat \ {0}
  BY <1>1, SizeFacts, ElementsFacts DEF PDs
<1>3. PDPTs \in Nat \ {0}
  BY <1>2, SizeFacts, ElementsFacts DEF PDPTs
<1> QED
  BY <1>1, <1>2, <1>3 DEF Tables

(* A page's entries: in the PML4, in a PDPT, and its table *)
Pml4i(p) == p \div (D * D)
Pdpti(p) == (p \div D) % D
TableOf(p) == p \div D + 2 + (p \div D) \div D

LEMMA Layout ==
  ASSUME NEW p \in 0 .. Pages - 1
  PROVE  \E i \in 0 .. D - 1, j \in 0 .. D - 1, e \in 0 .. D - 1 :
           /\ i = Pml4i(p) /\ j = Pdpti(p) /\ e = p % D
           /\ i < PDPTs /\ i * D + j < PDs
           /\ TableOf(p) = Pd(i, j) /\ p = (i * D + j) * D + e
           /\ TableOf(p) \in 1 .. Tables - 1 /\ Pdpt(i) \in 1 .. Tables - 1
<1>0. D \in Nat \ {0} /\ PDs \in Nat \ {0} /\ PDPTs \in Nat \ {0} /\ PDPTs <= D
        /\ Tables = PDs + PDPTs + 1 /\ Pages \in Nat \ {0} /\ p \in Nat
  BY SizeFacts, TableFacts
<1>1. PICK t \in Nat, e \in 0 .. D - 1 : t = p \div D /\ e = p % D /\ p = D * t + e
  BY <1>0, DivFacts
<1>2. PICK i \in Nat, j \in 0 .. D - 1 : i = t \div D /\ j = t % D /\ t = D * i + j
  BY <1>0, DivFacts
<1>3. i = Pml4i(p) /\ j = Pdpti(p)
  BY <1>0, <1>1, <1>2, DivDiv DEF Pml4i, Pdpti
<1>4. t < PDs
  BY <1>0, <1>1, ElementsFacts DEF PDs
<1>5. i < PDPTs
  <2>1. t \in 0 .. PDs - 1
    BY <1>0, <1>4
  <2> QED
    BY <1>0, <1>2, <2>1, ElementsFacts DEF PDPTs
<1>6. TableOf(p) = t + 2 + i
  BY <1>1, <1>2 DEF TableOf
<1>7. i * (D + 1) = i * D + i /\ i * D = D * i /\ i * D \in Nat
  BY <1>0
<1>8. Pdpt(i) = 1 + i * D + i /\ Pd(i, j) = 2 + i * D + i + j
  BY <1>0, <1>7 DEF Pdpt, Pd
<1>9. p = (i * D + j) * D + e
  <2>1. t = i * D + j /\ t * D = D * t
    BY <1>0, <1>2, <1>7
  <2> QED
    BY <1>1, <2>1
<1>10. TableOf(p) = Pd(i, j) /\ TableOf(p) \in 1 .. Tables - 1 /\ Pdpt(i) \in 1 .. Tables - 1
  BY <1>0, <1>2, <1>4, <1>5, <1>6, <1>7, <1>8
<1> QED
  <2>1. i \in 0 .. D - 1 /\ i * D + j < PDs
    BY <1>0, <1>2, <1>4, <1>5, <1>7
  <2> QED
    BY <1>1, <1>2, <1>3, <1>5, <1>9, <1>10, <2>1

(* The table of a page is not one that the processor finds tables by, and  *)
(* no two pages have the same entry of the same table.                     *)
LEMMA PlacesDiffer ==
  ASSUME NEW p \in 0 .. Pages - 1, NEW q \in 0 .. Pages - 1
  PROVE  /\ TableOf(p) # 0 /\ TableOf(p) # Pdpt(Pml4i(q))
         /\ TableOf(p) = TableOf(q) /\ p % D = q % D => p = q
<1>0. D \in Nat \ {0}
  BY SizeFacts
<1>1. PICK i \in 0 .. D - 1, j \in 0 .. D - 1, e \in 0 .. D - 1 :
           /\ e = p % D /\ TableOf(p) = Pd(i, j) /\ p = (i * D + j) * D + e
           /\ TableOf(p) \in 1 .. Tables - 1
  BY Layout
<1>2. PICK k \in 0 .. D - 1, l \in 0 .. D - 1, f \in 0 .. D - 1 :
           /\ k = Pml4i(q) /\ f = q % D /\ TableOf(q) = Pd(k, l) /\ q = (k * D + l) * D + f
  BY Layout
<1>3. /\ Pd(i, j) - 1 = (D + 1) * i + (j + 1) /\ Pd(k, l) - 1 = (D + 1) * k + (l + 1)
      /\ Pdpt(k) - 1 = (D + 1) * k + 0
  BY <1>0 DEF Pd, Pdpt
<1>4. /\ (Pd(i, j) - 1) % (D + 1) = j + 1 /\ (Pd(i, j) - 1) \div (D + 1) = i
      /\ (Pd(k, l) - 1) % (D + 1) = l + 1 /\ (Pd(k, l) - 1) \div (D + 1) = k
      /\ (Pdpt(k) - 1) % (D + 1) = 0
  <2>1. PICK w \in Nat \ {0} : w = D + 1
    BY <1>0
  <2>2. PICK x \in 0 .. w - 1, y \in 0 .. w - 1, z \in 0 .. w - 1 : x = j + 1 /\ y = l + 1 /\ z = 0
    BY <1>0, <2>1
  <2>3. Pd(i, j) - 1 = w * i + x /\ Pd(k, l) - 1 = w * k + y /\ Pdpt(k) - 1 = w * k + z
    BY <1>3, <2>1, <2>2
  <2>4. i \in Nat /\ k \in Nat
    OBVIOUS
  <2>5. /\ (w * i + x) % w = x /\ (w * i + x) \div w = i
        /\ (w * k + y) % w = y /\ (w * k + y) \div w = k /\ (w * k + z) % w = z
    BY <2>4, DivUnique
  <2> QED
    BY <2>1, <2>2, <2>3, <2>5
<1>5. TableOf(p) # Pdpt(k)
  BY <1>1, <1>4
<1>6. Pd(i, j) = Pd(k, l) => i = k /\ j = l
  BY <1>4
<1> QED
  BY <1>1, <1>2, <1>5, <1>6
-----------------------------------------------------------------------------
Desc == [present : BOOLEAN, ps_pat : BOOLEAN, flags : SUBSET FLAGS_MASK,
         avail0 : Nat, address0 : 0 .. Field - 1, address1 : 0 .. Field - 1,
         avail1 : Nat, noexec : BOOLEAN]

LEMMA NoDescFacts == NoDesc \in Desc /\ ~NoDesc.present
  BY SizeFacts DEF NoDesc, Desc

(* What set_page_desc makes of an address *)
LEMMA SetFacts ==
  ASSUME NEW page \in BOOLEAN, NEW address \in Nat
  PROVE  \E d \in Desc :
           /\ d = set_page_desc(TRUE, page, address)
           /\ d.present /\ d.ps_pat = page /\ FlagsOf(d) = {"write"}
           /\ d.address0 = (address \div Unit) % Field
           /\ d.address1 = (address \div Ints) % Field
<1>0. Unit \in Nat \ {0} /\ Field \in Nat \ {0} /\ Ints \in Nat \ {0}
  BY SizeFacts
<1>1. PICK a \in 0 .. Field - 1 : a = (address \div Unit) % Field
  BY <1>0, DivFacts
<1>2. PICK b \in 0 .. Field - 1 : b = (address \div Ints) % Field
  BY <1>0, DivFacts
<1>3. {"write"} \in SUBSET FLAGS_MASK
  BY DEF FLAGS_MASK
<1>4. set_page_desc(TRUE, page, address)
          = [NoDesc EXCEPT !.present = TRUE, !.flags = {"write"}, !.ps_pat = page,
                           !.address0 = a, !.address1 = b]
  BY <1>1, <1>2 DEF set_page_desc, Unit, Field, Ints
<1>5. PICK d : d = [present |-> TRUE, ps_pat |-> page, flags |-> {"write"}, avail0 |-> 0,
             address0 |-> a, address1 |-> b, avail1 |-> 0, noexec |-> FALSE]
  OBVIOUS
<1>6. d = set_page_desc(TRUE, page, address)
  BY <1>4, <1>5 DEF NoDesc
<1>7. d \in Desc
  BY <1>3, <1>5 DEF Desc
<1>8. FlagsOf(d) = {"write"}
  BY <1>5 DEF FlagsOf
<1>9. d.present /\ d.ps_pat = page /\ d.address0 = a /\ d.address1 = b
  BY <1>5
<1> QED
  BY <1>1, <1>2, <1>6, <1>7, <1>8, <1>9

(* An address below 4 GB that is a multiple of the unit *)
LEMMA LowAddress ==
  ASSUME NEW k \in Nat, k * Unit < Ints, NEW page \in BOOLEAN
  PROVE  AddressIn(set_page_desc(TRUE, page, k * Unit)) = k * Unit
<1>0. Unit \in Nat \ {0} /\ Field \in Nat \ {0} /\ Ints \in Nat \ {0} /\ Ints = Unit * Field
  BY SizeFacts
<1>1. PICK a \in Nat : a = k * Unit /\ a = Unit * k
  BY <1>0
<1>2. a \div Unit = k /\ k < Field
  BY <1>0, <1>1
<1>3. a \div Ints = 0
  BY <1>0, <1>1
<1>4. k % Field = k /\ 0 % Field = 0
  BY <1>0, <1>2
<1>5. PICK d : /\ d = set_page_desc(TRUE, page, a)
               /\ d.address0 = (a \div Unit) % Field /\ d.address1 = (a \div Ints) % Field
  BY SetFacts
<1>6. d.address0 = k /\ d.address1 = 0
  BY <1>2, <1>3, <1>4, <1>5
<1>7. AddressIn(d) = 0 * Ints + k * Unit
  BY <1>6 DEF AddressIn, Ints, Unit
<1>8. AddressIn(d) = k * Unit
  BY <1>0, <1>1, <1>7
<1> QED
  BY <1>1, <1>5, <1>8

(* The place of a table is what a descriptor of it leads to. *)
LEMMA TableAddressFacts ==
  ASSUME NEW n \in 0 .. Tables - 1
  PROVE  /\ TableAddress(n) \in Nat
         /\ TableIn(set_page_desc(TRUE, FALSE, TableAddress(n))) = n
<1>0. /\ Unit \in Nat \ {0} /\ Ints \in Nat \ {0} /\ Tables \in Nat \ {0} /\ Base \in Nat
      /\ n \in Nat /\ n < Tables
  BY SizeFacts, TableFacts, PageMapAssumption
<1>1. Base % Unit = 0 /\ Base + Tables * Unit <= Ints
  BY PageMapAssumption DEF Unit, Ints
<1>2. PICK b \in Nat : Base = b * Unit
  <2>1. PICK b \in Nat, r \in 0 .. Unit - 1 : r = Base % Unit /\ Base = Unit * b + r
    BY <1>0, DivSplit
  <2> QED
    BY <1>0, <1>1, <2>1
<1>3. PICK k \in Nat : k = b + n
  BY <1>0
<1>4. TableAddress(n) = k * Unit /\ n * Unit < Tables * Unit
  BY <1>0, <1>2, <1>3 DEF TableAddress, Unit
<1>5. k * Unit < Ints /\ k * Unit \in Nat /\ k * Unit = Base + n * Unit
  BY <1>0, <1>1, <1>2, <1>3, <1>4
<1>6. AddressIn(set_page_desc(TRUE, FALSE, k * Unit)) = k * Unit
  BY <1>5, LowAddress
<1>7. (k * Unit - Base) \div Unit = n
  <2>1. k * Unit - Base = Unit * n + 0 /\ 0 \in 0 .. Unit - 1
    BY <1>0, <1>5
  <2> QED
    BY <1>0, <2>1, DivUnique
<1> QED
  BY <1>4, <1>5, <1>6, <1>7 DEF TableIn, Unit

LEMMA KernelPageFacts ==
  ASSUME NEW p \in 0 .. LastPage
  PROVE  AddressIn(set_page_desc(TRUE, TRUE, p * PageSize)) = p * PageSize
<1>0. /\ Unit \in Nat \ {0} /\ Ints \in Nat \ {0} /\ D \in Nat \ {0} /\ LastPage \in Nat
      /\ PageSize = Unit * D /\ PageSize \in Nat \ {0} /\ p \in Nat /\ p < LastPage + 1
  BY SizeFacts, PageMapAssumption
<1>1. (LastPage + 1) * PageSize <= Ints
  BY PageMapAssumption DEF Ints
<1>2. PICK k \in Nat : k = p * D
  BY <1>0
<1>3. p * PageSize = k * Unit
  BY <1>0, <1>2
<1>4. p * PageSize < (LastPage + 1) * PageSize
  BY <1>0
<1>5. k * Unit < Ints
  <2>1. PICK x \in Nat, y \in Nat : x = p * PageSize /\ y = (LastPage + 1) * PageSize
    BY <1>0
  <2> QED
    BY <1>0, <1>1, <1>3, <1>4, <2>1
<1> QED
  BY <1>3, <1>5, LowAddress

(* An address that map_page is given, cut off to that of its page *)
LEMMA PhysFacts ==
  ASSUME NEW phys \in Phys
  PROVE  \E a \in 0 .. Field - 1, b \in 0 .. Field - 1 :
           /\ a = Address0(phys) /\ b = (phys \div Ints) % Field
           /\ b * Ints + a * Unit = (phys \div PageSize) * PageSize
<1>0. /\ D \in Nat \ {0} /\ Unit \in Nat \ {0} /\ Field \in Nat \ {0} /\ Frames \in Nat \ {0}
      /\ Ints \in Nat \ {0} /\ PageSize \in Nat \ {0}
      /\ PageSize = Unit * D /\ Field = D * Frames /\ Ints = Unit * Field
      /\ 2 ^ (AddrBits - Addr0Shift) = Ints * Field
  BY SizeFacts
<1>1. phys \in Nat /\ phys < Ints * Field
  BY <1>0, PageMapAssumption
<1>2. PICK x \in Nat, r \in 0 .. PageSize - 1 : x = phys \div PageSize /\ phys = PageSize * x + r
  BY <1>0, <1>1, DivSplit
<1>3. PICK y \in Nat, f \in 0 .. Frames - 1 : x = Frames * y + f
  <2>1. Frames \in Nat \ {0}
    BY <1>0
  <2> QED
    BY <2>1, DivSplit
<1>4. Ints = PageSize * Frames
  BY <1>0
<1>5. phys = Ints * y + (PageSize * f + r) /\ PageSize * f + r \in 0 .. Ints - 1
  <2>1. PageSize * f <= PageSize * (Frames - 1)
    BY <1>0
  <2>2. PageSize * (Frames - 1) = Ints - PageSize
    BY <1>0, <1>4
  <2>3. PageSize * x = (PageSize * Frames) * y + PageSize * f
    BY <1>0, <1>3
  <2>4. PICK g \in Nat, h \in Nat : g = PageSize * f /\ h = (PageSize * Frames) * y
    BY <1>0
  <2>5. h = Ints * y
    BY <1>4, <2>4
  <2>6. phys = h + (g + r)
    BY <1>0, <1>2, <2>3, <2>4
  <2>7. g + r \in 0 .. Ints - 1
    BY <1>0, <1>2, <2>1, <2>2, <2>4
  <2> QED
    BY <2>4, <2>5, <2>6, <2>7
<1>6. phys \div Ints = y
  <2>1. PICK g \in 0 .. Ints - 1 : g = PageSize * f + r
    BY <1>5
  <2> QED
    BY <1>0, <1>5, <2>1, DivUnique
<1>7. y < Field
  BY <1>0, <1>1, <1>6, DivLess
<1>8. y % Field = y
  BY <1>0, <1>7
<1>9. (x * D) % Field = D * f /\ D * f \in 0 .. Field - 1
  <2>1. x * D = Field * y + D * f
    BY <1>0, <1>3
  <2>2. D * f <= D * (Frames - 1) /\ D * (Frames - 1) = Field - D
    BY <1>0
  <2>3. PICK g \in 0 .. Field - 1 : g = D * f
    <3>1. D * f \in Nat
      BY <1>0
    <3> QED
      BY <1>0, <2>2, <3>1
  <2>4. (Field * y + g) % Field = g
    BY <1>0, <1>3, <2>3, DivUnique
  <2> QED
    BY <2>1, <2>3, <2>4
<1>10. Address0(phys) = D * f
  BY <1>2, <1>9 DEF Address0, Field
<1>11. y * Ints + (D * f) * Unit = x * PageSize
  BY <1>0, <1>3, <1>4
<1> QED
  BY <1>0, <1>2, <1>6, <1>7, <1>8, <1>9, <1>10, <1>11
-----------------------------------------------------------------------------
Page == 0 .. Pages - 1

(* The descriptor of a page *)
DescAt(p) == map[TableOf(p)][p % D]

(* The processor gets from the PML4 to a page's table, and a page that was *)
(* never mapped or unmapped has the descriptor that boot32 has made.       *)
Leads(p) ==
  /\ map[0][Pml4i(p)].present /\ TableIn(map[0][Pml4i(p)]) = Pdpt(Pml4i(p))
  /\ map[Pdpt(Pml4i(p))][Pdpti(p)].present
  /\ TableIn(map[Pdpt(Pml4i(p))][Pdpti(p)]) = TableOf(p)

MapType == map \in [0 .. Tables - 1 -> [0 .. D - 1 -> Desc]]

MapOK ==
  /\ MapType
  /\ \A p \in Page : Leads(p)
  /\ \A p \in Page \ touched : DescAt(p) = set_page_desc(IsKernelPage(p), TRUE, p * PageSize)

(* What a descriptor makes the processor translate to *)
Shown(d) ==
  IF ~d.present THEN Absent
  ELSE [present |-> TRUE, phys |-> AddressIn(d), large |-> d.ps_pat, flags |-> FlagsOf(d)]

LEMMA WalkIs ==
  ASSUME NEW p \in Page, Leads(p)
  PROVE  PageWalk(p) = Shown(DescAt(p))
  BY DEF Leads, PageWalk, Pml4i, Pdpti, Shown, DescAt

LEMMA DescFacts ==
  ASSUME MapType, NEW p \in Page
  PROVE  DescAt(p) \in Desc
<1>1. TableOf(p) \in 0 .. Tables - 1 /\ p % D \in 0 .. D - 1
  BY Layout DEF Page
<1> QED
  BY <1>1 DEF MapType, DescAt

LEMMA CreatedTable ==
  ASSUME NEW n \in 0 .. Tables - 1, n # 0, NEW i, i = (n - 1) \div (D + 1),
         NEW r, r = (n - 1) % (D + 1)
  PROVE  create_page_map[n] = IF r = 0 THEN PdptTable(i) ELSE PdTable(i, r - 1)
  BY Zenon DEF create_page_map

(* What create_page_map puts in the tables *)
LEMMA CreatedAt ==
  ASSUME NEW p \in Page, map = create_page_map
  PROVE  /\ map[0][Pml4i(p)] = set_page_desc(TRUE, FALSE, TableAddress(Pdpt(Pml4i(p))))
         /\ map[Pdpt(Pml4i(p))][Pdpti(p)] = set_page_desc(TRUE, FALSE, TableAddress(TableOf(p)))
         /\ DescAt(p) = set_page_desc(IsKernelPage(p), TRUE, p * PageSize)
<1>0. D \in Nat \ {0} /\ Tables \in Nat \ {0}
  BY SizeFacts, TableFacts
<1>1. PICK i \in 0 .. D - 1, j \in 0 .. D - 1, e \in 0 .. D - 1 :
           /\ i = Pml4i(p) /\ j = Pdpti(p) /\ e = p % D
           /\ i < PDPTs /\ i * D + j < PDs
           /\ TableOf(p) = Pd(i, j) /\ p = (i * D + j) * D + e
           /\ TableOf(p) \in 1 .. Tables - 1 /\ Pdpt(i) \in 1 .. Tables - 1
  BY Layout DEF Page
<1>2. /\ (Pd(i, j) - 1) % (D + 1) = j + 1 /\ (Pd(i, j) - 1) \div (D + 1) = i
      /\ (Pdpt(i) - 1) % (D + 1) = 0 /\ (Pdpt(i) - 1) \div (D + 1) = i
  <2>1. PICK w \in Nat \ {0} : w = D + 1
    BY <1>0
  <2>2. PICK x \in 0 .. w - 1, z \in 0 .. w - 1 : x = j + 1 /\ z = 0
    BY <1>0, <2>1
  <2>3. Pd(i, j) - 1 = w * i + x /\ Pdpt(i) - 1 = w * i + z
    BY <1>0, <2>1, <2>2 DEF Pd, Pdpt
  <2>4. i \in Nat
    OBVIOUS
  <2>5. /\ (w * i + x) % w = x /\ (w * i + x) \div w = i
        /\ (w * i + z) % w = z /\ (w * i + z) \div w = i
    BY <2>4, DivUnique
  <2> QED
    BY <2>1, <2>2, <2>3, <2>5
<1>3. map[0][i] = set_page_desc(TRUE, FALSE, TableAddress(Pdpt(i)))
  <2>1. map[0] = Pml4Table
    BY <1>0 DEF create_page_map
  <2> QED
    BY <1>1, <2>1 DEF Pml4Table
<1>4. map[Pdpt(i)][j] = set_page_desc(TRUE, FALSE, TableAddress(Pd(i, j)))
  <2>1. map[Pdpt(i)] = PdptTable(i)
    <3>1. PICK n \in 0 .. Tables - 1 : n # 0 /\ n = Pdpt(i)
      BY <1>1
    <3>2. 0 = (n - 1) % (D + 1) /\ i = (n - 1) \div (D + 1)
      BY <1>2, <3>1
    <3> QED
      BY <3>1, <3>2, CreatedTable
  <2> QED
    BY <1>1, <2>1 DEF PdptTable
<1>5. map[Pd(i, j)][e] = set_page_desc(IsKernelPage(p), TRUE, p * PageSize)
  <2>1. map[Pd(i, j)] = PdTable(i, j)
    <3>1. PICK n \in 0 .. Tables - 1 : n # 0 /\ n = Pd(i, j)
      BY <1>1
    <3>2. PICK r \in Nat : r = j + 1
      OBVIOUS
    <3>3. r = (n - 1) % (D + 1) /\ i = (n - 1) \div (D + 1)
      BY <1>2, <3>1, <3>2
    <3>4. map[n] = IF r = 0 THEN PdptTable(i) ELSE PdTable(i, r - 1)
      BY <3>1, <3>3, CreatedTable
    <3>5. r # 0 /\ r - 1 = j
      BY <3>2
    <3> QED
      BY <3>1, <3>4, <3>5
  <2> QED
    BY <1>1, <2>1 DEF PdTable
<1> QED
  BY <1>1, <1>3, <1>4, <1>5 DEF DescAt

LEMMA SetType ==
  ASSUME NEW b, NEW page \in BOOLEAN, NEW address \in Nat
  PROVE  set_page_desc(b, page, address) \in Desc
<1>1. CASE b
  <2>1. set_page_desc(b, page, address) = set_page_desc(TRUE, page, address)
    BY <1>1 DEF set_page_desc
  <2> QED
    BY <2>1, SetFacts
<1>2. CASE ~b
  BY <1>2, NoDescFacts DEF set_page_desc
<1> QED
  BY <1>1, <1>2

LEMMA CreatedType == create_page_map \in [0 .. Tables - 1 -> [0 .. D - 1 -> Desc]]
<1>0. /\ D \in Nat \ {0} /\ Unit \in Nat \ {0} /\ Base \in Nat /\ PageSize \in Nat
      /\ Tables \in Nat
  BY SizeFacts, TableFacts, PageMapAssumption
<1>1. ASSUME NEW n \in Nat PROVE TableAddress(n) \in Nat
  BY <1>0 DEF TableAddress, Unit
<1>2. Pml4Table \in [0 .. D - 1 -> Desc]
  <2>1. ASSUME NEW e \in 0 .. D - 1
        PROVE  set_page_desc(TRUE, FALSE, TableAddress(Pdpt(e))) \in Desc
    <3>1. Pdpt(e) \in Nat
      BY <1>0 DEF Pdpt
    <3> QED
      BY <1>1, <3>1, SetType
  <2> QED
    BY <2>1, NoDescFacts DEF Pml4Table
<1>3. ASSUME NEW i \in Nat PROVE PdptTable(i) \in [0 .. D - 1 -> Desc]
  <2>1. ASSUME NEW e \in 0 .. D - 1
        PROVE  set_page_desc(TRUE, FALSE, TableAddress(Pd(i, e))) \in Desc
    <3>1. Pd(i, e) \in Nat
      BY <1>0 DEF Pd, Pdpt
    <3> QED
      BY <1>1, <3>1, SetType
  <2> QED
    BY <2>1, NoDescFacts DEF PdptTable
<1>4. ASSUME NEW i \in Nat, NEW j \in Nat PROVE PdTable(i, j) \in [0 .. D - 1 -> Desc]
  <2>1. ASSUME NEW e \in 0 .. D - 1
        PROVE  set_page_desc(IsKernelPage((i * D + j) * D + e), TRUE,
                             ((i * D + j) * D + e) * PageSize) \in Desc
    <3>1. PICK page \in Nat : page = (i * D + j) * D + e
      BY <1>0
    <3>2. page * PageSize \in Nat
      BY <1>0
    <3> QED
      BY <3>1, <3>2, SetType
  <2> QED
    BY <2>1 DEF PdTable
<1>5. ASSUME NEW n \in 0 .. Tables - 1 PROVE create_page_map[n] \in [0 .. D - 1 -> Desc]
  <2>1. CASE n = 0
    <3>1. create_page_map[n] = Pml4Table
      BY <2>1 DEF create_page_map
    <3> QED
      BY <1>2, <3>1
  <2>2. CASE n # 0
    <3>1. PICK i \in Nat, r \in Nat : i = (n - 1) \div (D + 1) /\ r = (n - 1) % (D + 1)
      <4>1. n - 1 \in Nat /\ D + 1 \in Nat \ {0}
        BY <1>0, <2>2
      <4> QED
        BY <4>1, DivSplit
    <3>2. create_page_map[n] = IF r = 0 THEN PdptTable(i) ELSE PdTable(i, r - 1)
      BY <2>2, <3>1, CreatedTable
    <3>3. CASE r = 0
      BY <1>3, <3>2, <3>3
    <3>4. CASE r # 0
      <4>1. r - 1 \in Nat
        BY <3>4
      <4> QED
        BY <1>4, <3>2, <3>4, <4>1
    <3> QED
      BY <3>3, <3>4
  <2> QED
    BY <2>1, <2>2
<1>6. create_page_map = [n \in 0 .. Tables - 1 |-> create_page_map[n]]
  BY Zenon DEF create_page_map
<1> QED
  BY <1>5, <1>6

LEMMA MapInit == PageMapInit => MapOK
<1> SUFFICES ASSUME PageMapInit PROVE MapOK
  OBVIOUS
<1>0. map = create_page_map
  BY DEF PageMapInit
<1>1. MapType
  BY <1>0, CreatedType DEF MapType
<1>2. ASSUME NEW p \in Page PROVE Leads(p)
  <2>1. /\ map[0][Pml4i(p)] = set_page_desc(TRUE, FALSE, TableAddress(Pdpt(Pml4i(p))))
        /\ map[Pdpt(Pml4i(p))][Pdpti(p)] = set_page_desc(TRUE, FALSE, TableAddress(TableOf(p)))
    BY <1>0, CreatedAt
  <2>2. TableOf(p) \in 0 .. Tables - 1 /\ Pdpt(Pml4i(p)) \in 0 .. Tables - 1
    BY Layout DEF Page
  <2>3. ASSUME NEW n \in 0 .. Tables - 1
        PROVE  set_page_desc(TRUE, FALSE, TableAddress(n)).present
    BY TableAddressFacts, SetFacts
  <2> QED
    BY <2>1, <2>2, <2>3, TableAddressFacts DEF Leads
<1>3. \A p \in Page : DescAt(p) = set_page_desc(IsKernelPage(p), TRUE, p * PageSize)
  BY <1>0, CreatedAt
<1> QED
  BY <1>1, <1>2, <1>3 DEF MapOK
-----------------------------------------------------------------------------
(* map_page and unmap_page write the descriptor of their page, and no      *)
(* other.                                                                  *)
PageAt(v) == v \div PageSize

LEMMA PageAtFacts ==
  ASSUME NEW v \in Virt
  PROVE  PageAt(v) \in Page /\ get_page_desc(v) = [table |-> TableOf(PageAt(v)), entry |-> PageAt(v) % D]
<1>1. v \in Nat /\ v < Pages * PageSize /\ Pages \in Nat /\ PageSize \in Nat \ {0}
  BY SizeFacts, PageMapAssumption
<1>2. v \div PageSize \in Nat /\ v \div PageSize < Pages
  <2>1. v < PageSize * Pages
    BY <1>1
  <2> QED
    BY <1>1, <2>1, DivLess, DivFacts
<1>3. get_page_desc(v) = [table |-> TableOf(PageAt(v)), entry |-> PageAt(v) % D]
  BY DEF get_page_desc, TableOf, PageAt
<1> QED
  BY <1>1, <1>2, <1>3 DEF PageAt, Page

LEMMA WriteFacts ==
  ASSUME MapOK, NEW v \in Virt, NEW d \in Desc, Write(v, d)
  PROVE  /\ MapOK' /\ DescAt(PageAt(v))' = d
         /\ \A p \in Page : p # PageAt(v) => DescAt(p)' = DescAt(p)
<1>1. PICK w \in Page : w = PageAt(v)
  BY PageAtFacts
<1>2. PICK t \in 0 .. Tables - 1, e \in 0 .. D - 1 : t = TableOf(w) /\ e = w % D
  BY Layout DEF Page
<1>3. map' = [map EXCEPT ![t][e] = d] /\ touched' = touched \cup {w}
  <2>1. get_page_desc(v).table = t /\ get_page_desc(v).entry = e
    BY <1>1, <1>2, PageAtFacts
  <2> QED
    BY <1>1, <2>1 DEF Write, PageAt
<1>4. map \in [0 .. Tables - 1 -> [0 .. D - 1 -> Desc]]
  BY DEF MapOK, MapType
<1>5. /\ MapType'
      /\ \A n \in 0 .. Tables - 1, x \in 0 .. D - 1 :
           map'[n][x] = IF n = t /\ x = e THEN d ELSE map[n][x]
  <2>1. PICK row : row = [map[t] EXCEPT ![e] = d]
    OBVIOUS
  <2>2. row \in [0 .. D - 1 -> Desc] /\ \A x \in 0 .. D - 1 : row[x] = IF x = e THEN d ELSE map[t][x]
    BY <1>4, <2>1
  <2>3. map' = [map EXCEPT ![t] = row]
    BY <1>3, <2>1
  <2> QED
    BY <1>4, <2>2, <2>3 DEF MapType
<1>6. ASSUME NEW p \in Page
      PROVE  /\ Leads(p)'
             /\ DescAt(p)' = IF p = w THEN d ELSE DescAt(p)
  <2>1. PICK i \in 0 .. D - 1, j \in 0 .. D - 1, x \in 0 .. D - 1 :
           /\ i = Pml4i(p) /\ j = Pdpti(p) /\ x = p % D
           /\ TableOf(p) \in 1 .. Tables - 1 /\ Pdpt(i) \in 1 .. Tables - 1
    BY Layout DEF Page
  <2>2. t # 0 /\ t # Pdpt(i) /\ (TableOf(p) = t /\ x = e <=> p = w)
    BY <1>2, <2>1, PlacesDiffer DEF Page
  <2>3. Leads(p)
    BY DEF MapOK
  <2>4. map'[0][i] = map[0][i] /\ map'[Pdpt(i)][j] = map[Pdpt(i)][j]
    <3>1. 0 \in 0 .. Tables - 1 /\ Pdpt(i) \in 0 .. Tables - 1
      BY <2>1, TableFacts
    <3> QED
      BY <1>5, <2>1, <2>2, <3>1
  <2>5. Leads(p)'
    BY <2>1, <2>3, <2>4 DEF Leads, TableIn, AddressIn
  <2>6. map'[TableOf(p)][x] = IF p = w THEN d ELSE map[TableOf(p)][x]
    BY <1>5, <2>1, <2>2
  <2> QED
    BY <2>1, <2>5, <2>6 DEF DescAt
<1>7. MapOK'
  BY <1>3, <1>5, <1>6 DEF MapOK
<1> QED
  BY <1>1, <1>6, <1>7

(* The translations that are kept are those of the tables. *)
TlbOK ==
  /\ DOMAIN tlb = Page /\ tlb = [p \in Page |-> tlb[p]]
  /\ \A p \in Page : tlb[p] = Absent \/ tlb[p] = PageWalk(p)

LEMMA WalkChanges ==
  ASSUME MapOK, NEW v \in Virt, NEW d \in Desc, Write(v, d)
  PROVE  \A p \in Page : PageWalk(p)' = IF p = PageAt(v) THEN Shown(d) ELSE PageWalk(p)
<1> SUFFICES ASSUME NEW p \in Page
             PROVE  PageWalk(p)' = IF p = PageAt(v) THEN Shown(d) ELSE PageWalk(p)
  OBVIOUS
<1>1. Leads(p) /\ Leads(p)'
  BY WriteFacts DEF MapOK
<1>2. PageWalk(p) = Shown(DescAt(p))
  BY <1>1, WalkIs
<1>3. PageWalk(p)' = Shown(DescAt(p)')
  BY <1>1 DEF Leads, PageWalk, Pml4i, Pdpti, Shown, DescAt, FlagsOf, AddressIn
<1> QED
  BY <1>2, <1>3, WriteFacts

LEMMA TlbWrite ==
  ASSUME MapOK, TlbOK, NEW v \in Virt, NEW d \in Desc, Write(v, d), Invlpg(v)
  PROVE  TlbOK'
<1>1. tlb' = [tlb EXCEPT ![PageAt(v)] = Absent] /\ PageAt(v) \in Page
  BY PageAtFacts DEF Invlpg, PageAt
<1>2. \A p \in Page : tlb'[p] = IF p = PageAt(v) THEN Absent ELSE tlb[p]
  BY <1>1 DEF TlbOK
<1>3. DOMAIN tlb' = Page /\ tlb' = [p \in Page |-> tlb'[p]]
  BY <1>1 DEF TlbOK
<1>4. \A p \in Page : tlb'[p] = Absent \/ tlb'[p] = PageWalk(p)'
  BY <1>2, WalkChanges DEF TlbOK
<1>5. Page' = Page
  BY DEF Page
<1> QED
  BY <1>3, <1>4, <1>5 DEF TlbOK

(* The descriptor that map_page writes *)
NewDesc(phys, flags, avail) ==
  [present |-> TRUE, ps_pat |-> TRUE,
   avail0 |-> avail % 2 ^ Avail0Bits,
   address0 |-> Address0(phys),
   address1 |-> (phys \div 2 ^ IntBits) % 2 ^ Addr0Bits,
   avail1 |-> (avail \div 2 ^ Avail0Bits) % 2 ^ Avail1Bits,
   flags |-> flags \cap FLAGS_MASK,
   noexec |-> "noexec" \in flags]

(* The bits of avail_data in two fields, and put together again *)
LEMMA AvailFacts ==
  ASSUME NEW avail \in Avail
  PROVE  \E x \in Nat, y \in Nat :
           /\ x = avail % 2 ^ Avail0Bits /\ y = (avail \div 2 ^ Avail0Bits) % 2 ^ Avail1Bits
           /\ x + y * 2 ^ Avail0Bits = avail % 2 ^ (Avail0Bits + Avail1Bits)
<1>1. /\ avail \in Nat /\ 2 ^ Avail0Bits \in Nat \ {0} /\ 2 ^ Avail1Bits \in Nat \ {0}
      /\ 2 ^ (Avail0Bits + Avail1Bits) = 2 ^ Avail0Bits * 2 ^ Avail1Bits
  BY PageMapAssumption, PowerLaws
<1>2. PICK m \in Nat \ {0}, n \in Nat \ {0} : m = 2 ^ Avail0Bits /\ n = 2 ^ Avail1Bits
  BY <1>1
<1>3. PICK q \in Nat, r \in 0 .. m - 1 : q = avail \div m /\ r = avail % m /\ avail = m * q + r
  BY <1>1, DivSplit
<1>4. PICK k \in Nat, y \in 0 .. n - 1 : y = q % n /\ q = n * k + y
  BY DivSplit
<1>5. PICK w \in Nat \ {0} : w = m * n
  OBVIOUS
<1>6. PICK z \in Nat : z = m * y + r
  BY <1>3, <1>4
<1>7. avail = w * k + z
  <2>1. m * (n * k + y) = (m * n) * k + m * y
    BY <1>4
  <2>2. avail = ((m * n) * k + m * y) + r
    BY <1>3, <1>4, <2>1
  <2> QED
    BY <1>3, <1>4, <1>5, <1>6, <2>2
<1>8. z < w
  <2>1. m * y <= m * (n - 1) /\ m * (n - 1) = w - m
    BY <1>4, <1>5
  <2>2. PICK g \in Nat : g = m * y
    BY <1>4
  <2> QED
    BY <1>3, <1>5, <1>6, <2>1, <2>2
<1>9. avail % w = z
  <2>1. z \in 0 .. w - 1
    BY <1>8
  <2> QED
    BY <1>4, <1>7, <2>1, DivUnique
<1>10. r + y * m = z
  BY <1>3, <1>4, <1>6
<1>11. r = avail % 2 ^ Avail0Bits /\ y = (avail \div 2 ^ Avail0Bits) % 2 ^ Avail1Bits
  BY <1>2, <1>3, <1>4
<1>12. r + y * 2 ^ Avail0Bits = avail % 2 ^ (Avail0Bits + Avail1Bits)
  BY <1>1, <1>2, <1>5, <1>9, <1>10
<1> QED
  BY <1>3, <1>4, <1>11, <1>12

LEMMA NewDescFacts ==
  ASSUME NEW phys \in Phys, NEW flags, NEW avail \in Avail
  PROVE  /\ NewDesc(phys, flags, avail) \in Desc
         /\ Shown(NewDesc(phys, flags, avail)) = Requested(phys, flags)
         /\ NewDesc(phys, flags, avail).avail0
              + NewDesc(phys, flags, avail).avail1 * 2 ^ Avail0Bits
                = avail % 2 ^ (Avail0Bits + Avail1Bits)
<1>1. PICK a \in 0 .. Field - 1, b \in 0 .. Field - 1 :
           /\ a = Address0(phys) /\ b = (phys \div Ints) % Field
           /\ b * Ints + a * Unit = (phys \div PageSize) * PageSize
  BY PhysFacts
<1>2. PICK x \in Nat, y \in Nat :
        /\ x = avail % 2 ^ Avail0Bits /\ y = (avail \div 2 ^ Avail0Bits) % 2 ^ Avail1Bits
        /\ x + y * 2 ^ Avail0Bits = avail % 2 ^ (Avail0Bits + Avail1Bits)
  BY AvailFacts
<1>3. PICK g \in BOOLEAN : g <=> "noexec" \in flags
  OBVIOUS
<1>4. PICK f \in SUBSET FLAGS_MASK : f = flags \cap FLAGS_MASK
  OBVIOUS
<1>5. PICK d : d = NewDesc(phys, flags, avail)
  OBVIOUS
<1>6. d = [present |-> TRUE, ps_pat |-> TRUE, avail0 |-> x, address0 |-> a, address1 |-> b,
           avail1 |-> y, flags |-> f, noexec |-> g]
  BY <1>1, <1>2, <1>3, <1>4, <1>5 DEF NewDesc, Ints, Field
<1>7. d \in Desc
  BY <1>6 DEF Desc
<1>8. AddressIn(d) = (phys \div PageSize) * PageSize
  BY <1>1, <1>6 DEF AddressIn, Ints, Unit
<1>9. FlagsOf(d) = flags \cap (FLAGS_MASK \cup {"noexec"})
  <2>1. d.flags = f /\ (d.noexec <=> g)
    BY <1>6
  <2> QED
    BY <1>3, <1>4, <2>1 DEF FlagsOf, FLAGS_MASK
<1>10. Shown(d) = [present |-> TRUE, phys |-> AddressIn(d), large |-> TRUE, flags |-> FlagsOf(d)]
  BY <1>6 DEF Shown
<1>11. d.avail0 + d.avail1 * 2 ^ Avail0Bits = avail % 2 ^ (Avail0Bits + Avail1Bits)
  BY <1>2, <1>6
<1> QED
  BY <1>5, <1>7, <1>8, <1>9, <1>10, <1>11 DEF Requested
-----------------------------------------------------------------------------
PageInv == MapOK /\ TlbOK

LEMMA PageInvInit == PageMapInit => PageInv
<1>1. PageMapInit => TlbOK
  BY DEF PageMapInit, TlbOK, Page
<1> QED
  BY <1>1, MapInit DEF PageInv

LEMMA MapPageIs ==
  ASSUME NEW v, NEW phys, NEW flags, NEW avail, map_page(v, phys, flags, avail)
  PROVE  Write(v, NewDesc(phys, flags, avail)) /\ Invlpg(v)
  BY Zenon DEF map_page, NewDesc

LEMMA PageInvStep == PageInv /\ [PageMapNext]_pageMapVars => PageInv'
<1> SUFFICES ASSUME PageInv, [PageMapNext]_pageMapVars PROVE PageInv'
  OBVIOUS
<1>0. MapOK /\ TlbOK
  BY DEF PageInv
<1>1. ASSUME NEW v \in Virt, NEW d \in Desc, Write(v, d), Invlpg(v) PROVE PageInv'
  <2>1. MapOK'
    BY <1>0, <1>1, WriteFacts
  <2>2. TlbOK'
    BY <1>0, <1>1, TlbWrite
  <2> QED
    BY <2>1, <2>2 DEF PageInv
<1>2. ASSUME NEW v \in Virt, NEW phys \in Phys, NEW flags \in Flags, NEW avail \in Avail,
             map_page(v, phys, flags, avail)
      PROVE  PageInv'
  <2>1. PICK d \in Desc : d = NewDesc(phys, flags, avail)
    BY NewDescFacts
  <2>2. Write(v, d) /\ Invlpg(v)
    BY <1>2, <2>1, MapPageIs
  <2> QED
    BY <1>1, <2>2
<1>3. ASSUME NEW v \in Virt, unmap_page(v) PROVE PageInv'
  <2>1. Write(v, NoDesc) /\ Invlpg(v)
    BY <1>3 DEF unmap_page
  <2> QED
    BY <1>1, <2>1, NoDescFacts
<1>4. ASSUME UNCHANGED <<map, touched>> PROVE MapOK' /\ \A p \in Page : PageWalk(p)' = PageWalk(p)
  <2>1. map' = map /\ touched' = touched
    BY <1>4
  <2>2. MapOK'
    <3>1. MapType'
      BY <1>0, <2>1 DEF MapOK, MapType
    <3>2. ASSUME NEW p \in Page PROVE Leads(p)' /\ DescAt(p)' = DescAt(p)
      BY <1>0, <2>1 DEF MapOK, Leads, DescAt
    <3> QED
      BY <1>0, <2>1, <3>1, <3>2 DEF MapOK
  <2>3. ASSUME NEW p \in Page PROVE PageWalk(p)' = PageWalk(p)
    BY <2>1, Zenon DEF PageWalk
  <2> QED
    BY <2>2, <2>3
<1>5. ASSUME NEW v \in Virt, Access(v \div PageSize) PROVE PageInv'
  <2>1. PICK w \in Page : w = v \div PageSize
    BY PageAtFacts DEF PageAt
  <2>2. tlb' = [tlb EXCEPT ![w] = PageWalk(w)] /\ UNCHANGED <<map, touched>>
    BY <1>5, <2>1 DEF Access
  <2>3. DOMAIN tlb' = Page /\ tlb' = [p \in Page |-> tlb'[p]]
    BY <1>0, <2>2 DEF TlbOK
  <2>4. \A p \in Page : tlb'[p] = IF p = w THEN PageWalk(w) ELSE tlb[p]
    BY <1>0, <2>2 DEF TlbOK
  <2>5. \A p \in Page : tlb'[p] = Absent \/ tlb'[p] = PageWalk(p)'
    BY <1>0, <1>4, <2>2, <2>4 DEF TlbOK
  <2>6. Page' = Page
    BY DEF Page
  <2> QED
    BY <1>4, <2>2, <2>3, <2>5, <2>6 DEF PageInv, TlbOK
<1>6. ASSUME UNCHANGED pageMapVars PROVE PageInv'
  <2>1. UNCHANGED <<map, touched>> /\ tlb' = tlb
    BY <1>6 DEF pageMapVars
  <2>2. Page' = Page
    BY DEF Page
  <2> QED
    BY <1>0, <1>4, <2>1, <2>2 DEF PageInv, TlbOK
<1> QED
  BY <1>2, <1>3, <1>5, <1>6 DEF PageMapNext

THEOREM PageMapInvariant == PageMapSpec => []PageInv
  BY PageInvInit, PageInvStep, PTL DEF PageMapSpec
-----------------------------------------------------------------------------
LEMMA BootMappingHolds == PageInv => BootMapping
<1> SUFFICES ASSUME PageInv, NEW p \in Page \ touched
             PROVE  IF p \in FirstPage .. LastPage
                    THEN PageWalk(p) = [present |-> TRUE, phys |-> p * PageSize, large |-> TRUE,
                                        flags |-> {"write"}]
                    ELSE PageWalk(p) = Absent
  BY DEF BootMapping, Page
<1>1. PageWalk(p) = Shown(DescAt(p)) /\ DescAt(p) = set_page_desc(IsKernelPage(p), TRUE, p * PageSize)
  BY WalkIs DEF PageInv, MapOK
<1>2. p \in Nat /\ FirstPage \in Nat /\ LastPage \in Nat /\ PageSize \in Nat \ {0} /\ p * PageSize \in Nat
  BY PageMapAssumption, SizeFacts DEF Page
<1>3. CASE p \in FirstPage .. LastPage
  <2>1. PICK a \in Nat : a = p * PageSize
    BY <1>2
  <2>2. PICK d \in Desc : /\ d = set_page_desc(TRUE, TRUE, a)
                          /\ d.present /\ d.ps_pat = TRUE /\ FlagsOf(d) = {"write"}
    BY SetFacts
  <2>3. DescAt(p) = d
    <3>1. IsKernelPage(p) <=> TRUE
      BY <1>2, <1>3 DEF IsKernelPage
    <3>2. set_page_desc(IsKernelPage(p), TRUE, a) = set_page_desc(TRUE, TRUE, a)
      BY <3>1 DEF set_page_desc
    <3> QED
      BY <1>1, <2>1, <2>2, <3>2
  <2>4. AddressIn(d) = a
    <3>1. p \in 0 .. LastPage
      BY <1>2, <1>3
    <3>2. AddressIn(set_page_desc(TRUE, TRUE, p * PageSize)) = p * PageSize
      BY <3>1, KernelPageFacts
    <3> QED
      BY <2>1, <2>2, <3>2
  <2>5. Shown(d) = [present |-> TRUE, phys |-> a, large |-> TRUE, flags |-> {"write"}]
    BY <2>2, <2>4 DEF Shown
  <2> QED
    BY <1>1, <1>3, <2>1, <2>3, <2>5
<1>4. CASE p \notin FirstPage .. LastPage
  <2>1. ~IsKernelPage(p)
    BY <1>2, <1>4 DEF IsKernelPage
  <2>2. DescAt(p) = NoDesc
    BY <1>1, <2>1 DEF set_page_desc
  <2>3. PageWalk(p) = Absent
    BY <1>1, <2>2, NoDescFacts DEF Shown
  <2> QED
    BY <1>4, <2>3
<1> QED
  BY <1>3, <1>4

(* Pages that were never mapped or unmapped are as boot32 left them.       *)
THEOREM BootMappingStays == PageMapSpec => []BootMapping
  BY PageMapInvariant, BootMappingHolds, PTL
-----------------------------------------------------------------------------
(* The address that get_page_mapping puts together, while bit 31 is clear *)
LEMMA SaidPhys ==
  ASSUME NEW d \in Desc, (AddressIn(d) \div 2 ^ (IntBits - 1)) % 2 = 0
  PROVE  (d.address1 * 2 ^ IntBits + AsInt(d.address0 * 2 ^ Addr0Shift)) % 2 ^ AddrBits
           = AddressIn(d)
<1>0. /\ Unit \in Nat \ {0} /\ Field \in Nat \ {0} /\ Half \in Nat \ {0} /\ Ints \in Nat \ {0}
      /\ Ints = Unit * Field /\ Ints = 2 * Half
  BY SizeFacts
<1>1. PICK a \in 0 .. Field - 1, b \in 0 .. Field - 1 : a = d.address0 /\ b = d.address1
  BY DEF Desc
<1>2. PICK x \in Nat : x = a * Unit
  BY <1>0
<1>3. x < Ints
  <2>1. x <= (Field - 1) * Unit /\ (Field - 1) * Unit = Ints - Unit
    BY <1>0, <1>2
  <2> QED
    BY <1>0, <2>1
<1>4. AddressIn(d) = b * Ints + x
  BY <1>1, <1>2 DEF AddressIn, Ints, Unit
<1>5. x < Half
  <2> SUFFICES ASSUME ~(x < Half) PROVE FALSE
    OBVIOUS
  <2>1. PICK l \in 0 .. Half - 1 : x = Half + l
    <3>1. x - Half \in Nat /\ x - Half < Half
      BY <1>0, <1>3
    <3> QED
      BY <1>0, <3>1
  <2>2. PICK q \in Nat : q = 2 * b + 1
    OBVIOUS
  <2>3. b * Ints + x = Half * q + l
    <3>1. Half * q = (Half * 2) * b + Half
      BY <1>0, <2>2
    <3>2. b * Ints = (Half * 2) * b
      BY <1>0
    <3>3. PICK g \in Nat : g = (Half * 2) * b
      BY <1>0
    <3> QED
      BY <1>0, <2>1, <3>1, <3>2, <3>3
  <2>4. (Half * q + l) \div Half = q
    BY <1>0, DivUnique
  <2>5. q % 2 = 0
    BY <1>4, <2>3, <2>4 DEF Half
  <2> QED
    BY <2>2, <2>5
<1>6. AsInt(x) = x
  <2>1. x % Ints = x
    BY <1>0, <1>3
  <2> QED
    BY <1>5, <2>1 DEF AsInt, Half, Ints
<1>7. PICK m \in Nat \ {0} : m = Ints * Ints
  BY <1>0
<1>8. PICK s \in Nat : s = b * Ints + x
  BY <1>0
<1>9. s < m
  <2>1. Field <= Ints
    BY <1>0
  <2>2. b * Ints <= (Ints - 1) * Ints
    BY <1>0, <2>1
  <2>3. (Ints - 1) * Ints = m - Ints
    BY <1>0, <1>7
  <2>4. PICK g \in Nat : g = b * Ints
    BY <1>0
  <2> QED
    BY <1>0, <1>3, <1>7, <1>8, <2>2, <2>3, <2>4
<1>10. s % m = s
  BY <1>9
<1>11. d.address1 * 2 ^ IntBits + AsInt(d.address0 * 2 ^ Addr0Shift) = s
  BY <1>1, <1>2, <1>6, <1>8 DEF Ints, Unit
<1>12. 2 ^ AddrBits = m
  BY <1>7, SizeFacts
<1> QED
  BY <1>4, <1>8, <1>10, <1>11, <1>12

LEMMA DescOfIs ==
  ASSUME NEW v \in Virt
  PROVE  DescOf(v) = DescAt(PageAt(v))
  BY PageAtFacts DEF DescOf, DescAt

(* The processor uses what is in the tables: it keeps nothing that is not. *)
LEMMA UsedIs ==
  ASSUME PageInv, NEW p \in Page
  PROVE  Used(p) = Shown(DescAt(p))
<1>1. PageWalk(p) = Shown(DescAt(p))
  BY WalkIs DEF PageInv, MapOK
<1>2. tlb[p] = Absent \/ tlb[p] = PageWalk(p)
  BY DEF PageInv, TlbOK
<1>3. ~Absent.present
  BY DEF Absent
<1> QED
  BY <1>1, <1>2, <1>3 DEF Used

LEMMA GetTellsHolds == PageInv => GetTellsTheTruth
<1> SUFFICES ASSUME PageInv, NEW v \in Virt
             PROVE  LET said == get_page_mapping(v)
                        true == Used(v \div PageSize)
                    IN  /\ said.present = true.present
                        /\ said.present =>
                             /\ said.flags = true.flags
                             /\ (true.phys \div 2 ^ (IntBits - 1)) % 2 = 0 => said.phys = true.phys
  BY DEF GetTellsTheTruth
<1>1. PICK d \in Desc : d = DescAt(PageAt(v))
  BY PageAtFacts, DescFacts DEF PageInv, MapOK
<1>2. Used(v \div PageSize) = Shown(d)
  BY <1>1, PageAtFacts, UsedIs DEF PageAt
<1>3. get_page_mapping(v) =
        IF ~d.present THEN Absent
        ELSE [present |-> TRUE,
              phys |-> (d.address1 * 2 ^ IntBits + AsInt(d.address0 * 2 ^ Addr0Shift))
                         % 2 ^ AddrBits,
              flags |-> FlagsOf(d),
              avail |-> d.avail0 + d.avail1 * 2 ^ Avail0Bits]
  BY <1>1, DescOfIs, Zenon DEF get_page_mapping
<1>4. CASE ~d.present
  <2>1. get_page_mapping(v) = Absent /\ Used(v \div PageSize) = Absent
    BY <1>2, <1>3, <1>4 DEF Shown
  <2> QED
    BY <2>1 DEF Absent
<1>5. CASE d.present
  <2>1. PICK n : n = (d.address1 * 2 ^ IntBits + AsInt(d.address0 * 2 ^ Addr0Shift)) % 2 ^ AddrBits
    OBVIOUS
  <2>2. PICK m : m = d.avail0 + d.avail1 * 2 ^ Avail0Bits
    OBVIOUS
  <2>3. get_page_mapping(v) = [present |-> TRUE, phys |-> n, flags |-> FlagsOf(d), avail |-> m]
    BY <1>3, <1>5, <2>1, <2>2
  <2>4. Used(v \div PageSize)
          = [present |-> TRUE, phys |-> AddressIn(d), large |-> d.ps_pat, flags |-> FlagsOf(d)]
    BY <1>2, <1>5 DEF Shown
  <2>5. (AddressIn(d) \div 2 ^ (IntBits - 1)) % 2 = 0 => n = AddressIn(d)
    BY <2>1, SaidPhys
  <2>6. /\ get_page_mapping(v).present = Used(v \div PageSize).present
        /\ get_page_mapping(v).flags = Used(v \div PageSize).flags
    <3>1. PICK f : f = FlagsOf(d)
      OBVIOUS
    <3>2. PICK a : a = AddressIn(d)
      OBVIOUS
    <3>3. PICK l : l = d.ps_pat
      OBVIOUS
    <3>4. get_page_mapping(v) = [present |-> TRUE, phys |-> n, flags |-> f, avail |-> m]
      BY <2>3, <3>1
    <3>5. Used(v \div PageSize) = [present |-> TRUE, phys |-> a, large |-> l, flags |-> f]
      BY <2>4, <3>1, <3>2, <3>3
    <3>6. get_page_mapping(v).present = TRUE /\ get_page_mapping(v).flags = f
      BY <3>4
    <3>7. Used(v \div PageSize).present = TRUE /\ Used(v \div PageSize).flags = f
      BY <3>5
    <3> QED
      BY <3>6, <3>7, Zenon
  <2>7. get_page_mapping(v).phys = n /\ Used(v \div PageSize).phys = AddressIn(d)
    BY <2>3, <2>4
  <2> QED
    BY <2>5, <2>6, <2>7, Zenon
<1> QED
  BY <1>4, <1>5

(* What get_page_mapping says is what the processor does.                  *)
THEOREM GetIsTrue == PageMapSpec => []GetTellsTheTruth
  BY PageMapInvariant, GetTellsHolds, PTL
-----------------------------------------------------------------------------
LEMMA TranslationWrite ==
  ASSUME MapOK, NEW v \in Virt, NEW d \in Desc, Write(v, d)
  PROVE  Translation' = [Translation EXCEPT ![PageAt(v)] = Shown(d)]
<1>1. \A p \in Page : PageWalk(p)' = IF p = PageAt(v) THEN Shown(d) ELSE PageWalk(p)
  BY WalkChanges
<1>2. Translation = [p \in Page |-> PageWalk(p)] /\ Translation' = [p \in Page |-> PageWalk(p)']
  BY DEF Translation, Page
<1>3. [Translation EXCEPT ![PageAt(v)] = Shown(d)]
        = [p \in Page |-> IF p = PageAt(v) THEN Shown(d) ELSE PageWalk(p)]
  BY <1>2
<1> QED
  BY <1>1, <1>2, <1>3

LEMMA AvailIs ==
  ASSUME MapOK, NEW v \in Virt, NEW d \in Desc, d.present, Write(v, d)
  PROVE  get_page_mapping(v)'.avail = d.avail0 + d.avail1 * 2 ^ Avail0Bits
<1>1. DescAt(PageAt(v))' = d
  BY WriteFacts
<1>2. DescOf(v)' = d
  <2>1. get_page_desc(v) = [table |-> TableOf(PageAt(v)), entry |-> PageAt(v) % D]
    BY PageAtFacts
  <2>2. map'[TableOf(PageAt(v))][PageAt(v) % D] = d
    BY <1>1 DEF DescAt
  <2>3. map'[get_page_desc(v).table][get_page_desc(v).entry] = d
    BY <2>1, <2>2
  <2> QED
    BY <2>3 DEF DescOf, get_page_desc
<1> QED
  BY <1>2 DEF get_page_mapping

LEMMA MapsStep ==
  PageInv /\ [PageMapNext]_pageMapVars =>
    [\A v \in Virt :
       LET page == v \div PageSize
       IN  /\ \A phys \in Phys, flags \in Flags, avail \in Avail :
                map_page(v, phys, flags, avail) =>
                  /\ Translation' = [Translation EXCEPT ![page] = Requested(phys, flags)]
                  /\ get_page_mapping(v)'.avail = avail % 2 ^ (Avail0Bits + Avail1Bits)
           /\ unmap_page(v) => Translation' = [Translation EXCEPT ![page] = Absent]]_pageMapVars
<1> SUFFICES ASSUME PageInv, NEW v \in Virt
             PROVE  /\ \A phys \in Phys, flags \in Flags, avail \in Avail :
                         map_page(v, phys, flags, avail) =>
                           /\ Translation' = [Translation EXCEPT ![v \div PageSize] = Requested(phys, flags)]
                           /\ get_page_mapping(v)'.avail = avail % 2 ^ (Avail0Bits + Avail1Bits)
                    /\ unmap_page(v) => Translation' = [Translation EXCEPT ![v \div PageSize] = Absent]
  BY Zenon
<1>0. MapOK
  BY DEF PageInv
<1>1. ASSUME NEW phys \in Phys, NEW flags \in Flags, NEW avail \in Avail,
             map_page(v, phys, flags, avail)
      PROVE  /\ Translation' = [Translation EXCEPT ![v \div PageSize] = Requested(phys, flags)]
             /\ get_page_mapping(v)'.avail = avail % 2 ^ (Avail0Bits + Avail1Bits)
  <2>1. PICK d \in Desc : d = NewDesc(phys, flags, avail)
    BY NewDescFacts
  <2>2. Write(v, d) /\ d.present
    BY <1>1, <2>1, MapPageIs DEF NewDesc
  <2>3. Translation' = [Translation EXCEPT ![PageAt(v)] = Shown(d)]
    BY <1>0, <2>2, TranslationWrite
  <2>4. get_page_mapping(v)'.avail = d.avail0 + d.avail1 * 2 ^ Avail0Bits
    BY <1>0, <2>2, AvailIs
  <2>5. Shown(d) = Requested(phys, flags)
    BY <2>1, NewDescFacts
  <2>6. d.avail0 + d.avail1 * 2 ^ Avail0Bits = avail % 2 ^ (Avail0Bits + Avail1Bits)
    BY <2>1, NewDescFacts
  <2>7. Translation' = [Translation EXCEPT ![v \div PageSize] = Requested(phys, flags)]
    BY <2>3, <2>5, Zenon DEF PageAt
  <2> QED
    BY <2>4, <2>6, <2>7, Zenon
<1>2. ASSUME unmap_page(v)
      PROVE  Translation' = [Translation EXCEPT ![v \div PageSize] = Absent]
  <2>1. PICK d \in Desc : d = NoDesc
    BY NoDescFacts
  <2>2. Write(v, d)
    BY <1>2, <2>1 DEF unmap_page
  <2>3. Translation' = [Translation EXCEPT ![PageAt(v)] = Shown(d)]
    BY <1>0, <2>2, TranslationWrite
  <2>4. Shown(d) = Absent
    BY <2>1, NoDescFacts DEF Shown
  <2> QED
    BY <2>3, <2>4, Zenon DEF PageAt
<1> QED
  BY <1>1, <1>2, Zenon

(* map_page and unmap_page change the translation of the page of their     *)
(* argument, as requested, and no other.                                   *)
THEOREM MapsExactly == PageMapSpec => MapsAsRequested
  BY PageMapInvariant, MapsStep, PTL DEF PageMapSpec, MapsAsRequested
=============================================================================
