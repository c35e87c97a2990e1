------------------------------- MODULE Sleep --------------------------------
(***************************************************************************)
(* sleep() of sync.c with the tick counter and the timer procedure of      *)
(* schedule.c: a thread queues a node, ordered by the tick it wants to     *)
(* wake at, in the list of its CPU and pauses; the CPU's timer_ticks says  *)
(* when sleep_timer_proc is due, which takes the first node of the list,   *)
(* asks for the next one, and resumes the node's thread.                   *)
(*                                                                         *)
(* sleep_timer_proc takes no lock: that the list is not touched at the     *)
(* same time rests on the CPU having interrupts disabled while one of its  *)
(* threads holds the list's lock.  sleep() names the list before that, and *)
(* a thread that is paused and resumed elsewhere at that very point        *)
(* changes the list of a CPU it has left, and sets the timer of the one it *)
(* is on.  crossed is a history variable: the CPUs whose list or timer was *)
(* changed like that, where nothing is promised any more (their list may   *)
(* be torn by sleep_timer_proc; the one step here does not show that).     *)
(* until is another: when a sleeper wants to wake, counted in microseconds *)
(* from the beginning of the tick in which it called.                      *)
(* Pausing and resuming are taken as Scheduler describes them.             *)
(***************************************************************************)
EXTENDS Integers, Sequences, SequencesExt

CONSTANTS
  Cpu, Bsp, Thread, NULL,
  Period,       \* the periods asked for, in microseconds
  TickInterval, \* CONFIG_SCHEDULER_TICK_INTERVAL
  MaxNodes,     \* the blocks sleeping[i].pool can provide
  LastCall,     \* bound: the last tick at which a thread calls sleep
  MaxStamp,     \* bound: how often a stopped thread is attached again
  MaxLeft       \* bound: how many nodes of no sleeper there are

ASSUME SleepAssumption ==
  /\ Bsp \in Cpu /\ NULL \notin Thread \cup Cpu
  /\ Period \subseteq Nat /\ IsFiniteSet(Period) /\ Period # {}
  /\ TickInterval \in Nat \ {0}
  /\ MaxNodes \in Nat /\ LastCall \in Nat \ {0} /\ MaxStamp \in Nat
  /\ MaxLeft \in Nat

VARIABLES
  ticks,        \* counted by the BSP
  timer_ticks,  \* when a CPU's timer procedure is due; 0 is never
  sleeping,     \* sleeping[i]: the nodes from tail on
  lock,         \* who holds sleeping[i].lock
  pc,           \* where a thread is
  slp,          \* the list sleep() has chosen, until it returns
  home,         \* the CPU a thread runs on; NULL while it is paused
  stamp,        \* thread->stamp, part of the id a node holds
  until,        \* when a thread that sleeps wants to wake; 0 for the others
  crossed       \* CPUs whose list or timer a thread of another one changed

vars == <<ticks, timer_ticks, sleeping, lock, pc, slp, home, stamp, until, crossed>>

(* Nobody sleeps beyond this tick; when it is reached the clock may stand. *)
MaxTicks == LastCall + 1 + Max(Period) \div TickInterval

(* The first timer tick of the BSP loads kmain, so that no thread sees 0.  *)
Init ==
  /\ ticks = 1
  /\ timer_ticks = [c \in Cpu |-> 0]
  /\ sleeping = [c \in Cpu |-> <<>>]
  /\ lock = [c \in Cpu |-> NULL]
  /\ pc = [t \in Thread |-> "run"]
  /\ slp = [t \in Thread |-> NULL]
  /\ home \in [Thread -> Cpu]
  /\ stamp = [t \in Thread |-> 0]
  /\ until = [t \in Thread |-> 0]
  /\ crossed = {}

InCall(t) == pc[t] \in {"called", "spin", "insert", "pause"}

(* A CPU whose thread is here has interrupts disabled. *)
Masked(c) ==
  \E t \in Thread : home[t] = c /\ pc[t] \in {"spin", "insert", "pause"}

Runs(t) ==
  \A u \in Thread : u # t /\ home[u] = home[t] =>
                    pc[u] \notin {"spin", "insert", "pause"}

Go(t, where) == pc' = [pc EXCEPT ![t] = where]
-----------------------------------------------------------------------------
(* sleep: the list is chosen; interrupts are disabled; the lock is taken *)
sleep(t) ==
  /\ pc[t] = "run" /\ Runs(t)
  /\ ticks <= LastCall
  /\ slp' = [slp EXCEPT ![t] = home[t]]
  /\ Go(t, "called")
  /\ UNCHANGED <<ticks, timer_ticks, sleeping, lock, home, stamp, until, crossed>>

Disable(t) ==
  /\ pc[t] = "called" /\ Runs(t)
  /\ Go(t, "spin")
  /\ UNCHANGED <<ticks, timer_ticks, sleeping, lock, slp, home, stamp, until, crossed>>

Acquire(t) ==
  /\ pc[t] = "spin" /\ lock[slp[t]] = NULL
  /\ lock' = [lock EXCEPT ![slp[t]] = t]
  /\ Go(t, "insert")
  /\ UNCHANGED <<ticks, timer_ticks, sleeping, slp, home, stamp, until, crossed>>

Release(t) == lock' = [lock EXCEPT ![slp[t]] = NULL]

NoMemory(t) ==
  /\ pc[t] = "insert" /\ Len(sleeping[slp[t]]) >= MaxNodes
  /\ Release(t)
  /\ slp' = [slp EXCEPT ![t] = NULL]
  /\ Go(t, "run")
  /\ UNCHANGED <<ticks, timer_ticks, sleeping, home, stamp, until, crossed>>

(* Faulty variants, each named for what it gets wrong, are kept next to    *)
(* the definition they vary; nothing uses them in the specification.       *)
Inserted_First(list, node) == <<node>> \o list

(* The node goes behind the ones that wake at the same tick or before. *)
Inserted(list, node) ==
  LET before == Cardinality({i \in DOMAIN list : list[i].ticks <= node.ticks})
  IN  InsertAt(list, before + 1, node)

(* set_timer_ticks names the CPU the thread is on by now. *)
Insert(t, period) ==
  LET list == sleeping[slp[t]]
      node == [thread |-> t, stamp |-> stamp[t],
               ticks |-> ticks + period \div TickInterval]
      first == list = <<>> \/ Head(list).ticks > node.ticks
  IN  /\ pc[t] = "insert" /\ Len(list) < MaxNodes
      /\ sleeping' = [sleeping EXCEPT ![slp[t]] = Inserted(list, node)]
      /\ timer_ticks' = IF first THEN [timer_ticks EXCEPT ![home[t]] = node.ticks]
                                 ELSE timer_ticks
      /\ until' = [until EXCEPT ![t] = ticks * TickInterval + period]
      /\ crossed' = IF slp[t] = home[t] THEN crossed
                    ELSE crossed \cup {slp[t]} \cup (IF first THEN {home[t]} ELSE {})
      /\ Go(t, "pause")
      /\ UNCHANGED <<ticks, lock, slp, home, stamp>>

Pause(t) ==
  /\ pc[t] = "pause"
  /\ Release(t)
  /\ Go(t, "asleep")
  /\ home' = [home EXCEPT ![t] = NULL]
  /\ UNCHANGED <<ticks, timer_ticks, sleeping, slp, stamp, until, crossed>>

(* sleep returns, or the thread ends. *)
Leave(t, where) ==
  /\ Go(t, where)
  /\ slp' = [slp EXCEPT ![t] = NULL]
  /\ until' = [until EXCEPT ![t] = 0]
-----------------------------------------------------------------------------
(* A node's id is good for the thread that is still attached under it. *)
Resumes_AnyStamp(node) == pc[node.thread] = "asleep"

Resumes(node) ==
  pc[node.thread] = "asleep" /\ node.stamp = stamp[node.thread]

sleep_timer_proc_DropsRest(c) ==
  /\ timer_ticks' = [timer_ticks EXCEPT ![c] = 0]
  /\ sleeping' = [sleeping EXCEPT ![c] = <<>>]
  /\ IF sleeping[c] # <<>> /\ Resumes(Head(sleeping[c]))
     THEN /\ Leave(Head(sleeping[c]).thread, "run")
          /\ home' = [home EXCEPT ![Head(sleeping[c]).thread] = c]
     ELSE UNCHANGED <<pc, slp, until, home>>

(* One node per call; the thread is resumed wherever there is least load. *)
sleep_timer_proc(c) ==
  IF sleeping[c] = <<>>
  THEN /\ timer_ticks' = [timer_ticks EXCEPT ![c] = 0]
       /\ UNCHANGED <<sleeping, pc, slp, until, home>>
  ELSE LET node == Head(sleeping[c])
           rest == Tail(sleeping[c])
       IN  /\ sleeping' = [sleeping EXCEPT ![c] = rest]
           /\ timer_ticks' = [timer_ticks EXCEPT ![c] =
                IF rest = <<>> THEN 0 ELSE Head(rest).ticks]
           /\ IF Resumes(node)
              THEN /\ Leave(node.thread, "run")
                   /\ \E d \in Cpu : home' = [home EXCEPT ![node.thread] = d]
              ELSE UNCHANGED <<pc, slp, until, home>>

(* handle_timer.  The bound holds the clock right after LastCall, when no  *)
(* more threads call sleep, for those that are already inside.             *)
Timer(c) ==
  LET now == IF c = Bsp /\ ticks < MaxTicks THEN ticks + 1 ELSE ticks
  IN  /\ ~Masked(c)
      /\ now > LastCall + 1 => \A t \in Thread : ~InCall(t)
      /\ ticks' = now
      /\ IF timer_ticks[c] # 0 /\ timer_ticks[c] <= now
         THEN sleep_timer_proc(c)
         ELSE UNCHANGED <<timer_ticks, sleeping, pc, slp, until, home>>
      /\ UNCHANGED <<lock, stamp, crossed>>
-----------------------------------------------------------------------------
(* What others do to a thread: stop it while it sleeps; attach and resume  *)
(* it again, under a new id; resume it while it sleeps, which leaves its   *)
(* node behind; pause it while it executes and resume it elsewhere.        *)
FewLeft ==
  LET nodes == MapThenSumSet(LAMBDA c : Len(sleeping[c]), Cpu)
      sleepers == Cardinality({t \in Thread : pc[t] = "asleep"})
  IN  nodes - sleepers < MaxLeft

Stop(t) ==
  /\ pc[t] = "asleep" /\ FewLeft
  /\ Leave(t, "stopped")
  /\ UNCHANGED <<ticks, timer_ticks, sleeping, lock, home, stamp, crossed>>

Restart(t) ==
  /\ pc[t] = "stopped" /\ stamp[t] < MaxStamp
  /\ stamp' = [stamp EXCEPT ![t] = @ + 1]
  /\ \E c \in Cpu : home' = [home EXCEPT ![t] = c]
  /\ Go(t, "run")
  /\ UNCHANGED <<ticks, timer_ticks, sleeping, lock, slp, until, crossed>>

Resume(t) ==
  /\ pc[t] = "asleep" /\ FewLeft
  /\ Leave(t, "run")
  /\ \E c \in Cpu : home' = [home EXCEPT ![t] = c]
  /\ UNCHANGED <<ticks, timer_ticks, sleeping, lock, stamp, crossed>>

Move(t, c) ==
  /\ pc[t] \in {"run", "called"} /\ Runs(t)
  /\ home' = [home EXCEPT ![t] = c]
  /\ UNCHANGED <<ticks, timer_ticks, sleeping, lock, pc, slp, stamp, until, crossed>>

Step(t) ==
  \/ Disable(t) \/ Acquire(t) \/ NoMemory(t)
  \/ \E period \in Period : Insert(t, period)
  \/ Pause(t)

Next ==
  \/ \E t \in Thread : sleep(t) \/ Step(t) \/ Stop(t) \/ Restart(t) \/ Resume(t)
  \/ \E c \in Cpu : Timer(c) \/ \E t \in Thread : Move(t, c)

(* Every thread inside sleep gets its share of its CPU (CpuQueue shows     *)
(* that), and the periodic timer of every CPU comes again and again,       *)
(* whenever interrupts are enabled.                                        *)
Spec ==
  /\ Init /\ [][Next]_vars
  /\ \A t \in Thread : SF_vars(Step(t))
  /\ \A c \in Cpu : SF_vars(Timer(c))
-----------------------------------------------------------------------------
(* A CPU's timer is set for the first node of its list, to a tick that is  *)
(* not the 0 that means never, and is off when the list is empty, unless   *)
(* a thread of another CPU changed one of the two.                         *)
TimerArmed ==
  \A c \in Cpu \ crossed :
    IF sleeping[c] = <<>> THEN timer_ticks[c] = 0
    ELSE timer_ticks[c] = Head(sleeping[c]).ticks /\ timer_ticks[c] # 0

NodesOf(t, c) ==
  {i \in DOMAIN sleeping[c] :
     sleeping[c][i].thread = t /\ sleeping[c][i].stamp = stamp[t]}

(* Besides the node it sleeps by, t has one that a third party's           *)
(* resume_thread has left behind.                                          *)
LeftBehind(t) ==
  \E c, d \in Cpu : \E i \in NodesOf(t, c), j \in NodesOf(t, d) :
    <<c, i>> # <<d, j>>

(* Nobody is woken by the timer before the period it asked for is over, to *)
(* the length of a tick, whatever nodes of stopped threads are left in the *)
(* lists and however the period is rounded; unless its list is one that a  *)
(* thread of another CPU changed.                                          *)
NeverEarly ==
  [][\A t \in Thread :
       (/\ pc[t] = "asleep" /\ pc'[t] = "run" /\ sleeping' # sleeping
        /\ slp[t] \notin crossed)
       => until[t] < (ticks' + 1) * TickInterval \/ LeftBehind(t)]_vars

(* What test/sync.c asserts ("awaken in time"), as far as it does not      *)
(* depend on how many others wake at the same tick: a sleeper wakes,       *)
(* unless the list it chose is one that a thread of another CPU changed.   *)
SleepersWake ==
  \A t \in Thread :
    pc[t] = "asleep" ~> pc[t] # "asleep" \/ slp[t] \in crossed
=============================================================================
