------------------------------- MODULE Mutex --------------------------------
(***************************************************************************)
(* The mutex of sync.h and sync.c: threads that find mlock busy queue up,  *)
(* under ilock, and sleep; release_mutex wakes the first of them and hands *)
(* the mutex over.  Spinlocks and pausing are taken as Spinlock and        *)
(* Scheduler describe them: pause_this_thread(&ilock) pauses the caller    *)
(* and releases ilock in one step, resume_thread fails for a thread that   *)
(* is not paused.                                                          *)
(***************************************************************************)
EXTENDS Integers, Sequences

CONSTANTS
  Thread, NULL,
  MaxNodes      \* the blocks mutex->pool can provide

ASSUME MutexAssumption == NULL \notin Thread /\ MaxNodes \in Nat

VARIABLES
  mlock,     \* mutex->mlock.busy
  ilock,     \* who holds mutex->ilock
  queue,     \* the nodes from mutex->tail to mutex->head
  pc,        \* where a thread is
  woken,     \* err == ERR_NONE in __awake_in_mutex of the thread
  exposed    \* history: mlock was released under a thread that has the mutex

vars == <<mlock, ilock, queue, pc, woken, exposed>>

PC == {"out", "try", "lock", "sleep", "asleep", "stopped",
       "critical", "release", "awake"}

TypeOK ==
  /\ mlock \in BOOLEAN
  /\ ilock \in Thread \cup {NULL}
  /\ queue \in Seq(Thread)
  /\ pc \in [Thread -> PC]
  /\ woken \in [Thread -> BOOLEAN]
  /\ exposed \in BOOLEAN

Init ==
  /\ mlock = FALSE /\ ilock = NULL /\ queue = <<>>
  /\ pc = [t \in Thread |-> "out"]
  /\ woken = [t \in Thread |-> FALSE]
  /\ exposed = FALSE

Go(t, where) == pc' = [pc EXCEPT ![t] = where]
-----------------------------------------------------------------------------
(* acquire_mutex: mlock is tried for a while without ilock *)
acquire_mutex(t) ==
  /\ pc[t] = "out"
  /\ Go(t, "try")
  /\ UNCHANGED <<mlock, ilock, queue, woken>>

TryTakes(t) ==
  /\ pc[t] = "try" /\ ~mlock
  /\ mlock' = TRUE
  /\ Go(t, "critical")
  /\ UNCHANGED <<ilock, queue, woken>>

TryGivesUp(t) ==
  /\ pc[t] = "try" /\ mlock
  /\ Go(t, "lock")
  /\ UNCHANGED <<mlock, ilock, queue, woken>>

(* __sleep_in_mutex: under ilock mlock is tried once more *)
SleepLocks(t) ==
  /\ pc[t] = "lock" /\ ilock = NULL
  /\ ilock' = t
  /\ Go(t, "sleep")
  /\ UNCHANGED <<mlock, queue, woken>>

SleepTakes(t) ==
  /\ pc[t] = "sleep" /\ ~mlock
  /\ mlock' = TRUE /\ ilock' = NULL
  /\ Go(t, "critical")
  /\ UNCHANGED <<queue, woken>>

(* Faulty variants, each named for what it gets wrong, are kept next to    *)
(* the definition they vary; nothing uses them in the specification.       *)
SleepPauses_NoRecheck(t) ==
  /\ pc[t] = "sleep"
  /\ Len(queue) < MaxNodes
  /\ queue' = Append(queue, t)
  /\ ilock' = NULL
  /\ Go(t, "asleep")
  /\ UNCHANGED <<mlock, woken>>

SleepPauses(t) ==
  /\ pc[t] = "sleep" /\ mlock
  /\ Len(queue) < MaxNodes
  /\ queue' = Append(queue, t)
  /\ ilock' = NULL
  /\ Go(t, "asleep")
  /\ UNCHANGED <<mlock, woken>>

SleepFails(t) ==
  /\ pc[t] = "sleep" /\ mlock
  /\ Len(queue) >= MaxNodes
  /\ ilock' = NULL
  /\ Go(t, "out")
  /\ UNCHANGED <<mlock, queue, woken>>

(* stop_thread, by somebody else, on a thread that sleeps in the mutex *)
Stop(t) ==
  /\ pc[t] = "asleep"
  /\ Go(t, "stopped")
  /\ UNCHANGED <<mlock, ilock, queue, woken>>
-----------------------------------------------------------------------------
release_mutex(t) ==
  /\ pc[t] = "critical"
  /\ Go(t, "release")
  /\ UNCHANGED <<mlock, ilock, queue, woken>>

(* Under ilock: nobody waits and mlock is released, or __awake_in_mutex *)
ReleaseLocks(t) ==
  /\ pc[t] = "release" /\ ilock = NULL
  /\ IF queue = <<>>
     THEN mlock' = FALSE /\ Go(t, "out") /\ UNCHANGED ilock
     ELSE ilock' = t /\ Go(t, "awake") /\ UNCHANGED mlock
  /\ woken' = [woken EXCEPT ![t] = FALSE]
  /\ UNCHANGED queue

AwakeNext_Latest(t) ==
  LET w == queue[Len(queue)]
  IN  /\ pc[t] = "awake" /\ ~woken[t] /\ queue # <<>>
      /\ queue' = SubSeq(queue, 1, Len(queue) - 1)
      /\ woken' = [woken EXCEPT ![t] = pc[w] = "asleep"]
      /\ pc' = IF pc[w] = "asleep" THEN [pc EXCEPT ![w] = "critical"] ELSE pc
      /\ UNCHANGED <<mlock, ilock>>

(* One round of __awake_in_mutex; a thread that was stopped is skipped. *)
AwakeNext(t) ==
  LET w == Head(queue)
  IN  /\ pc[t] = "awake" /\ ~woken[t] /\ queue # <<>>
      /\ queue' = Tail(queue)
      /\ woken' = [woken EXCEPT ![t] = pc[w] = "asleep"]
      /\ pc' = IF pc[w] = "asleep" THEN [pc EXCEPT ![w] = "critical"] ELSE pc
      /\ UNCHANGED <<mlock, ilock>>

AwakeEnds_AlwaysReleases(t) ==
  /\ pc[t] = "awake" /\ (woken[t] \/ queue = <<>>)
  /\ mlock' = FALSE /\ ilock' = NULL
  /\ woken' = [woken EXCEPT ![t] = FALSE]
  /\ Go(t, "out")
  /\ UNCHANGED queue

(* After the last round mlock is released if nobody is left in the queue,  *)
(* whether or not a thread was woken.                                      *)
AwakeEnds(t) ==
  /\ pc[t] = "awake" /\ (woken[t] \/ queue = <<>>)
  /\ mlock' = IF queue = <<>> THEN FALSE ELSE mlock
  /\ ilock' = NULL
  /\ woken' = [woken EXCEPT ![t] = FALSE]
  /\ Go(t, "out")
  /\ UNCHANGED queue
-----------------------------------------------------------------------------
(* What the properties remember: __awake_in_mutex woke the last sleeper,   *)
(* which has the mutex now, and released mlock; until every thread that    *)
(* got in has left, mlock does not tell whether the mutex is taken.        *)
Releasing == {t \in Thread : pc[t] \in {"critical", "release", "awake"}}

WokeTheLast ==
  \E t \in Thread : /\ pc[t] = "awake" /\ pc'[t] = "out"
                    /\ woken[t] /\ queue = <<>>

History == exposed' = ((exposed \/ WokeTheLast) /\ Releasing' # {})

(* What a thread does by itself once it has started *)
Step(t) ==
  /\ \/ TryTakes(t) \/ TryGivesUp(t)
     \/ SleepLocks(t) \/ SleepTakes(t) \/ SleepPauses(t) \/ SleepFails(t)
     \/ release_mutex(t) \/ ReleaseLocks(t) \/ AwakeNext(t) \/ AwakeEnds(t)
  /\ History

Next ==
  \E t \in Thread : \/ acquire_mutex(t) /\ History
                    \/ Stop(t) /\ History
                    \/ Step(t)

(* The scheduler runs every thread that is not paused, and whoever has the *)
(* mutex releases it; nothing is assumed about who wins a spinlock.        *)
Spec == Init /\ [][Next]_vars /\ \A t \in Thread : WF_vars(Step(t))
-----------------------------------------------------------------------------
(* A sleeping thread is in the queue once, and there is somebody awake who *)
(* will wake it: a thread that has the mutex or is about to release it.    *)
(* mlock is busy only on behalf of such a thread, so that the next one to  *)
(* come does not sleep for nothing.  No interleaving of a failed try, the  *)
(* queueing, a release and the stop of a sleeper loses the wake-up.        *)
NoLostWakeup ==
  /\ \A t \in Thread : pc[t] = "asleep" =>
       \E i \in DOMAIN queue :
         queue[i] = t /\ \A j \in DOMAIN queue : queue[j] = t => j = i
  /\ mlock \/ (\E t \in Thread : pc[t] = "asleep") => Releasing # {}

(* test/sync.c: "make sure only one acquired", as far as the code keeps    *)
(* it: no two threads have the mutex unless __awake_in_mutex has woken the *)
(* last sleeper, which is when it releases mlock under the new owner.      *)
(* Newcomers, hand-overs, sleepers that were stopped and threads that find *)
(* no node do not get in otherwise.                                        *)
MutualExclusion ==
  \A t, u \in Thread : pc[t] = "critical" /\ pc[u] = "critical" =>
    t = u \/ exposed

(* A thread that sleeps in the mutex gets it, unless it is stopped.  The   *)
(* exception: threads that find no node and try again, over and over, may  *)
(* keep ilock, which is not fair, from the one that releases the mutex.    *)
OutOfNodes == \E t \in Thread : pc[t] = "sleep" /\ Len(queue) >= MaxNodes

SleepersWake ==
  \/ []<>OutOfNodes
  \/ \A t \in Thread : pc[t] = "asleep" ~> pc[t] # "asleep"

(* The promise without its exception, which TLC refutes. *)
OnlyOneAcquired ==
  \A t, u \in Thread : pc[t] = "critical" /\ pc[u] = "critical" => t = u
=============================================================================
