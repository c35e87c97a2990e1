----------------------------- MODULE MCSpinlock -----------------------------
(* Two CPUs, three threads that move between them, and two locks. *)
EXTENDS Spinlock, TLC

CONSTANTS c1, c2, t1, t2, t3

MCCpu == {c1, c2}
MCThread == {t1, t2, t3}
Symmetry == Permutations(MCCpu) \cup Permutations(MCThread)
MCLock == {"inactive", "cpu"}
MCLimited == {"inactive"}

=============================================================================
