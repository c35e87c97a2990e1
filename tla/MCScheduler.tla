---------------------------- MODULE MCScheduler -----------------------------
(* Two CPUs and two threads at one priority: kmain, bound to the first     *)
(* CPU, and one that runs anywhere.                                        *)
EXTENDS Scheduler

CONSTANTS c1, c2, kmain, t1

MCCpu == {c1, c2}
MCThread == {kmain, t1}
MCPriority == [t \in MCThread |-> 0]
MCAffinity == [t \in MCThread |-> IF t = kmain THEN {c1} ELSE MCCpu]
=============================================================================
