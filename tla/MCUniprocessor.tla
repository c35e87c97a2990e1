--------------------------- MODULE MCUniprocessor ---------------------------
(* kmain and two threads, one of them at a more urgent priority. *)
EXTENDS Uniprocessor

CONSTANTS kmain, t1, t2

MCCpu == {bsp}
MCThread == {kmain, t1, t2}
MCPriority == [t \in MCThread |-> IF t = t1 THEN 0 ELSE 1]
MCAffinity == [t \in MCThread |-> MCCpu]

ASSUME OneCpu
=============================================================================
