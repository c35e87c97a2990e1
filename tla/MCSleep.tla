------------------------------ MODULE MCSleep -------------------------------
(* Two CPUs and two threads, each of which may leave a node behind when it *)
(* is stopped or resumed; periods of less than a tick and of more.         *)
EXTENDS Sleep

CONSTANTS c1, c2, t1, t2

MCCpu == {c1, c2}
MCThread == {t1, t2}
=============================================================================
