----------------------------- MODULE LinkedList -----------------------------
(***************************************************************************)
(* The lists of schedule.c and driver.c as a walk over their next fields   *)
(* finds them.                                                             *)
(***************************************************************************)
EXTENDS Integers, Sequences, FiniteSets

(* The nodes reached from h, in order.  A list longer than the number of   *)
(* nodes has a cycle and is cut off there.                                 *)
Walk(Node, null, next, h) ==
  LET from[n \in 0 .. Cardinality(Node) + 1] ==
        [t \in Node \cup {null} |->
           IF t = null \/ n = 0 THEN <<>> ELSE <<t>> \o from[n - 1][next[t]]]
  IN  from[Cardinality(Node) + 1][h]
=============================================================================
