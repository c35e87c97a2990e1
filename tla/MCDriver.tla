------------------------------ MODULE MCDriver ------------------------------
(* Three drivers of two types and a client; five adds, so that drivers are *)
(* added again while the client is in the middle of its enumeration.       *)
EXTENDS Driver

MCTypeOf == [d \in Drivers |-> IF d = 2 THEN 2 ELSE 1]
=============================================================================
