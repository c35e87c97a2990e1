----------------------------- MODULE MCRunList ------------------------------
(* Three threads, two of them at one priority. *)
EXTENDS RunList, TLC

CONSTANTS t1, t2, t3

MCThread == {t1, t2, t3}
MCPriority == (t1 :> 1) @@ (t2 :> 1) @@ (t3 :> 0)
=============================================================================
