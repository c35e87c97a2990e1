------------------------------ MODULE MCMutex -------------------------------
(* Four threads and a pool that can run out of nodes. *)
EXTENDS Mutex

CONSTANTS t1, t2, t3, t4

MCThread == {t1, t2, t3, t4}
=============================================================================
