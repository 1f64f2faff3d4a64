------------------------------ MODULE MCEESema ------------------------------
(* The kernel's threads and semaphores on a small instance. *)
EXTENDS EESema

CONSTANTS t1, t2, s1

MCTwo == {t1, t2}
MCSema == {s1}
MCParams == {-1, 0, 2}
=============================================================================
