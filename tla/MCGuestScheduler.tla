-------------------------- MODULE MCGuestScheduler --------------------------
(* The scheduler on a small set of guest threads. *)
EXTENDS GuestScheduler

CONSTANTS t1, t2, t3

MCThread == {t1, t2, t3}
MCTwo == {t1, t2}
=============================================================================
