--------------------------- MODULE MCEEEventFlag ---------------------------
(* The kernel's threads and event flags on a small instance. *)
EXTENDS EEEventFlag

CONSTANTS t1, t2, f1, b1, b2

MCThread == {t1, t2}
MCFlag == {f1}
MCBit == {b1, b2}

(* All of the bits and any of them, with each way to clear. *)
MCWant == {[bits |-> {b1},     any |-> FALSE, clear |-> "own"],
           [bits |-> {b1, b2}, any |-> TRUE,  clear |-> "no"],
           [bits |-> {b1, b2}, any |-> FALSE, clear |-> "all"]}
=============================================================================
