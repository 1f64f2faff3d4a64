----------------------------- MODULE GuestToken -----------------------------
(***************************************************************************)
(* What the guest scheduler promises its callers (ps2_runtime.h 684-695):  *)
(* one token, held by at most one guest thread; a thread that wants it is  *)
(* ready until it gets it; nobody is ready while the token is free.  Only  *)
(* the holder gives the token away, and it always goes to a ready thread.  *)
(* GuestScheduler implements this specification.                           *)
(***************************************************************************)

CONSTANTS
    Thread,     \* guest thread ids
    NoTid       \* "no thread": m_schedCurrent = -1

VARIABLES
    holder,     \* the thread that has the token, or NoTid
    ready,      \* the threads that want it
    stopping    \* the runtime is shutting down

vars == <<holder, ready, stopping>>

Init ==
    /\ holder = NoTid
    /\ ready = {}
    /\ stopping = FALSE

(* A thread asks for the token and gets it at once when it is free. *)
Join(t) ==
    /\ t \notin ready /\ t # holder
    /\ \/ holder = NoTid /\ holder' = t /\ ready' = ready
       \/ holder # NoTid /\ holder' = holder /\ ready' = ready \cup {t}
    /\ UNCHANGED stopping

(* The holder hands the token to a ready thread and stays ready itself. *)
Pass(n) ==
    /\ n \in ready /\ holder # NoTid
    /\ holder' = n
    /\ ready' = (ready \ {n}) \cup {holder}
    /\ UNCHANGED stopping

(* The holder gives the token up: to a ready thread if there is one. *)
Drop ==
    /\ holder # NoTid
    /\ \/ ready = {} /\ holder' = NoTid /\ ready' = {}
       \/ \E n \in ready : holder' = n /\ ready' = ready \ {n}
    /\ UNCHANGED stopping

(* During a shutdown the waits return without the token: a ready thread    *)
(* may leave.                                                              *)
Withdraw(t) ==
    /\ stopping
    /\ t \in ready
    /\ ready' = ready \ {t}
    /\ UNCHANGED <<holder, stopping>>

Stop ==
    /\ ~stopping
    /\ stopping' = TRUE
    /\ UNCHANGED <<holder, ready>>

Next ==
    \/ \E t \in Thread : Join(t) \/ Pass(t) \/ Withdraw(t)
    \/ Drop
    \/ Stop

Spec == Init /\ [][Next]_vars
=============================================================================
