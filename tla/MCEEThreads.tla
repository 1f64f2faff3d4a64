---------------------------- MODULE MCEEThreads ----------------------------
(* The kernel's threads on a small instance. *)
EXTENDS EEThreads

CONSTANTS t1, t2

MCTwo == {t1, t2}

(* Only the main thread terminates others, it is not terminated itself, and *)
(* nobody starts a thread that still runs.                                  *)
Disciplined ==
    /\ \A t \in Thread : pc'[t] # "join"
    /\ \A t \in Thread \ {MainTid} : pc'[t] # "term"
    /\ ~term'[MainTid]

DisciplinedSpec == Init /\ [][ThreadNext /\ Disciplined]_threadVars /\ ThreadFairness
=============================================================================
