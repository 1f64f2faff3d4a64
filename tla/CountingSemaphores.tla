------------------------- MODULE CountingSemaphores -------------------------
(***************************************************************************)
(* What the semaphores of the EE kernel promise (WaitSema, SignalSema,     *)
(* PollSema, DeleteSema): a call begins on an open semaphore and stays     *)
(* with it, even when another call closes it meanwhile; units are made one *)
(* by one and never beyond the limit, every success takes exactly one, a   *)
(* thread joins a queue only when there is none, and one that leaves it    *)
(* without success - released, terminated or because the semaphore is      *)
(* closed - takes none; nobody is granted a unit of a closed semaphore.    *)
(* No step touches two semaphores.  EESema implements this specification.  *)
(***************************************************************************)
EXTENDS Integers

CONSTANTS
    Thread,     \* who may wait
    Caller,     \* who may call: the threads and the interrupt handlers
    Sema,
    None

VARIABLES
    units,      \* what can be taken
    limit,      \* the most there can be; 0 before the semaphore is made
    queue,      \* the threads that wait for one
    closed,     \* the semaphores that are deleted
    calls       \* the semaphore that a caller's call works on, or None

vars == <<units, limit, queue, closed, calls>>

Init ==
    /\ units = [s \in Sema |-> 0]
    /\ limit = [s \in Sema |-> 0]
    /\ queue = [s \in Sema |-> {}]
    /\ closed = {}
    /\ calls = [c \in Caller |-> None]

Open(s) == limit[s] > 0 /\ s \notin closed

Make(s) ==
    /\ limit[s] = 0
    /\ limit'[s] \in Nat \ {0}
    /\ units'[s] \in 0 .. limit'[s]
    /\ limit' = [limit EXCEPT ![s] = limit'[s]]
    /\ units' = [units EXCEPT ![s] = units'[s]]
    /\ UNCHANGED <<queue, closed, calls>>

Close(s) ==
    /\ Open(s)
    /\ closed' = closed \cup {s}
    /\ UNCHANGED <<units, limit, queue, calls>>

(* A call begins. *)
Call(c, s) ==
    /\ Open(s) /\ calls[c] = None
    /\ calls' = [calls EXCEPT ![c] = s]
    /\ UNCHANGED <<units, limit, queue, closed>>

(* The call of c, which does not wait, ends. *)
Ends(c, s) ==
    /\ calls[c] = s /\ c \notin queue[s]
    /\ calls' = [calls EXCEPT ![c] = None]
    /\ UNCHANGED <<limit, queue, closed>>

Signal(c, s) ==
    /\ Ends(c, s)
    /\ units[s] < limit[s]
    /\ units' = [units EXCEPT ![s] = @ + 1]

Take(c, s) ==
    /\ Ends(c, s)
    /\ units[s] > 0
    /\ units' = [units EXCEPT ![s] = @ - 1]

(* It finds the semaphore full or empty, or the thread terminated. *)
GiveUp(c, s) == Ends(c, s) /\ UNCHANGED units

Queue(t, s) ==
    /\ calls[t] = s /\ t \notin queue[s]
    /\ units[s] = 0
    /\ queue' = [queue EXCEPT ![s] = @ \cup {t}]
    /\ UNCHANGED <<units, limit, closed, calls>>

(* The wait of t, and with it its call, ends. *)
Dequeue(t, s) ==
    /\ t \in queue[s]
    /\ queue' = [queue EXCEPT ![s] = @ \ {t}]
    /\ calls' = [calls EXCEPT ![t] = None]
    /\ UNCHANGED <<limit, closed>>

Grant(t, s) ==
    /\ Open(s) /\ units[s] > 0
    /\ Dequeue(t, s)
    /\ units' = [units EXCEPT ![s] = @ - 1]

Leave(t, s) == Dequeue(t, s) /\ UNCHANGED units

Next ==
    \E s \in Sema :
        \/ Make(s) \/ Close(s)
        \/ \E c \in Caller : Call(c, s) \/ Signal(c, s) \/ Take(c, s) \/ GiveUp(c, s)
        \/ \E t \in Thread : Queue(t, s) \/ Grant(t, s) \/ Leave(t, s)

Spec == Init /\ [][Next]_vars
=============================================================================
