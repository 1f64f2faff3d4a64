----------------------------- MODULE EventFlags -----------------------------
(***************************************************************************)
(* What the event flags of the EE kernel promise (SetEventFlag,            *)
(* ClearEventFlag, WaitEventFlag, PollEventFlag, DeleteEventFlag): bits    *)
(* appear only by a set and disappear only by a clear or by a poll or wait *)
(* that asked to clear them and whose whole pattern was there at that      *)
(* moment; a wait that ends otherwise - released, terminated, or because   *)
(* the flag is closed - takes nothing; and a flag made for one waiter      *)
(* never has two.  No step touches two flags.  EEEventFlag implements this *)
(* specification.                                                          *)
(***************************************************************************)
EXTENDS FiniteSets

CONSTANTS
    Thread,     \* who may wait
    Caller,     \* who may call: the threads and the interrupt handlers
    Flag,
    Bit,
    Want,       \* patterns: [bits, any, clear]
    None

VARIABLES
    made,       \* the flags that exist or existed
    closed,     \* those of them that are deleted
    shared,     \* the flags made for several waiters
    bits,       \* the bits that are set
    queue,      \* the threads that wait
    want,       \* the pattern each of them waits for, or None
    calls       \* the flag that a caller's call works on, or None

vars == <<made, closed, shared, bits, queue, want, calls>>

Init ==
    /\ made = {} /\ closed = {} /\ shared = {}
    /\ bits = [f \in Flag |-> {}]
    /\ queue = [f \in Flag |-> {}]
    /\ want = [t \in Thread |-> None]
    /\ calls = [c \in Caller |-> None]

Open(f) == f \in made \ closed

(* The pattern w is there. *)
There(w, f) ==
    IF w.any THEN w.bits \cap bits[f] # {} ELSE w.bits \subseteq bits[f]

(* What is left once w is taken. *)
Left(w, f) ==
    CASE w.clear = "all" -> {}
      [] w.clear = "own" -> bits[f] \ w.bits
      [] w.clear = "no"  -> bits[f]

(* Somebody may poll, or wait as well. *)
Admits(f) == f \in shared \/ queue[f] = {}

Make(f, many, init) ==
    /\ f \notin made
    /\ made' = made \cup {f}
    /\ shared' = IF many THEN shared \cup {f} ELSE shared
    /\ bits' = [bits EXCEPT ![f] = init]
    /\ UNCHANGED <<closed, queue, want, calls>>

Close(f) ==
    /\ Open(f)
    /\ closed' = closed \cup {f}
    /\ UNCHANGED <<made, shared, bits, queue, want, calls>>

(* A call begins, and ends without a wait. *)
Call(c, f) ==
    /\ Open(f) /\ calls[c] = None
    /\ calls' = [calls EXCEPT ![c] = f]
    /\ UNCHANGED <<made, closed, shared, bits, queue, want>>

Ends(c, f) ==
    /\ calls[c] = f /\ c \notin queue[f]
    /\ calls' = [calls EXCEPT ![c] = None]
    /\ UNCHANGED <<made, closed, shared, queue, want>>

Set(c, f, b) == Ends(c, f) /\ bits' = [bits EXCEPT ![f] = @ \cup b]

Clear(c, f, b) == Ends(c, f) /\ bits' = [bits EXCEPT ![f] = @ \cap b]

Take(c, f, w) ==
    /\ Ends(c, f)
    /\ Admits(f) /\ There(w, f)
    /\ bits' = [bits EXCEPT ![f] = Left(w, f)]

(* The pattern is not there, the flag has its waiter, it was closed, or    *)
(* the thread is terminated.                                               *)
GiveUp(c, f) == Ends(c, f) /\ UNCHANGED bits

Queue(t, f, w) ==
    /\ calls[t] = f /\ t \notin queue[f]
    /\ Admits(f) /\ ~There(w, f)
    /\ queue' = [queue EXCEPT ![f] = @ \cup {t}]
    /\ want' = [want EXCEPT ![t] = w]
    /\ UNCHANGED <<made, closed, shared, bits, calls>>

(* The wait of t, and with it its call, ends. *)
Dequeue(t, f) ==
    /\ t \in queue[f]
    /\ queue' = [queue EXCEPT ![f] = @ \ {t}]
    /\ want' = [want EXCEPT ![t] = None]
    /\ calls' = [calls EXCEPT ![t] = None]
    /\ UNCHANGED <<made, closed, shared>>

Grant(t, f) ==
    /\ Dequeue(t, f)
    /\ Open(f) /\ There(want[t], f)
    /\ bits' = [bits EXCEPT ![f] = Left(want[t], f)]

Leave(t, f) == Dequeue(t, f) /\ UNCHANGED bits

Next ==
    \E f \in Flag :
        \/ Close(f)
        \/ \E many \in BOOLEAN, init \in SUBSET Bit : Make(f, many, init)
        \/ \E c \in Caller : Call(c, f) \/ GiveUp(c, f)
        \/ \E c \in Caller, b \in SUBSET Bit : Set(c, f, b) \/ Clear(c, f, b)
        \/ \E c \in Caller, w \in Want : Take(c, f, w)
        \/ \E t \in Thread, w \in Want : Queue(t, f, w)
        \/ \E t \in Thread : Grant(t, f) \/ Leave(t, f)

Spec == Init /\ [][Next]_vars
=============================================================================
