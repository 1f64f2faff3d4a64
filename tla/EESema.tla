------------------------------- MODULE EESema -------------------------------
(***************************************************************************)
(* The EE kernel's semaphores (Sync.cpp 115-439) over its thread records.  *)
(* A call first looks the semaphore up in g_semas and then works on it     *)
(* under SemaInfo::m, so that an interrupt handler may delete it between   *)
(* the two; ThreadInfo::m is taken inside SemaInfo::m.  A thread that      *)
(* waits parks with SemaInfo::m as its mutex and finishes the wait without *)
(* the token.  Every action is one critical section or a step of           *)
(* EEThreads.                                                              *)
(***************************************************************************)
EXTENDS EEThreads, FiniteSets

CONSTANTS
    Sema,       \* semaphore ids
    Params      \* the initial and maximal counts that programs pass

ASSUME SemaAssumption ==
    /\ None \notin Sema
    /\ Params \subseteq Int

Caller == Thread \cup {Intr}

VARIABLES
    known,      \* the semaphores in g_semas
    deleted,    \* the semaphores whose SemaInfo::deleted is set
    count,      \* SemaInfo::count
    maxCount,   \* SemaInfo::maxCount
    waiters,    \* SemaInfo::waiters
    handle      \* the semaphore a call has looked up: its shared_ptr<SemaInfo>

semaVars == <<known, deleted, count, maxCount, waiters, handle>>
vars == <<pc, target, holder, status, waitType, wakeups, suspends, force, term,
          known, deleted, count, maxCount, waiters, handle>>

SemaTypeOK ==
    /\ known \subseteq Sema /\ deleted \subseteq Sema
    /\ count \in [Sema -> Nat]
    /\ maxCount \in [Sema -> Nat]
    /\ waiters \in [Sema -> Nat]
    /\ handle \in [Caller -> Sema \cup {None}]

SemaInit ==
    /\ known = {} /\ deleted = {}
    /\ count = [s \in Sema |-> 0]
    /\ maxCount = [s \in Sema |-> 0]
    /\ waiters = [s \in Sema |-> 0]
    /\ handle = [c \in Caller |-> None]
-----------------------------------------------------------------------------
(* c is guest code or an interrupt handler that is not in a call. *)
Free(c) == handle[c] = None /\ (c = Intr \/ Running(c))

AtMost(n, m) == IF n > m THEN m ELSE n
AtLeast(n, m) == IF n < m THEN m ELSE n

(* CreateSema normalises what it is given: a maximum of at least 1, an     *)
(* initial count between 0 and the maximum.  Ids are not used again.       *)
CreateSema(a, s, init, max) ==
    /\ Running(a)
    /\ s \notin known \cup deleted
    /\ known' = known \cup {s}
    /\ maxCount' = [maxCount EXCEPT ![s] = IF max <= 0 THEN 1 ELSE max]
    /\ count' = [count EXCEPT ![s] = AtMost(AtLeast(init, 0), maxCount'[s])]
    /\ UNCHANGED <<threadVars, deleted, waiters, handle>>

(* DeleteSema, iDeleteSema: its waiters find out when they look.  (Until   *)
(* the flag is set, after the erasure, the calls at work see no change.)   *)
DeleteSema(c, s) ==
    /\ Free(c)
    /\ s \in known
    /\ known' = known \ {s}
    /\ deleted' = deleted \cup {s}
    /\ UNCHANGED <<threadVars, count, maxCount, waiters, handle>>

(* lookupSemaInfo, the beginning of every other call. *)
LookupSema(c, s) ==
    /\ Free(c)
    /\ s \in known
    /\ handle' = [handle EXCEPT ![c] = s]
    /\ BeginCall(c)
    /\ UNCHANGED <<known, deleted, count, maxCount, waiters>>

(* c has looked a semaphore up, and its call does not wait for it. *)
AtWork(c) == handle[c] # None /\ (c # Intr => pc[c] = "call")

(* The call of c ends; a thread that called goes on at l. *)
EndCall(c, l) ==
    /\ handle' = [handle EXCEPT ![c] = None]
    /\ LeaveCall(c, l)
    /\ UNCHANGED <<known, deleted, maxCount, waiters>>

(* Bug: an off-by-one in the overflow test. *)
SignalSemaOnce(c) ==
    /\ AtWork(c)
    /\ LET s == handle[c] IN
       count' = IF count[s] <= maxCount[s] THEN [count EXCEPT ![s] = @ + 1] ELSE count
    /\ EndCall(c, "guest")

(* SignalSema, iSignalSema; a full semaphore answers KE_SEMA_OVF. *)
SignalSema(c) ==
    /\ AtWork(c)
    /\ LET s == handle[c] IN
       count' = IF count[s] < maxCount[s] THEN [count EXCEPT ![s] = @ + 1] ELSE count
    /\ EndCall(c, "guest")

(* PollSema, iPollSema; an empty semaphore answers KE_SEMA_ZERO. *)
PollSema(c) ==
    /\ AtWork(c)
    /\ LET s == handle[c] IN
       count' = IF count[s] > 0 THEN [count EXCEPT ![s] = @ - 1] ELSE count
    /\ EndCall(c, "guest")

(* WaitSema of a terminated thread. *)
WaitSemaThrows(t) ==
    /\ CallThrows(t)
    /\ handle' = [handle EXCEPT ![t] = None]
    /\ UNCHANGED <<known, deleted, count, maxCount, waiters>>

(* WaitSema with a unit at hand. *)
WaitSemaTakes(t) ==
    /\ pc[t] = "call"
    /\ ~term[t] /\ count[handle[t]] > 0
    /\ count' = [count EXCEPT ![handle[t]] = @ - 1]
    /\ EndCall(t, "check")

(* WaitSema with none: the thread parks. *)
WaitSemaParks(t) ==
    /\ ParkOn(t, "SEMA")
    /\ ~term[t] /\ count[handle[t]] = 0
    /\ waiters' = [waiters EXCEPT ![handle[t]] = @ + 1]
    /\ UNCHANGED <<known, deleted, count, maxCount, handle>>

(* Bug: the predicate does not look at forceRelease. *)
OverUnlessReleased(t) ==
    count[handle[t]] > 0 \/ handle[t] \in deleted \/ term[t]

WaitSemaOver(t) ==
    count[handle[t]] > 0 \/ handle[t] \in deleted \/ force[t] \/ term[t]

Granted(t) ==
    ~term[t] /\ ~force[t] /\ handle[t] \notin deleted /\ count[handle[t]] > 0

(* Bug: a terminated waiter throws before the bookkeeping. *)
WaitersLeftAlive(t) ==
    IF term[t] THEN waiters ELSE [waiters EXCEPT ![handle[t]] = @ - 1]

WaitersLeft(t) == [waiters EXCEPT ![handle[t]] = @ - 1]

(* The parked thread finishes, without the token. *)
WaitSemaDone(t) ==
    /\ FinishWait(t) /\ WaitSemaOver(t)
    /\ waiters' = WaitersLeft(t)
    /\ count' = [count EXCEPT ![handle[t]] = IF Granted(t) THEN @ - 1 ELSE @]
    /\ handle' = [handle EXCEPT ![t] = None]
    /\ UNCHANGED <<known, deleted, maxCount>>
-----------------------------------------------------------------------------
WaitSema(t) == WaitSemaThrows(t) \/ WaitSemaTakes(t) \/ WaitSemaParks(t) \/ WaitSemaDone(t)

SemaNext ==
    \/ \E t \in Thread : WaitSema(t)
    \/ \E c \in Caller : SignalSema(c) \/ PollSema(c)
    \/ \E c \in Caller, s \in Sema : LookupSema(c, s) \/ DeleteSema(c, s)
    \/ \E a \in Thread, s \in Sema, init, max \in Params : CreateSema(a, s, init, max)

Next == (ThreadNext /\ UNCHANGED semaVars) \/ SemaNext

Spec == Init /\ SemaInit /\ [][Next]_vars
-----------------------------------------------------------------------------
(* Properties.                                                             *)

(* The threads parked on s. *)
Parked(s) == {t \in Thread : pc[t] = "wait" /\ handle[t] = s}

(* SemaInfo::waiters, which SignalSema tests to decide whether to yield    *)
(* and ReferSemaStatus reports, is the number of threads parked on it,     *)
(* however their waits end.                                                *)
WaitersCounted ==
    \A s \in Sema : waiters[s] = Cardinality(Parked(s))

(* A parked waiter shown READY or SUSPEND has been released, and its       *)
(* predicate will see it.                                                  *)
ReadyWaiterWakes ==
    \A t \in Thread : pc[t] = "wait" /\ ~ShownWaiting(t) => WaitSemaOver(t)

(* The semaphores implement the abstract ones: a signal, a poll or a wait  *)
(* that an interrupt handler's deletion overtakes still takes, makes or    *)
(* queues for at most one unit of the semaphore it looked up.              *)
Abstract == INSTANCE CountingSemaphores WITH
    units <- count,
    limit <- maxCount,
    queue <- [s \in Sema |-> Parked(s)],
    closed <- deleted,
    calls <- handle

ImplementsSemaphores == Abstract!Spec
=============================================================================
