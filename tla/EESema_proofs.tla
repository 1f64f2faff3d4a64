---------------------------- MODULE EESema_proofs ----------------------------
(***************************************************************************)
(* Proofs about the kernel's semaphores, for every set of threads and      *)
(* semaphores and every parameter a program may pass.  The thread records' *)
(* invariant ThreadInv is kept by the semaphore calls as well; SemaInv     *)
(* adds what the semaphores need.                                          *)
(***************************************************************************)
EXTENDS EESema, EEThreads_proofs, FiniteSetTheorems

(* A call works on a semaphore that was made, from its lookup to its end;   *)
(* a thread stays in the call until then.                                   *)
HandleInv ==
    /\ \A c \in Caller : handle[c] # None => handle[c] \in known \cup deleted
    /\ \A t \in Thread : pc[t] \in {"call", "wait"} <=> handle[t] # None

(* A semaphore has a maximum from the moment it is made. *)
LimitInv ==
    /\ known \cap deleted = {}
    /\ \A s \in Sema : s \in known \cup deleted <=> maxCount[s] > 0

(* The counter counts; there are finitely many parked threads to count. *)
CountInv == WaitersCounted /\ \A s \in Sema : IsFiniteSet(Parked(s))

SemaInv == SemaTypeOK /\ HandleInv /\ LimitInv /\ CountInv
-----------------------------------------------------------------------------
(* The initial state satisfies the invariants. *)
LEMMA SemaInvInit == Init /\ SemaInit => ThreadInv /\ SemaInv
<1> SUFFICES ASSUME Init, SemaInit PROVE SemaInv
  BY ThreadInvInit
<1> USE ThreadsAssumption, SemaAssumption DEF Init, SemaInit, Caller
<1>1. SemaTypeOK /\ HandleInv /\ LimitInv
  BY DEF SemaTypeOK, HandleInv, LimitInv
<1>2. ASSUME NEW s \in Sema PROVE Parked(s) = {}
  BY DEF Parked
<1>3. CountInv
  BY <1>2, FS_EmptySet DEF CountInv, WaitersCounted
<1> QED
  BY <1>1, <1>3 DEF SemaInv

(* The semaphore calls treat the records as EEThreads lets them. *)
LEMMA SemaKeepsThreadInv == ThreadInv /\ SemaNext => ThreadInv'
<1> SUFFICES ASSUME ThreadInv, SemaNext PROVE ThreadInv'
  OBVIOUS
<1> USE DEF Caller
<1>1. CASE UNCHANGED threadVars
  BY <1>1, ThreadInvStep
<1>2. ASSUME NEW t \in Thread, WaitSema(t) PROVE ThreadInv'
  BY <1>2, CallsKeepThreadInv, WaitsKeepThreadInv
     DEF WaitSema, WaitSemaThrows, WaitSemaTakes, WaitSemaParks, WaitSemaDone, EndCall
<1>3. ASSUME NEW c \in Caller, SignalSema(c) \/ PollSema(c) PROVE ThreadInv'
  BY <1>3, CallsKeepThreadInv DEF SignalSema, PollSema, EndCall
<1>4. ASSUME NEW c \in Caller, NEW s \in Sema, LookupSema(c, s) PROVE ThreadInv'
  BY <1>4, CallsKeepThreadInv DEF LookupSema
<1> QED
  BY <1>1, <1>2, <1>3, <1>4 DEF SemaNext, CreateSema, DeleteSema

(* What a call that does not wait does to the threads in calls: it ends. *)
LEMMA CallEnds ==
    ASSUME ThreadInv, SemaInv, NEW c \in Caller, AtWork(c),
           NEW l \in {"guest", "check"}, EndCall(c, l)
    PROVE  /\ handle[c] \in Sema
           /\ handle' = [handle EXCEPT ![c] = None]
           /\ \A t \in Thread : /\ pc'[t] = "wait" <=> pc[t] = "wait"
                                /\ pc'[t] = "call" <=> pc[t] = "call" /\ t # c
                                /\ pc[t] = "wait" => handle'[t] = handle[t]
<1> USE ThreadsAssumption, SemaAssumption
    DEF ThreadInv, TypeOK, SemaInv, SemaTypeOK, HandleInv, Caller
<1>1. handle[c] \in Sema /\ handle' = [handle EXCEPT ![c] = None]
  BY DEF AtWork, EndCall
<1>2. CASE c = Intr
  BY <1>1, <1>2 DEF EndCall, LeaveCall
<1>3. CASE c # Intr
  <2>1. c \in Thread /\ pc[c] = "call" /\ pc' = [pc EXCEPT ![c] = l]
    BY <1>3 DEF EndCall, LeaveCall, AtWork, Goto
  <2>2. l # "wait" /\ l # "call"
    OBVIOUS
  <2> QED
    BY <1>1, <2>1, <2>2
<1> QED
  BY <1>1, <1>2, <1>3

(* Where no wait begins or ends the sets of parked threads stay. *)
LEMMA ParkedKept ==
    ASSUME \A t \in Thread : /\ pc'[t] = "wait" <=> pc[t] = "wait"
                             /\ pc[t] = "wait" => handle'[t] = handle[t]
    PROVE  \A s \in Sema : Parked(s)' = Parked(s)
<1>1. ASSUME NEW s \in Sema
      PROVE  \A t \in Thread : (pc'[t] = "wait" /\ handle'[t] = s)
                              <=> (pc[t] = "wait" /\ handle[t] = s)
  OBVIOUS
<1> QED
  BY <1>1 DEF Parked

(* How the set of parked threads moves: one joins, one leaves. *)
LEMMA ParkedGrows ==
    ASSUME ThreadInv, SemaInv, NEW t \in Thread, WaitSemaParks(t)
    PROVE  /\ handle[t] \in Sema
           /\ \A s \in Sema :
                IF s = handle[t]
                THEN t \notin Parked(s) /\ Parked(s)' = Parked(s) \cup {t}
                ELSE Parked(s)' = Parked(s)
<1> USE SemaAssumption DEF ThreadInv, TypeOK, SemaInv, SemaTypeOK, HandleInv, Caller
<1>1. pc[t] = "call" /\ pc' = [pc EXCEPT ![t] = "wait"] /\ handle' = handle
  BY DEF WaitSemaParks, ParkOn, Park, Goto
<1> QED
  BY <1>1 DEF Parked

(* The thread that leaves was parked on an existing semaphore. *)
LEMMA ParkedShrinks ==
    ASSUME ThreadInv, SemaInv, NEW t \in Thread, WaitSemaDone(t)
    PROVE  /\ handle[t] \in Sema
           /\ \A s \in Sema :
                IF s = handle[t]
                THEN t \in Parked(s) /\ Parked(s)' = Parked(s) \ {t}
                ELSE Parked(s)' = Parked(s)
<1> USE SemaAssumption DEF ThreadInv, TypeOK, SemaInv, SemaTypeOK, HandleInv, Caller
<1> DEFINE l == IF term[t] THEN "dying" ELSE "check"
<1>1. pc[t] = "wait" /\ pc' = [pc EXCEPT ![t] = l] /\ handle' = [handle EXCEPT ![t] = None]
  BY DEF WaitSemaDone, FinishWait, Goto
<1>2. handle[t] \in Sema
  BY <1>1
<1>3. l # "wait"
  OBVIOUS
<1>4. \A u \in Thread : (pc'[u] = "wait" <=> pc[u] = "wait" /\ u # t)
                       /\ (u # t => handle'[u] = handle[u])
  <2> HIDE DEF l
  <2> QED
    BY <1>1, <1>3
<1> QED
  BY <1>1, <1>2, <1>4 DEF Parked

(* The steps that leave every wait as it is. *)
Quiet == /\ ~ \E t \in Thread : WaitSemaParks(t)
         /\ ~ \E t \in Thread : WaitSemaDone(t)

LEMMA QuietStepsKeepParked ==
    ASSUME ThreadInv, SemaInv, [Next]_vars, Quiet
    PROVE  UNCHANGED waiters /\ \A s \in Sema : Parked(s)' = Parked(s)
<1> DEFINE Kept == UNCHANGED waiters
                   /\ \A t \in Thread : /\ pc'[t] = "wait" <=> pc[t] = "wait"
                                        /\ pc[t] = "wait" => handle'[t] = handle[t]
<1>0. SUFFICES Kept
  BY ParkedKept
<1> USE ThreadsAssumption
    DEF ThreadInv, TypeOK, SemaInv, SemaTypeOK, HandleInv, Caller
<1>1. CASE UNCHANGED vars
  BY <1>1 DEF vars
<1>2. CASE ThreadNext /\ UNCHANGED semaVars
  BY <1>2, ThreadKeepsCalls DEF semaVars, InCalls
<1>3. ASSUME NEW t \in Thread, WaitSemaThrows(t) PROVE Kept
  BY <1>3 DEF WaitSemaThrows, CallThrows, Throw, Goto
<1>4. ASSUME NEW c \in Caller, SignalSema(c) \/ PollSema(c) PROVE Kept
  BY <1>4, CallEnds DEF SignalSema, PollSema, EndCall
<1>5. ASSUME NEW t \in Thread, WaitSemaTakes(t) PROVE Kept
  <2>1. AtWork(t)
    BY <1>5 DEF WaitSemaTakes, AtWork
  <2> QED
    BY <1>5, <2>1, CallEnds DEF WaitSemaTakes, EndCall
<1>6. ASSUME NEW c \in Caller, NEW s \in Sema, LookupSema(c, s) PROVE Kept
  BY <1>6 DEF LookupSema, BeginCall, Free, Running, Goto
<1>7. CASE UNCHANGED <<threadVars, waiters, handle>>
  BY <1>7 DEF threadVars
<1> QED
  BY <1>1, <1>2, <1>3, <1>4, <1>5, <1>6, <1>7
     DEF Quiet, Next, SemaNext, WaitSema, CreateSema, DeleteSema

(* The counter keeps counting the parked threads. *)
LEMMA CountStep == ThreadInv /\ SemaInv /\ [Next]_vars => CountInv'
<1> SUFFICES ASSUME ThreadInv, SemaInv, [Next]_vars PROVE CountInv'
  OBVIOUS
<1> USE DEF SemaInv, SemaTypeOK, CountInv, WaitersCounted
<1>1. ASSUME NEW t \in Thread, WaitSemaParks(t) PROVE CountInv'
  <2>1. handle[t] \in Sema /\ waiters' = [waiters EXCEPT ![handle[t]] = @ + 1]
    BY <1>1, ParkedGrows DEF WaitSemaParks
  <2>2. ASSUME NEW u \in Sema
        PROVE  waiters'[u] = Cardinality(Parked(u)') /\ IsFiniteSet(Parked(u)')
    <3>1. CASE u = handle[t]
      <4>1. t \notin Parked(u) /\ Parked(u)' = Parked(u) \cup {t}
        BY <1>1, <3>1, ParkedGrows
      <4>2. IsFiniteSet(Parked(u)') /\ Cardinality(Parked(u)') = Cardinality(Parked(u)) + 1
        BY <4>1, FS_AddElement
      <4> QED
        BY <2>1, <3>1, <4>2
    <3>2. CASE u # handle[t]
      BY <1>1, <2>1, <3>2, ParkedGrows
    <3> QED
      BY <3>1, <3>2
  <2> QED
    BY <2>2
<1>2. ASSUME NEW t \in Thread, WaitSemaDone(t) PROVE CountInv'
  <2>1. handle[t] \in Sema /\ waiters' = [waiters EXCEPT ![handle[t]] = @ - 1]
    BY <1>2, ParkedShrinks DEF WaitSemaDone, WaitersLeft
  <2>2. ASSUME NEW u \in Sema
        PROVE  waiters'[u] = Cardinality(Parked(u)') /\ IsFiniteSet(Parked(u)')
    <3>1. CASE u = handle[t]
      <4>1. t \in Parked(u) /\ Parked(u)' = Parked(u) \ {t}
        BY <1>2, <3>1, ParkedShrinks
      <4>2. IsFiniteSet(Parked(u)') /\ Cardinality(Parked(u)') = Cardinality(Parked(u)) - 1
        BY <4>1, FS_RemoveElement
      <4> QED
        BY <2>1, <3>1, <4>2
    <3>2. CASE u # handle[t]
      BY <1>2, <2>1, <3>2, ParkedShrinks
    <3> QED
      BY <3>1, <3>2
  <2> QED
    BY <2>2
<1>3. CASE Quiet
  BY <1>3, QuietStepsKeepParked
<1> QED
  BY <1>1, <1>2, <1>3 DEF Quiet

(* A thread that leaves is counted, so the counter does not fall below zero. *)
LEMMA CountedWaiter ==
    ASSUME ThreadInv, SemaInv, NEW t \in Thread, WaitSemaDone(t)
    PROVE  waiters[handle[t]] - 1 \in Nat
<1>1. handle[t] \in Sema /\ t \in Parked(handle[t])
  BY ParkedShrinks
<1>2. Parked(handle[t]) # {} /\ IsFiniteSet(Parked(handle[t]))
  BY <1>1 DEF SemaInv, CountInv
<1>3. Cardinality(Parked(handle[t])) \in Nat /\ Cardinality(Parked(handle[t])) # 0
  BY <1>2, FS_EmptySet, FS_CardinalityType
<1> QED
  BY <1>1, <1>3 DEF SemaInv, CountInv, WaitersCounted

(* The semaphore calls keep the types, whatever parameters CreateSema gets, *)
(* the limits - a semaphore is made once and deleted at most once - and     *)
(* the record of who is in a call.                                          *)
SemaStatic == SemaTypeOK /\ HandleInv /\ LimitInv

LEMMA SemaStaticStep == ThreadInv /\ SemaInv /\ [Next]_vars => SemaStatic'
<1> SUFFICES ASSUME ThreadInv, SemaInv, [Next]_vars PROVE SemaStatic'
  OBVIOUS
<1> USE ThreadsAssumption, SemaAssumption
    DEF SemaInv, SemaTypeOK, LimitInv, HandleInv, SemaStatic, ThreadInv, TypeOK, Caller
<1>1. CASE UNCHANGED semaVars /\ InCalls
  BY <1>1 DEF semaVars, InCalls
<1>2. CASE ThreadNext /\ UNCHANGED semaVars
  BY <1>1, <1>2, ThreadKeepsCalls
<1>3. ASSUME NEW a \in Thread, NEW s \in Sema, NEW init \in Params, NEW max \in Params,
             CreateSema(a, s, init, max)
      PROVE  SemaStatic'
  <2> DEFINE m == IF max <= 0 THEN 1 ELSE max
             c == AtMost(AtLeast(init, 0), m)
  <2>1. m \in Nat /\ m > 0 /\ c \in Nat
    BY DEF AtMost, AtLeast
  <2>2. /\ maxCount' = [maxCount EXCEPT ![s] = m]
        /\ maxCount'[s] = m
    BY <1>3 DEF CreateSema
  <2>3. count' = [count EXCEPT ![s] = c]
    BY <1>3, <2>2 DEF CreateSema
  <2>4. /\ known' = known \cup {s} /\ s \notin known \cup deleted
        /\ UNCHANGED <<pc, deleted, waiters, handle>>
    BY <1>3 DEF CreateSema, threadVars
  <2> HIDE DEF m, c
  <2> QED
    BY <2>1, <2>2, <2>3, <2>4
<1>4. ASSUME NEW c \in Caller, NEW s \in Sema, DeleteSema(c, s) PROVE SemaStatic'
  BY <1>4 DEF DeleteSema, threadVars
<1>5. ASSUME NEW c \in Caller, NEW s \in Sema, LookupSema(c, s) PROVE SemaStatic'
  BY <1>5 DEF LookupSema, BeginCall, Free, Running, Goto
<1>6. ASSUME NEW c \in Caller, SignalSema(c) \/ PollSema(c) PROVE SemaStatic'
  <2>0. AtWork(c) /\ EndCall(c, "guest")
    BY <1>6 DEF SignalSema, PollSema
  <2>1. /\ handle[c] \in Sema
        /\ handle' = [handle EXCEPT ![c] = None]
        /\ \A t \in Thread : /\ pc'[t] = "wait" <=> pc[t] = "wait"
                             /\ pc'[t] = "call" <=> pc[t] = "call" /\ t # c
        /\ UNCHANGED <<known, deleted, maxCount, waiters>>
    <3>1. UNCHANGED <<known, deleted, maxCount, waiters>>
      BY <2>0 DEF EndCall
    <3> HIDE DEF ThreadInv, SemaInv
    <3> QED
      BY <2>0, <3>1, CallEnds
  <2>2. c \in Thread => pc[c] = "call"
    BY <1>6 DEF SignalSema, PollSema, AtWork
  <2>3. count' \in [Sema -> Nat]
    <3>1. CASE SignalSema(c)
      BY <2>1, <3>1 DEF SignalSema
    <3>2. CASE PollSema(c)
      BY <2>1, <3>2 DEF PollSema
    <3> QED
      BY <1>6, <3>1, <3>2
  <2> QED
    BY <2>1, <2>2, <2>3
<1>7. ASSUME NEW t \in Thread, WaitSemaThrows(t) PROVE SemaStatic'
  BY <1>7 DEF WaitSemaThrows, CallThrows, Throw, Goto
<1>8. ASSUME NEW t \in Thread, WaitSemaTakes(t) PROVE SemaStatic'
  BY <1>8 DEF WaitSemaTakes, EndCall, LeaveCall, Goto
<1>9. ASSUME NEW t \in Thread, WaitSemaParks(t) PROVE SemaStatic'
  BY <1>9 DEF WaitSemaParks, ParkOn, Park, Goto
<1>10. ASSUME NEW t \in Thread, WaitSemaDone(t) PROVE SemaStatic'
  <2>1. handle[t] \in Sema /\ waiters[handle[t]] - 1 \in Nat
    BY <1>10, ParkedShrinks, CountedWaiter
  <2>2. SemaTypeOK'
    BY <1>10, <2>1 DEF WaitSemaDone, WaitersLeft, Granted
  <2>3. HandleInv' /\ LimitInv'
    BY <1>10 DEF WaitSemaDone, FinishWait, Goto
  <2> QED
    BY <2>2, <2>3
<1>11. CASE UNCHANGED vars
  BY <1>1, <1>11 DEF vars, semaVars, InCalls
<1> QED
  BY <1>2, <1>3, <1>4, <1>5, <1>6, <1>7, <1>8, <1>9, <1>10, <1>11
     DEF Next, SemaNext, WaitSema

(* Both invariants together are inductive. *)
LEMMA KernelInvStep == ThreadInv /\ SemaInv /\ [Next]_vars => ThreadInv' /\ SemaInv'
<1> SUFFICES ASSUME ThreadInv, SemaInv, [Next]_vars PROVE ThreadInv' /\ SemaInv'
  OBVIOUS
<1>1. ThreadInv'
  BY ThreadInvStep, SemaKeepsThreadInv DEF Next, vars, threadVars
<1>2. SemaInv'
  BY SemaStaticStep, CountStep DEF SemaInv, SemaStatic
<1> QED
  BY <1>1, <1>2

(* Every reachable state satisfies both invariants. *)
THEOREM KernelInvariant == Spec => [](ThreadInv /\ SemaInv)
BY SemaInvInit, KernelInvStep, PTL DEF Spec

(* The semaphores' types: no count and no waiters counter falls below zero, *)
(* however waits end.                                                       *)
THEOREM SemaTypes == Spec => []SemaTypeOK
BY KernelInvariant, PTL DEF SemaInv

(* The records tell the truth about waits, those on semaphores included. *)
THEOREM SemaWaitIsShownTruly == Spec => []WaitShownTruly
BY KernelInvariant, PTL DEF ThreadInv, WaitInv

(* No release is left over for a later wait on a semaphore, either. *)
THEOREM SemaReleaseIsNotStale == Spec => []NoStaleRelease
BY KernelInvariant, PTL DEF ThreadInv

(* The semaphore calls show a suspended thread as the thread calls do. *)
THEOREM SemaSuspendIsShownElsewhere == Spec => []SuspendShownElsewhere
BY KernelInvariant, PTL DEF ThreadInv, SuspendInv

(* The waiters counter is exact. *)
THEOREM WaitersAreCounted == Spec => []WaitersCounted
BY KernelInvariant, PTL DEF SemaInv, CountInv

(* A waiter that is not shown waiting has been released. *)
LEMMA WaiterInvWakes == ThreadInv /\ SemaInv => ReadyWaiterWakes
BY DEF ThreadInv, WaitInv, WaitShownTruly, SemaInv, WaiterInv, ReadyWaiterWakes, WaitSemaOver,
       ShownWaiting

(* No waiter is shown READY or SUSPEND without its predicate holding. *)
THEOREM ReadyWaiterWillWake == Spec => []ReadyWaiterWakes
BY KernelInvariant, WaiterInvWakes, PTL
-----------------------------------------------------------------------------
(* Refinement of the abstract semaphores.                                  *)

(* The initial states are initial states of the abstract semaphores. *)
LEMMA SemaphoresInitial == Init /\ SemaInit => Abstract!Init
BY ThreadsAssumption, SemaAssumption DEF Init, SemaInit, Abstract!Init, Parked

(* A known semaphore is open. *)
LEMMA KnownIsOpen ==
    ASSUME SemaInv, NEW s \in Sema, s \in known PROVE Abstract!Open(s)
BY DEF SemaInv, LimitInv, Abstract!Open

(* A call that ends without waiting ends in the abstract semaphores. *)
LEMMA CallEndsAbstractly ==
    ASSUME ThreadInv, SemaInv, NEW c \in Caller, AtWork(c),
           NEW l \in {"guest", "check"}, EndCall(c, l)
    PROVE  handle[c] \in Sema /\ Abstract!Ends(c, handle[c])
<1>1. handle[c] \in Sema /\ handle' = [handle EXCEPT ![c] = None]
  BY CallEnds
<1>2. \A s \in Sema : Parked(s)' = Parked(s)
  <2>1. \A t \in Thread : /\ pc'[t] = "wait" <=> pc[t] = "wait"
                          /\ pc[t] = "wait" => handle'[t] = handle[t]
    BY CallEnds
  <2> QED
    BY <2>1, ParkedKept
<1>3. c \notin Parked(handle[c])
  BY ThreadsAssumption DEF Parked, AtWork
<1> QED
  BY <1>1, <1>2, <1>3 DEF Abstract!Ends, EndCall

(* Every step of the kernel is a step of one semaphore or a stutter. *)
LEMMA SemaphoresStepMaps ==
    ThreadInv /\ SemaInv /\ [Next]_vars => [Abstract!Next]_Abstract!vars
<1> SUFFICES ASSUME ThreadInv, SemaInv, [Next]_vars
             PROVE  [Abstract!Next]_Abstract!vars
  OBVIOUS
<1> DEFINE queue == [s \in Sema |-> Parked(s)]
<1> USE ThreadsAssumption, SemaAssumption DEF SemaInv, SemaTypeOK, LimitInv, HandleInv, Caller
<1>1. ASSUME NEW t \in Thread, WaitSemaParks(t)
      PROVE  handle[t] \in Sema /\ Abstract!Queue(t, handle[t])
  <2>1. PICK s \in Sema : s = handle[t]
    BY <1>1, ParkedGrows
  <2>2. t \notin Parked(s) /\ queue' = [queue EXCEPT ![s] = @ \cup {t}]
    BY <1>1, <2>1, ParkedGrows
  <2> QED
    BY <1>1, <2>1, <2>2 DEF WaitSemaParks, Abstract!Queue
<1>2. ASSUME NEW t \in Thread, WaitSemaDone(t)
      PROVE  \E s \in Sema : Abstract!Grant(t, s) \/ Abstract!Leave(t, s)
  <2>1. PICK s \in Sema : s = handle[t]
    BY <1>2, ParkedShrinks
  <2>2. t \in Parked(s) /\ queue' = [queue EXCEPT ![s] = @ \ {t}]
    BY <1>2, <2>1, ParkedShrinks
  <2>3. Abstract!Dequeue(t, s)
    BY <1>2, <2>2 DEF WaitSemaDone, Abstract!Dequeue
  <2>4. CASE Granted(t)
    <3>1. s \in known
      BY <2>1, <2>4 DEF Granted
    <3>2. count[s] > 0 /\ count' = [count EXCEPT ![s] = @ - 1]
      BY <1>2, <2>1, <2>4 DEF Granted, WaitSemaDone
    <3> QED
      BY <2>3, <3>1, <3>2, KnownIsOpen DEF Abstract!Grant
  <2>5. CASE ~Granted(t)
    <3>1. count' = count
      BY <1>2, <2>1, <2>5 DEF WaitSemaDone
    <3> QED
      BY <2>3, <3>1 DEF Abstract!Leave
  <2> QED
    BY <2>4, <2>5
<1>3. CASE Quiet
  <2>q. queue' = queue
    BY <1>3, QuietStepsKeepParked
  <2>1. CASE UNCHANGED semaVars
    BY <2>1, <2>q DEF semaVars, Abstract!vars
  <2>2. ASSUME NEW a \in Thread, NEW s \in Sema, NEW init \in Params, NEW max \in Params,
               CreateSema(a, s, init, max)
        PROVE  Abstract!Make(s)
    <3> DEFINE m == IF max <= 0 THEN 1 ELSE max
               c == AtMost(AtLeast(init, 0), m)
    <3>1. m \in Nat \ {0} /\ c \in 0 .. m
      BY DEF AtMost, AtLeast
    <3>2. maxCount' = [maxCount EXCEPT ![s] = m] /\ maxCount'[s] = m
      BY <2>2 DEF CreateSema
    <3>3. count' = [count EXCEPT ![s] = c] /\ count'[s] = c
      BY <2>2, <3>2 DEF CreateSema
    <3>4. maxCount[s] = 0 /\ deleted' = deleted /\ handle' = handle
      BY <2>2 DEF CreateSema
    <3> HIDE DEF m, c
    <3> QED
      BY <2>q, <3>1, <3>2, <3>3, <3>4 DEF Abstract!Make
  <2>3. ASSUME NEW c \in Caller, NEW s \in Sema, DeleteSema(c, s)
        PROVE  Abstract!Close(s)
    BY <2>3, <2>q, KnownIsOpen DEF DeleteSema, Abstract!Close
  <2>4. ASSUME NEW c \in Caller, NEW s \in Sema, LookupSema(c, s)
        PROVE  Abstract!Call(c, s)
    BY <2>4, <2>q, KnownIsOpen DEF LookupSema, Free, Abstract!Call
  <2>5. ASSUME NEW c \in Caller, SignalSema(c) \/ PollSema(c)
        PROVE  \E s \in Sema :
                  Abstract!Signal(c, s) \/ Abstract!Take(c, s) \/ Abstract!GiveUp(c, s)
    <3>1. PICK s \in Sema : s = handle[c] /\ Abstract!Ends(c, s)
      BY <2>5, CallEndsAbstractly DEF SignalSema, PollSema
    <3>2. CASE SignalSema(c)
      BY <3>1, <3>2 DEF SignalSema, Abstract!Signal, Abstract!GiveUp
    <3>3. CASE PollSema(c)
      BY <3>1, <3>3 DEF PollSema, Abstract!Take, Abstract!GiveUp
    <3> QED
      BY <2>5, <3>2, <3>3
  <2>6. ASSUME NEW t \in Thread, WaitSemaTakes(t)
        PROVE  handle[t] \in Sema /\ Abstract!Take(t, handle[t])
    <3>1. AtWork(t) /\ EndCall(t, "check")
      BY <2>6 DEF AtWork, WaitSemaTakes
    <3>2. handle[t] \in Sema /\ Abstract!Ends(t, handle[t])
      BY <3>1, CallEndsAbstractly
    <3> QED
      BY <2>6, <3>2 DEF WaitSemaTakes, Abstract!Take
  <2>7. ASSUME NEW t \in Thread, WaitSemaThrows(t)
        PROVE  handle[t] \in Sema /\ Abstract!GiveUp(t, handle[t])
    <3>1. handle[t] \in Sema /\ t \notin Parked(handle[t])
      BY <2>7 DEF WaitSemaThrows, CallThrows, Parked
    <3> QED
      BY <2>7, <2>q, <3>1 DEF WaitSemaThrows, Abstract!GiveUp, Abstract!Ends
  <2> HIDE DEF SemaInv, SemaTypeOK, LimitInv, HandleInv
  <2> QED
    BY <1>3, <2>1, <2>2, <2>3, <2>4, <2>5, <2>6, <2>7
       DEF Quiet, Next, SemaNext, WaitSema, vars, semaVars, Abstract!Next
<1> HIDE DEF SemaInv, SemaTypeOK, LimitInv, HandleInv
<1> QED
  BY <1>1, <1>2, <1>3 DEF Quiet, Abstract!Next

(* The kernel's semaphores implement the abstract ones. *)
THEOREM KernelImplementsSemaphores == Spec => ImplementsSemaphores
BY SemaphoresInitial, SemaphoresStepMaps, KernelInvariant, PTL
   DEF Spec, ImplementsSemaphores, Abstract!Spec
=============================================================================
