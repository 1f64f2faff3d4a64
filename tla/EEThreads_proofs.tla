-------------------------- MODULE EEThreads_proofs --------------------------
(***************************************************************************)
(* Proofs about the kernel's thread records, for every set of threads and  *)
(* every bound on the counts.  The inductive invariant is ThreadInv; its   *)
(* conjuncts are kept apart, each with a step lemma that names the ones it *)
(* rests on.                                                               *)
(***************************************************************************)
EXTENDS EEThreads, TLAPS

(* Whoever terminates or joins a thread has a target, and the main thread  *)
(* is never created nor joined.                                            *)
TargetInv ==
    /\ \A t \in Thread : pc[t] \in {"term", "join"} => target[t] \in Thread
    /\ \A t \in Thread : pc[t] = "join" => target[t] # MainTid
    /\ pc[MainTid] \notin {"none", "start"}

(* WaitShownTruly, and a thread that has not begun has nothing to wait for. *)
WaitInv ==
    /\ WaitShownTruly
    /\ \A t \in Thread : pc[t] = "start" => waitType[t] = "NONE"

(* SuspendShownElsewhere, and the main thread, whose step loop does not    *)
(* look at its record, is shown suspended there, too.                      *)
SuspendInv ==
    /\ SuspendShownElsewhere
    /\ suspends[MainTid] > 0 /\ pc[MainTid] = "top" =>
          status[MainTid] \in {"SUSPEND", "WAITSUSPEND"}

(* A parked sleeper without a wait type has been woken or released. *)
SleepInv ==
    ~MayCancel =>
        \A t \in Thread : pc[t] = "sleep" /\ waitType[t] = "NONE" => SleepOver(t)

(* A parked waiter has the wait type of its object or has been released. *)
WaiterInv ==
    \A t \in Thread : pc[t] = "wait" =>
        waitType[t] \in {"SEMA", "EVENT"} \/ (waitType[t] = "NONE" /\ force[t])

ThreadInv ==
    TypeOK /\ TargetInv /\ WaitInv /\ NoStaleRelease /\ SuspendInv /\ SleepInv /\ WaiterInv
-----------------------------------------------------------------------------
(* The initial state satisfies the invariant. *)
LEMMA ThreadInvInit == Init => ThreadInv
<1> SUFFICES ASSUME Init PROVE ThreadInv
  OBVIOUS
<1> USE ThreadsAssumption DEF Init
<1>1. TypeOK
  BY DEF TypeOK, Location, Status, WaitType
<1>2. TargetInv /\ WaitInv /\ NoStaleRelease /\ SuspendInv /\ SleepInv /\ WaiterInv
  BY DEF TargetInv, WaitInv, WaitShownTruly, ShownWaiting, NoStaleRelease, SuspendInv,
         SuspendShownElsewhere, SleepInv, WaiterInv
<1> QED
  BY <1>1, <1>2 DEF ThreadInv

(* Every step of the threads keeps the types. *)
LEMMA ThreadTypeStep == TypeOK /\ TargetInv /\ ThreadNext => TypeOK'
<1> SUFFICES ASSUME TypeOK, TargetInv, ThreadNext PROVE TypeOK'
  OBVIOUS
<1> USE ThreadsAssumption DEF TypeOK, Location, Status, WaitType, Goto, Mark, recVars
<1>r. ASSUME NEW t \in Thread, NEW s \in Status, Reset(t, s)
      PROVE  /\ status' \in [Thread -> Status] /\ waitType' \in [Thread -> WaitType]
             /\ wakeups' \in [Thread -> 0 .. MaxCount]
             /\ suspends' \in [Thread -> 0 .. MaxCount]
             /\ force' \in [Thread -> BOOLEAN] /\ term' \in [Thread -> BOOLEAN]
  BY <1>r DEF Reset
<1>1. ASSUME NEW t \in Thread, Alone(t) PROVE TypeOK'
  <2>1. CASE Switch(t)
    BY <2>1 DEF Switch
  <2>2. ASSUME PassUnlessSuspended(t) PROVE TypeOK'
    <3>1. CASE suspends[t] > 0
      BY <2>2, <3>1 DEF PassUnlessSuspended, Park
    <3>2. CASE ~(suspends[t] > 0)
      BY <2>2, <3>2 DEF PassUnlessSuspended
    <3> QED
      BY <3>1, <3>2
  <2>3. ASSUME Throw(t), UNCHANGED <<target, recVars>> PROVE TypeOK'
    BY <2>3 DEF Throw
  <2>10. CASE Top(t)
    BY <2>2, <2>3, <2>10 DEF Top
  <2>11. CASE Check(t) \/ Dying(t)
    BY <2>2, <2>3, <2>11 DEF Check, Dying
  <2>12. CASE StepEnds(t) \/ Return(t)
    BY <2>12 DEF StepEnds, Return, Park
  <2>4. CASE Joined(t)
    <3>1. target[t] \in Thread
      BY <2>4 DEF Joined, TargetInv
    <3> QED
      BY <2>4, <3>1, <1>r DEF Joined
  <2>5. CASE Begin(t) \/ Terminated(t)
    BY <2>5 DEF Begin, Terminated
  <2>13. CASE Cleanup(t)
    BY <2>13, <1>r DEF Cleanup
  <2>6. CASE ExitThread(t)
    BY <2>6 DEF ExitThread, Throw
  <2>7. CASE SleepThread(t)
    <3>1. CASE term[t]
      BY <2>3, <2>7, <3>1 DEF SleepThread
    <3>2. CASE ~term[t] /\ wakeups[t] > 0
      <4>1. wakeups[t] - 1 \in 0 .. MaxCount
        BY <3>2
      <4> QED
        BY <2>7, <3>2, <4>1 DEF SleepThread
    <3>3. CASE ~term[t] /\ ~(wakeups[t] > 0)
      BY <2>7, <3>3 DEF SleepThread, Park
    <3> QED
      BY <3>1, <3>2, <3>3
  <2>8. CASE Awake(t)
    <3>1. ~force[t] /\ ~term[t] => wakeups[t] - 1 \in 0 .. MaxCount
      BY <2>8 DEF Awake, SleepOver
    <3>2. CASE term[t]
      BY <2>8, <3>2 DEF Awake
    <3>3. CASE ~term[t]
      <4>1. wakeups' \in [Thread -> 0 .. MaxCount]
        BY <2>8, <3>1, <3>3 DEF Awake
      <4> QED
        BY <2>8, <3>3, <4>1 DEF Awake
    <3> QED
      BY <3>2, <3>3
  <2>9. CASE Resumed(t)
    BY <2>9 DEF Resumed
  <2> QED
    BY <1>1, <2>1, <2>2, <2>3, <2>4, <2>5, <2>6, <2>7, <2>8, <2>9, <2>10,
       <2>11, <2>12, <2>13 DEF Alone
<1>2. ASSUME NEW a \in Thread, NEW t \in Thread, Guest(a, t) PROVE TypeOK'
  <2>1. CASE StartThread(a, t)
    BY <2>1, <1>r DEF StartThread
  <2>2. CASE TerminateThread(a, t)
    BY <2>2 DEF TerminateThread, Throw, Park
  <2>3. CASE SuspendThread(a, t)
    BY <2>3 DEF SuspendThread, Park
  <2>4. CASE ResumeThread(a, t)
    BY <2>4 DEF ResumeThread
  <2> QED
    BY <1>2, <2>1, <2>2, <2>3, <2>4 DEF Guest
<1>3. ASSUME NEW c \in Thread \cup {Intr}, NEW t \in Thread, Either(c, t) PROVE TypeOK'
  <2>1. CASE WakeupThread(c, t)
    <3>1. wakeups[t] + 1 \in 0 .. MaxCount
      BY <2>1 DEF WakeupThread
    <3> QED
      BY <2>1, <3>1 DEF WakeupThread, ReadyOrSuspended
  <2>2. CASE CancelWakeupThread(c, t)
    BY <2>2 DEF CancelWakeupThread
  <2>3. CASE ReleaseWaitThread(c, t)
    BY <2>3 DEF ReleaseWaitThread, ReadyOrSuspended
  <2> QED
    BY <1>3, <2>1, <2>2, <2>3 DEF Either
<1> QED
  BY <1>1, <1>2, <1>3 DEF ThreadNext

(* Targets are set when the wait or the join begins, and kept. *)
LEMMA TargetStep == TypeOK /\ TargetInv /\ ThreadNext => TargetInv'
<1> SUFFICES ASSUME TypeOK, TargetInv, ThreadNext PROVE TargetInv'
  OBVIOUS
<1> USE ThreadsAssumption DEF TypeOK, TargetInv, Goto, recVars
<1>1. ASSUME NEW t \in Thread, Alone(t) PROVE TargetInv'
  <2>1. CASE Joined(t)
    BY <2>1 DEF Joined
  <2>2. CASE ~Joined(t)
    BY <1>1, <2>2
       DEF Alone, Switch, Top, Check, PassUnlessSuspended, StepEnds, Return, Dying, Begin,
           ExitThread, Terminated, Cleanup, SleepThread, Awake, Resumed, Throw, Park
  <2> QED
    BY <2>1, <2>2
<1>2. ASSUME NEW a \in Thread, NEW t \in Thread, Guest(a, t) PROVE TargetInv'
  BY <1>2 DEF Guest, StartThread, TerminateThread, SuspendThread, ResumeThread, Running,
              Throw, Park
<1>3. ASSUME NEW c \in Thread \cup {Intr}, NEW t \in Thread, Either(c, t) PROVE TargetInv'
  BY <1>3 DEF Either, WakeupThread, CancelWakeupThread, ReleaseWaitThread
<1> QED
  BY <1>1, <1>2, <1>3 DEF ThreadNext

(* A thread that leaves a wait leaves it in its record, too. *)
LEMMA WaitShownStep ==
    TypeOK /\ TargetInv /\ WaitInv /\ ThreadNext => WaitInv'
<1> SUFFICES ASSUME TypeOK, TargetInv, WaitInv, ThreadNext PROVE WaitInv'
  OBVIOUS
<1> USE ThreadsAssumption DEF TypeOK, WaitInv, WaitShownTruly, ShownWaiting, Goto, Mark, recVars
<1>1. ASSUME NEW t \in Thread, Alone(t) PROVE WaitInv'
  <2>1. CASE Switch(t) \/ StepEnds(t) \/ Return(t)
    BY <2>1 DEF Switch, StepEnds, Running, Return, Park
  <2>2. CASE Top(t) \/ Check(t)
    BY <2>2 DEF Top, Check, PassUnlessSuspended, Throw, Park
  <2>3. CASE Joined(t)
    BY <2>3 DEF Joined, Reset, TargetInv
  <2>4. CASE Begin(t) \/ Terminated(t)
    BY <2>4 DEF Begin, Terminated, TargetInv
  <2>5. CASE Cleanup(t)
    BY <2>5 DEF Cleanup, Reset
  <2>6. CASE ExitThread(t) \/ Dying(t)
    BY <2>6 DEF ExitThread, Dying, Running, Throw
  <2>7. CASE SleepThread(t)
    BY <2>7 DEF SleepThread, Running, Throw, Park
  <2>8. CASE Awake(t)
    BY <2>8 DEF Awake, SleepOver
  <2>9. CASE Resumed(t)
    BY <2>9 DEF Resumed
  <2> QED
    BY <1>1, <2>1, <2>2, <2>3, <2>4, <2>5, <2>6, <2>7, <2>8, <2>9 DEF Alone
<1>2. ASSUME NEW a \in Thread, NEW t \in Thread, Guest(a, t) PROVE WaitInv'
  <2>1. CASE StartThread(a, t)
    BY <2>1 DEF StartThread, Reset, Running
  <2>2. CASE TerminateThread(a, t)
    BY <2>2 DEF TerminateThread, Running, Throw, Park
  <2>3. CASE SuspendThread(a, t)
    BY <2>3 DEF SuspendThread, Running, Park
  <2>4. CASE ResumeThread(a, t)
    BY <2>4 DEF ResumeThread, Running
  <2> QED
    BY <1>2, <2>1, <2>2, <2>3, <2>4 DEF Guest
<1>3. ASSUME NEW c \in Thread \cup {Intr}, NEW t \in Thread, Either(c, t) PROVE WaitInv'
  <2>1. CASE WakeupThread(c, t)
    BY <2>1 DEF WakeupThread, ReadyOrSuspended
  <2>2. CASE CancelWakeupThread(c, t)
    BY <2>2 DEF CancelWakeupThread
  <2>3. CASE ReleaseWaitThread(c, t)
    BY <2>3 DEF ReleaseWaitThread, ReadyOrSuspended
  <2> QED
    BY <1>3, <2>1, <2>2, <2>3 DEF Either
<1> QED
  BY <1>1, <1>2, <1>3 DEF ThreadNext

(* A release is given to a thread that is parked, and used up when it goes on. *)
LEMMA ReleaseStep ==
    TypeOK /\ TargetInv /\ WaitShownTruly /\ NoStaleRelease /\ ThreadNext => NoStaleRelease'
<1> SUFFICES ASSUME TypeOK, TargetInv, WaitShownTruly, NoStaleRelease, ThreadNext PROVE NoStaleRelease'
  OBVIOUS
<1> USE ThreadsAssumption DEF TypeOK, WaitShownTruly, NoStaleRelease, ShownWaiting, Goto, Mark, recVars
<1>1. ASSUME NEW t \in Thread, Alone(t) PROVE NoStaleRelease'
  <2>1. CASE Switch(t) \/ StepEnds(t) \/ Return(t)
    BY <2>1 DEF Switch, StepEnds, Running, Return, Park
  <2>2. CASE Top(t) \/ Check(t)
    BY <2>2 DEF Top, Check, PassUnlessSuspended, Throw, Park
  <2>3. CASE Joined(t)
    BY <2>3 DEF Joined, Reset, TargetInv
  <2>4. CASE Begin(t) \/ Terminated(t)
    BY <2>4 DEF Begin, Terminated, TargetInv
  <2>5. CASE Cleanup(t)
    BY <2>5 DEF Cleanup, Reset
  <2>6. CASE ExitThread(t) \/ Dying(t)
    BY <2>6 DEF ExitThread, Dying, Running, Throw
  <2>7. CASE SleepThread(t)
    BY <2>7 DEF SleepThread, Running, Throw, Park
  <2>8. CASE Awake(t)
    BY <2>8 DEF Awake, SleepOver
  <2>9. CASE Resumed(t)
    BY <2>9 DEF Resumed
  <2> QED
    BY <1>1, <2>1, <2>2, <2>3, <2>4, <2>5, <2>6, <2>7, <2>8, <2>9 DEF Alone
<1>2. ASSUME NEW a \in Thread, NEW t \in Thread, Guest(a, t) PROVE NoStaleRelease'
  <2>1. CASE StartThread(a, t)
    BY <2>1 DEF StartThread, Reset, Running
  <2>2. CASE TerminateThread(a, t)
    BY <2>2 DEF TerminateThread, Running, Throw, Park
  <2>3. CASE SuspendThread(a, t)
    BY <2>3 DEF SuspendThread, Running, Park
  <2>4. CASE ResumeThread(a, t)
    BY <2>4 DEF ResumeThread, Running
  <2> QED
    BY <1>2, <2>1, <2>2, <2>3, <2>4 DEF Guest
<1>3. ASSUME NEW c \in Thread \cup {Intr}, NEW t \in Thread, Either(c, t) PROVE NoStaleRelease'
  <2>1. CASE WakeupThread(c, t)
    BY <2>1 DEF WakeupThread, ReadyOrSuspended
  <2>2. CASE CancelWakeupThread(c, t)
    BY <2>2 DEF CancelWakeupThread
  <2>3. CASE ReleaseWaitThread(c, t)
    BY <2>3 DEF ReleaseWaitThread, ReadyOrSuspended
  <2> QED
    BY <1>3, <2>1, <2>2, <2>3 DEF Either
<1> QED
  BY <1>1, <1>2, <1>3 DEF ThreadNext

(* The status of a suspended thread only changes where SuspendShownElsewhere  *)
(* allows for it.                                                             *)
LEMMA SuspendStep ==
    TypeOK /\ TargetInv /\ WaitShownTruly /\ SuspendInv /\ ThreadNext => SuspendInv'
<1> SUFFICES ASSUME TypeOK, TargetInv, WaitShownTruly, SuspendInv, ThreadNext PROVE SuspendInv'
  OBVIOUS
<1> USE ThreadsAssumption DEF TypeOK, WaitShownTruly, SuspendInv, SuspendShownElsewhere, ShownWaiting, Goto, Mark, recVars
<1>1. ASSUME NEW t \in Thread, Alone(t) PROVE SuspendInv'
  <2>1. CASE Switch(t) \/ StepEnds(t) \/ Return(t)
    BY <2>1 DEF Switch, StepEnds, Running, Return, Park
  <2>2. CASE Top(t) \/ Check(t)
    BY <2>2 DEF Top, Check, PassUnlessSuspended, Throw, Park
  <2>3. CASE Joined(t)
    BY <2>3 DEF Joined, Reset, TargetInv
  <2>4. CASE Begin(t) \/ Terminated(t)
    BY <2>4 DEF Begin, Terminated, TargetInv
  <2>5. CASE Cleanup(t)
    BY <2>5 DEF Cleanup, Reset
  <2>6. CASE ExitThread(t) \/ Dying(t)
    BY <2>6 DEF ExitThread, Dying, Running, Throw
  <2>7. CASE SleepThread(t)
    BY <2>7 DEF SleepThread, Running, Throw, Park
  <2>8. CASE Awake(t)
    BY <2>8 DEF Awake, SleepOver
  <2>9. CASE Resumed(t)
    BY <2>9 DEF Resumed
  <2> QED
    BY <1>1, <2>1, <2>2, <2>3, <2>4, <2>5, <2>6, <2>7, <2>8, <2>9 DEF Alone
<1>2. ASSUME NEW a \in Thread, NEW t \in Thread, Guest(a, t) PROVE SuspendInv'
  <2>1. CASE StartThread(a, t)
    BY <2>1 DEF StartThread, Reset, Running
  <2>2. CASE TerminateThread(a, t)
    BY <2>2 DEF TerminateThread, Running, Throw, Park
  <2>3. CASE SuspendThread(a, t)
    BY <2>3 DEF SuspendThread, Running, Park
  <2>4. CASE ResumeThread(a, t)
    BY <2>4 DEF ResumeThread, Running
  <2> QED
    BY <1>2, <2>1, <2>2, <2>3, <2>4 DEF Guest
<1>3. ASSUME NEW c \in Thread \cup {Intr}, NEW t \in Thread, Either(c, t) PROVE SuspendInv'
  <2>1. CASE WakeupThread(c, t)
    BY <2>1 DEF WakeupThread, ReadyOrSuspended
  <2>2. CASE CancelWakeupThread(c, t)
    BY <2>2 DEF CancelWakeupThread
  <2>3. CASE ReleaseWaitThread(c, t)
    BY <2>3 DEF ReleaseWaitThread, ReadyOrSuspended
  <2> QED
    BY <1>3, <2>1, <2>2, <2>3 DEF Either
<1> QED
  BY <1>1, <1>2, <1>3 DEF ThreadNext

(* What takes the wait type off a sleeper lets its predicate hold, until the *)
(* sleeper itself uses it up.                                                *)
LEMMA SleepStep ==
    TypeOK /\ TargetInv /\ WaitShownTruly /\ SleepInv /\ ThreadNext => SleepInv'
<1> SUFFICES ASSUME TypeOK, TargetInv, WaitShownTruly, SleepInv, ThreadNext PROVE SleepInv'
  OBVIOUS
<1> USE ThreadsAssumption DEF TypeOK, WaitShownTruly, SleepInv, SleepOver, ShownWaiting, Goto, Mark, recVars
<1>1. ASSUME NEW t \in Thread, Alone(t) PROVE SleepInv'
  <2>1. CASE Switch(t) \/ StepEnds(t) \/ Return(t)
    BY <2>1 DEF Switch, StepEnds, Running, Return, Park
  <2>2. CASE Top(t) \/ Check(t)
    BY <2>2 DEF Top, Check, PassUnlessSuspended, Throw, Park
  <2>3. CASE Joined(t)
    BY <2>3 DEF Joined, Reset, TargetInv
  <2>4. CASE Begin(t) \/ Terminated(t)
    BY <2>4 DEF Begin, Terminated, TargetInv
  <2>5. CASE Cleanup(t)
    BY <2>5 DEF Cleanup, Reset
  <2>6. CASE ExitThread(t) \/ Dying(t)
    BY <2>6 DEF ExitThread, Dying, Running, Throw
  <2>7. CASE SleepThread(t)
    BY <2>7 DEF SleepThread, Running, Throw, Park
  <2>8. CASE Awake(t)
    BY <2>8 DEF Awake, SleepOver
  <2>9. CASE Resumed(t)
    BY <2>9 DEF Resumed
  <2> QED
    BY <1>1, <2>1, <2>2, <2>3, <2>4, <2>5, <2>6, <2>7, <2>8, <2>9 DEF Alone
<1>2. ASSUME NEW a \in Thread, NEW t \in Thread, Guest(a, t) PROVE SleepInv'
  <2>1. CASE StartThread(a, t)
    BY <2>1 DEF StartThread, Reset, Running
  <2>2. CASE TerminateThread(a, t)
    BY <2>2 DEF TerminateThread, Running, Throw, Park
  <2>3. CASE SuspendThread(a, t)
    BY <2>3 DEF SuspendThread, Running, Park
  <2>4. CASE ResumeThread(a, t)
    BY <2>4 DEF ResumeThread, Running
  <2> QED
    BY <1>2, <2>1, <2>2, <2>3, <2>4 DEF Guest
<1>3. ASSUME NEW c \in Thread \cup {Intr}, NEW t \in Thread, Either(c, t) PROVE SleepInv'
  <2>1. CASE WakeupThread(c, t)
    BY <2>1 DEF WakeupThread, ReadyOrSuspended
  <2>2. CASE CancelWakeupThread(c, t)
    BY <2>2 DEF CancelWakeupThread
  <2>3. CASE ReleaseWaitThread(c, t)
    BY <2>3 DEF ReleaseWaitThread, ReadyOrSuspended
  <2> QED
    BY <1>3, <2>1, <2>2, <2>3 DEF Either
<1> QED
  BY <1>1, <1>2, <1>3 DEF ThreadNext
(* A parked waiter only loses its wait type when it is released. *)
LEMMA WaiterStep ==
    TypeOK /\ TargetInv /\ WaitInv /\ WaiterInv /\ ThreadNext => WaiterInv'
<1> SUFFICES ASSUME TypeOK, TargetInv, WaitInv, WaiterInv, ThreadNext PROVE WaiterInv'
  OBVIOUS
<1> USE ThreadsAssumption
    DEF TypeOK, WaiterInv, WaitInv, WaitShownTruly, ShownWaiting, Goto, Mark, recVars
<1>1. ASSUME NEW t \in Thread, Alone(t) PROVE WaiterInv'
  <2>1. CASE Switch(t) \/ StepEnds(t) \/ Return(t)
    BY <2>1 DEF Switch, StepEnds, Running, Return, Park
  <2>2. CASE Top(t) \/ Check(t)
    BY <2>2 DEF Top, Check, PassUnlessSuspended, Throw, Park
  <2>3. CASE Joined(t)
    BY <2>3 DEF Joined, Reset, TargetInv
  <2>4. CASE Begin(t) \/ Terminated(t)
    BY <2>4 DEF Begin, Terminated, TargetInv
  <2>5. CASE Cleanup(t)
    BY <2>5 DEF Cleanup, Reset
  <2>6. CASE ExitThread(t) \/ Dying(t)
    BY <2>6 DEF ExitThread, Dying, Running, Throw
  <2>7. CASE SleepThread(t)
    BY <2>7 DEF SleepThread, Running, Throw, Park
  <2>8. CASE Awake(t) \/ Resumed(t)
    BY <2>8 DEF Awake, SleepOver, Resumed
  <2> QED
    BY <1>1, <2>1, <2>2, <2>3, <2>4, <2>5, <2>6, <2>7, <2>8 DEF Alone
<1>2. ASSUME NEW a \in Thread, NEW t \in Thread, Guest(a, t) PROVE WaiterInv'
  <2>1. CASE StartThread(a, t)
    BY <2>1 DEF StartThread, Reset, Running
  <2>2. CASE TerminateThread(a, t)
    BY <2>2 DEF TerminateThread, Running, Throw, Park
  <2>3. CASE SuspendThread(a, t) \/ ResumeThread(a, t)
    BY <2>3 DEF SuspendThread, ResumeThread, Running, Park
  <2> QED
    BY <1>2, <2>1, <2>2, <2>3 DEF Guest
<1>3. ASSUME NEW c \in Thread \cup {Intr}, NEW t \in Thread, Either(c, t) PROVE WaiterInv'
  BY <1>3 DEF Either, WakeupThread, CancelWakeupThread, ReleaseWaitThread, ReadyOrSuspended
<1> QED
  BY <1>1, <1>2, <1>3 DEF ThreadNext
-----------------------------------------------------------------------------
(* The step lemmas together. *)
LEMMA ThreadInvStep == ThreadInv /\ [ThreadNext]_threadVars => ThreadInv'
<1> SUFFICES ASSUME ThreadInv, [ThreadNext]_threadVars PROVE ThreadInv'
  OBVIOUS
<1>1. CASE ThreadNext
  BY <1>1, ThreadTypeStep, TargetStep, WaitShownStep, ReleaseStep, SuspendStep, SleepStep, WaiterStep
     DEF ThreadInv, WaitInv
<1>2. CASE UNCHANGED threadVars
  BY <1>2
     DEF threadVars, ThreadInv, TypeOK, TargetInv, WaitInv, WaitShownTruly, ShownWaiting,
         NoStaleRelease, SuspendInv, SuspendShownElsewhere, SleepInv, SleepOver, WaiterInv
<1> QED
  BY <1>1, <1>2

(* Every reachable state satisfies the inductive invariant. *)
THEOREM ThreadInvariant == ThreadSpec => []ThreadInv
BY ThreadInvInit, ThreadInvStep, PTL DEF ThreadSpec

(* Every reachable record has the types TypeOK gives: the counts stay in *)
(* their range, a sleeper only takes a wakeup that is there.             *)
THEOREM ThreadTypes == ThreadSpec => []TypeOK
BY ThreadInvariant, PTL DEF ThreadInv

(* The record tells the truth about a wait. *)
THEOREM WaitIsShownTruly == ThreadSpec => []WaitShownTruly
BY ThreadInvariant, PTL DEF ThreadInv, WaitInv

(* No release is left over for a later wait. *)
THEOREM ReleaseIsNotStale == ThreadSpec => []NoStaleRelease
BY ThreadInvariant, PTL DEF ThreadInv

(* A suspended thread is shown suspended, but where the code is known not to. *)
THEOREM SuspendIsShownElsewhere == ThreadSpec => []SuspendShownElsewhere
BY ThreadInvariant, PTL DEF ThreadInv, SuspendInv

(* A sleeper that is not shown waiting will wake. *)
LEMMA SleepInvWakes == ThreadInv => ReadySleeperWakes
BY DEF ThreadInv, SleepInv, ReadySleeperWakes, WaitInv, WaitShownTruly, ShownWaiting, TypeOK, WaitType

(* Without CancelWakeupThread no sleeper is shown READY for ever. *)
THEOREM ReadySleeperWillWake == ThreadSpec => []ReadySleeperWakes
BY ThreadInvariant, SleepInvWakes, PTL
-----------------------------------------------------------------------------
(* What the calls on wait objects do to the records, for the modules that  *)
(* extend this one.                                                        *)

(* Who is in a call, and who is parked in it. *)
InCalls == \A t \in Thread : (pc'[t] = "wait" <=> pc[t] = "wait")
                            /\ (pc'[t] = "call" <=> pc[t] = "call")

(* No step of the threads alone begins or ends a call, or a wait in it. *)
LEMMA ThreadKeepsCalls ==
    ASSUME TypeOK, TargetInv, ThreadNext
    PROVE  InCalls
<1> USE ThreadsAssumption DEF TypeOK, TargetInv, Goto, recVars, InCalls
<1>1. ASSUME NEW t \in Thread, Alone(t) PROVE InCalls
  <2>1. CASE Joined(t)
    BY <2>1 DEF Joined
  <2>2. CASE ~Joined(t)
    BY <1>1, <2>2
       DEF Alone, Switch, Top, Check, PassUnlessSuspended, StepEnds, Return, Dying, Begin,
           ExitThread, Terminated, Cleanup, SleepThread, Awake, Resumed, Throw, Park, Running
  <2> QED
    BY <2>1, <2>2
<1>2. ASSUME NEW a \in Thread, NEW t \in Thread, Guest(a, t) PROVE InCalls
  BY <1>2 DEF Guest, StartThread, TerminateThread, SuspendThread, ResumeThread, Running,
              Throw, Park
<1>3. ASSUME NEW c \in Thread \cup {Intr}, NEW t \in Thread, Either(c, t) PROVE InCalls
  BY <1>3 DEF Either, WakeupThread, CancelWakeupThread, ReleaseWaitThread
<1> QED
  BY <1>1, <1>2, <1>3 DEF ThreadNext

(* A call begins or ends without a wait: it only moves its thread. *)
LEMMA CallsKeepThreadInv ==
    ASSUME ThreadInv, NEW c \in Thread \cup {Intr}, NEW l \in {"guest", "check"},
           BeginCall(c) \/ LeaveCall(c, l)
    PROVE  ThreadInv'
<1> USE ThreadsAssumption DEF ThreadInv, TypeOK, Goto, recVars
<1>1. CASE c = Intr
  <2>1. UNCHANGED threadVars
    BY <1>1 DEF BeginCall, LeaveCall, threadVars
  <2> HIDE DEF ThreadInv
  <2> QED
    BY <2>1, ThreadInvStep
<1>2. CASE c # Intr
  <2> DEFINE m == IF pc[c] = "guest" THEN "call" ELSE l
  <2>1. /\ c \in Thread /\ pc[c] \in {"guest", "call"}
        /\ pc[c] = "guest" => m = "call"
        /\ m \in {"guest", "call", "check"}
        /\ pc' = [pc EXCEPT ![c] = m]
        /\ UNCHANGED <<target, holder, recVars>>
    BY <1>2 DEF BeginCall, LeaveCall, Running
  <2> HIDE DEF m
  <2>2. TypeOK'
    BY <2>1 DEF Location
  <2>3. TargetInv' /\ WaitInv' /\ NoStaleRelease' /\ WaiterInv'
    BY <2>1 DEF TargetInv, WaitInv, WaitShownTruly, ShownWaiting, NoStaleRelease, WaiterInv
  <2>4. SuspendInv' /\ SleepInv'
    BY <2>1 DEF SuspendInv, SuspendShownElsewhere, SleepInv, SleepOver
  <2> QED
    BY <2>2, <2>3, <2>4
<1> QED
  BY <1>1, <1>2

(* A thread parks on an object, finishes its wait, or is thrown out of its *)
(* call.                                                                   *)
LEMMA WaitsKeepThreadInv ==
    ASSUME ThreadInv, NEW t \in Thread, NEW w \in {"SEMA", "EVENT"},
           ParkOn(t, w) \/ FinishWait(t) \/ CallThrows(t)
    PROVE  ThreadInv'
<1> USE ThreadsAssumption DEF ThreadInv, TypeOK, Mark, Goto, recVars
<1>1. CASE ParkOn(t, w)
  <2> USE <1>1 DEF ParkOn, Park
  <2>1. TypeOK'
    BY DEF Location, Status, WaitType
  <2>2. TargetInv' /\ WaitInv' /\ NoStaleRelease' /\ WaiterInv'
    BY DEF TargetInv, WaitInv, WaitShownTruly, ShownWaiting, NoStaleRelease, WaiterInv
  <2>3. SuspendInv' /\ SleepInv'
    BY DEF SuspendInv, SuspendShownElsewhere, SleepInv, SleepOver
  <2> QED
    BY <2>1, <2>2, <2>3
<1>2. CASE FinishWait(t)
  <2> USE <1>2 DEF FinishWait
  <2>1. TypeOK'
    BY DEF Location, Status, WaitType
  <2>2. TargetInv' /\ WaitInv' /\ NoStaleRelease' /\ WaiterInv'
    BY DEF TargetInv, WaitInv, WaitShownTruly, ShownWaiting, NoStaleRelease, WaiterInv
  <2>3. SuspendInv' /\ SleepInv'
    BY DEF SuspendInv, SuspendShownElsewhere, SleepInv, SleepOver
  <2> QED
    BY <2>1, <2>2, <2>3
<1>3. CASE CallThrows(t)
  <2> USE <1>3 DEF CallThrows, Throw
  <2>1. TypeOK'
    BY DEF Location
  <2>2. TargetInv' /\ WaitInv' /\ NoStaleRelease' /\ WaiterInv'
    BY DEF TargetInv, WaitInv, WaitShownTruly, ShownWaiting, NoStaleRelease, WaiterInv
  <2>3. SuspendInv' /\ SleepInv'
    BY DEF SuspendInv, SuspendShownElsewhere, SleepInv, SleepOver
  <2> QED
    BY <2>1, <2>2, <2>3
<1> QED
  BY <1>1, <1>2, <1>3
=============================================================================
