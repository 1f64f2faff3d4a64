----------------------------- MODULE EEThreads -----------------------------
(***************************************************************************)
(* The thread records of the EE kernel emulation (Thread.cpp): status,     *)
(* wait type, wakeup and suspend counts, the release and terminate flags,  *)
(* and the calls that read and change them.  Guest code runs on the holder *)
(* of the token (GuestScheduler, here only a variable); a parked thread    *)
(* re-tests its predicate and finishes its wait WITHOUT the token, under   *)
(* the record's own mutex.  Interrupt handlers run with neither the token  *)
(* nor the guest-execution lock ("must be able to preempt a guest thread", *)
(* Interrupt.cpp 198-199) and make their calls at any point.  Every action *)
(* is one critical section of ThreadInfo::m.                               *)
(*                                                                         *)
(* pc[t] is where the host thread of guest thread t stands:                *)
(*   none   no host thread            start  before its status becomes RUN *)
(*   top    top of its step loop      guest  in guest code                 *)
(*   sleep  parked in SleepThread     susp   parked until resumed          *)
(*   wait   parked on a wait object   check  a wait is over; suspended?    *)
(*   term   waits for target[t]       join   joins target[t]'s host thread *)
(*   dying  must throw when it has the token back                          *)
(*   exit   has left its step loop                                         *)
(*   call   in a call that has looked a wait object up (a semaphore or an  *)
(*          event flag: see EESema and EEEventFlag, which extend this)      *)
(* started is not kept: it is set and cleared with status DORMANT.  The    *)
(* model ends where requestStop throws the records away.                   *)
(***************************************************************************)
EXTENDS Integers

CONSTANTS
    Thread,     \* guest thread ids
    MainTid,    \* tid 1
    Intr,       \* an interrupt handler, on a host thread of its own
    None,       \* no thread
    MaxCount,   \* bound on the wakeup and suspend counts
    MayCancel   \* BOOLEAN: guest code uses CancelWakeupThread

ASSUME ThreadsAssumption ==
    /\ MainTid \in Thread
    /\ Intr \notin Thread
    /\ None \notin Thread \cup {Intr}
    /\ MaxCount \in Nat \ {0}
    /\ MayCancel \in BOOLEAN

VARIABLES
    pc,         \* see above
    target,     \* the thread that t terminates or joins
    holder,     \* the token: who may run guest code
    status,     \* ThreadInfo::status (THS_*)
    waitType,   \* ThreadInfo::waitType (TSW_*)
    wakeups,    \* ThreadInfo::wakeupCount
    suspends,   \* ThreadInfo::suspendCount
    force,      \* ThreadInfo::forceRelease
    term        \* ThreadInfo::terminated

recVars == <<status, waitType, wakeups, suspends, force, term>>
threadVars == <<pc, target, holder, status, waitType, wakeups, suspends, force, term>>

Location == {"none", "start", "top", "guest", "call", "sleep", "susp", "wait", "check",
             "term", "join", "dying", "exit"}
Status == {"RUN", "READY", "WAIT", "SUSPEND", "WAITSUSPEND", "DORMANT"}
WaitType == {"NONE", "SLEEP", "SEMA", "EVENT"}

TypeOK ==
    /\ pc \in [Thread -> Location]
    /\ target \in [Thread -> Thread \cup {None}]
    /\ holder \in Thread \cup {None}
    /\ status \in [Thread -> Status]
    /\ waitType \in [Thread -> WaitType]
    /\ wakeups \in [Thread -> 0 .. MaxCount]
    /\ suspends \in [Thread -> 0 .. MaxCount]
    /\ force \in [Thread -> BOOLEAN]
    /\ term \in [Thread -> BOOLEAN]

(* The main thread runs (ensureCurrentThreadInfo), the others are created. *)
Init ==
    /\ pc = [t \in Thread |-> IF t = MainTid THEN "top" ELSE "none"]
    /\ target = [t \in Thread |-> None]
    /\ holder = None
    /\ status = [t \in Thread |-> IF t = MainTid THEN "RUN" ELSE "DORMANT"]
    /\ waitType = [t \in Thread |-> "NONE"]
    /\ wakeups = [t \in Thread |-> 0]
    /\ suspends = [t \in Thread |-> 0]
    /\ force = [t \in Thread |-> FALSE]
    /\ term = [t \in Thread |-> FALSE]
-----------------------------------------------------------------------------
(* Where threads run.                                                      *)

Goto(t, l) == pc' = [pc EXCEPT ![t] = l]

Mark(t, s, w) ==
    /\ status' = [status EXCEPT ![t] = s]
    /\ waitType' = [waitType EXCEPT ![t] = w]

Running(t) == holder = t /\ pc[t] = "guest"

(* c makes a call about another thread t: a running guest thread, or an    *)
(* interrupt handler through the i-variant.                                *)
Calls(c, t) == c = Intr \/ (c # t /\ Running(c))

(* The running thread t blocks: the token is free. *)
Park(t, l) == Goto(t, l) /\ holder' = None

(* ThreadExitException ends t.  dispatchLoop does not unregister the main  *)
(* thread then: the token stays with it.                                   *)
Throw(t) == Goto(t, "exit") /\ holder' = IF t = MainTid THEN t ELSE None

(* Guest code is preempted only between syscalls. *)
Wants(t) == pc[t] \in {"top", "guest", "check", "dying"}

Switch(t) ==
    /\ Wants(t) /\ t # holder
    /\ holder # None => pc[holder] \in {"top", "guest"}
    /\ holder' = t
    /\ UNCHANGED <<pc, target, recVars>>

(* waitWhileSuspended, up to its wait. *)
PassUnlessSuspended(t) ==
    /\ IF suspends[t] > 0
       THEN Park(t, "susp") /\ Mark(t, "SUSPEND", "NONE")
       ELSE Goto(t, "guest") /\ UNCHANGED <<holder, status, waitType>>
    /\ UNCHANGED <<target, wakeups, suspends, force, term>>

(* Top of the step loop.  The main thread's looks at no record. *)
Top(t) ==
    /\ holder = t /\ pc[t] = "top"
    /\ IF t = MainTid THEN Goto(t, "guest") /\ UNCHANGED <<target, holder, recVars>>
       ELSE IF term[t] THEN Throw(t) /\ UNCHANGED <<target, recVars>>
       ELSE PassUnlessSuspended(t)

(* After a wait, still in the syscall. *)
Check(t) ==
    /\ holder = t /\ pc[t] = "check"
    /\ PassUnlessSuspended(t)

(* A step of the recompiled program ends. *)
StepEnds(t) ==
    /\ Running(t)
    /\ Goto(t, "top")
    /\ UNCHANGED <<target, holder, recVars>>

(* The thread's function returned (pc 0). *)
Return(t) ==
    /\ holder = t /\ pc[t] = "top"
    /\ Park(t, "exit")
    /\ UNCHANGED <<target, recVars>>

(* A wait that saw terminated has the token back: it throws. *)
Dying(t) ==
    /\ holder = t /\ pc[t] = "dying"
    /\ Throw(t)
    /\ UNCHANGED <<target, recVars>>
-----------------------------------------------------------------------------
(* Starting and ending.                                                    *)

Reset(t, s) ==
    /\ Mark(t, s, "NONE")
    /\ wakeups' = [wakeups EXCEPT ![t] = 0]
    /\ suspends' = [suspends EXCEPT ![t] = 0]
    /\ force' = [force EXCEPT ![t] = FALSE]
    /\ term' = [term EXCEPT ![t] = FALSE]

(* StartThread.  It joins the old host thread of t before it looks whether *)
(* t is dormant, with the token and the guest lock held.                   *)
StartThread(a, t) ==
    /\ Running(a) /\ t \notin {a, MainTid}
    /\ IF pc[t] = "none"
       THEN /\ Reset(t, "READY") /\ Goto(t, "start")
            /\ UNCHANGED <<target, holder>>
       ELSE /\ Goto(a, "join") /\ target' = [target EXCEPT ![a] = t]
            /\ UNCHANGED <<holder, recVars>>

(* The join returns, and the thread starts. *)
Joined(a) ==
    /\ pc[a] = "join" /\ pc[target[a]] = "none"
    /\ Reset(target[a], "READY")
    /\ pc' = [pc EXCEPT ![target[a]] = "start", ![a] = "guest"]
    /\ target' = [target EXCEPT ![a] = None]
    /\ UNCHANGED holder

(* The new host thread marks itself running, whatever happened since. *)
Begin(t) ==
    /\ pc[t] = "start"
    /\ Goto(t, "top")
    /\ status' = [status EXCEPT ![t] = "RUN"]
    /\ UNCHANGED <<target, holder, waitType, wakeups, suspends, force, term>>

(* ExitThread. *)
ExitThread(t) ==
    /\ Running(t)
    /\ term' = [term EXCEPT ![t] = TRUE]
    /\ force' = [force EXCEPT ![t] = TRUE]
    /\ waitType' = [waitType EXCEPT ![t] = "NONE"]
    /\ wakeups' = [wakeups EXCEPT ![t] = 0]
    /\ Throw(t)
    /\ UNCHANGED <<target, status, suspends>>

(* TerminateThread. *)
TerminateThread(a, t) ==
    /\ Running(a) /\ status[t] # "DORMANT"
    /\ term' = [term EXCEPT ![t] = TRUE]
    /\ force' = [force EXCEPT ![t] = TRUE]
    /\ \/ t = a /\ Throw(t) /\ UNCHANGED target
       \/ t # a /\ Park(a, "term") /\ target' = [target EXCEPT ![a] = t]
    /\ UNCHANGED <<status, waitType, wakeups, suspends>>

(* Its wait sees the target dormant. *)
Terminated(a) ==
    /\ pc[a] = "term" /\ status[target[a]] = "DORMANT"
    /\ Goto(a, "guest")
    /\ target' = [target EXCEPT ![a] = None]
    /\ UNCHANGED <<holder, recVars>>

(* The host thread of a worker resets the record and ends. *)
Cleanup(t) ==
    /\ pc[t] = "exit" /\ t # MainTid
    /\ Reset(t, "DORMANT")
    /\ Goto(t, "none")
    /\ UNCHANGED <<target, holder>>
-----------------------------------------------------------------------------
(* Sleeping and waking.                                                    *)

(* SleepThread: take a pending wakeup or park.  The status is WAIT even    *)
(* when the thread is suspended.                                           *)
SleepThread(t) ==
    /\ Running(t)
    /\ IF term[t]
       THEN Throw(t) /\ UNCHANGED <<target, recVars>>
       ELSE IF wakeups[t] > 0
       THEN /\ wakeups' = [wakeups EXCEPT ![t] = @ - 1]
            /\ Mark(t, "RUN", "NONE")
            /\ Goto(t, "check")
            /\ UNCHANGED <<target, holder, suspends, force, term>>
       ELSE /\ Mark(t, "WAIT", "SLEEP")
            /\ force' = [force EXCEPT ![t] = FALSE]
            /\ Park(t, "sleep")
            /\ UNCHANGED <<target, wakeups, suspends, term>>

SleepOver(t) == wakeups[t] > 0 \/ force[t] \/ term[t]

(* Bug: the predicate does not test terminated. *)
AwakeUnlessTerminated(t) ==
    /\ pc[t] = "sleep" /\ (wakeups[t] > 0 \/ (force[t] /\ ~term[t]))
    /\ Mark(t, "RUN", "NONE")
    /\ force' = [force EXCEPT ![t] = FALSE]
    /\ wakeups' = [wakeups EXCEPT ![t] = IF force[t] THEN @ ELSE @ - 1]
    /\ Goto(t, "check")
    /\ UNCHANGED <<target, holder, suspends, term>>

(* The parked sleeper finishes, without the token.  The status is RUN even *)
(* when the thread is suspended.                                           *)
Awake(t) ==
    /\ pc[t] = "sleep" /\ SleepOver(t)
    /\ IF term[t]
       THEN Goto(t, "dying") /\ UNCHANGED recVars
       ELSE /\ Mark(t, "RUN", "NONE")
            /\ force' = [force EXCEPT ![t] = FALSE]
            /\ wakeups' = [wakeups EXCEPT ![t] = IF force[t] THEN @ ELSE @ - 1]
            /\ Goto(t, "check")
            /\ UNCHANGED <<suspends, term>>
    /\ UNCHANGED <<target, holder>>

ReadyOrSuspended(t) == IF suspends[t] > 0 THEN "SUSPEND" ELSE "READY"

(* Bug: a suspended sleeper is made ready. *)
WakeupSuspended(c, t) ==
    /\ Calls(c, t)
    /\ status[t] # "DORMANT" /\ wakeups[t] < MaxCount
    /\ wakeups' = [wakeups EXCEPT ![t] = @ + 1]
    /\ IF status[t] = "WAIT" /\ waitType[t] = "SLEEP"
       THEN Mark(t, "READY", "NONE") ELSE UNCHANGED <<status, waitType>>
    /\ UNCHANGED <<pc, target, holder, suspends, force, term>>

(* Bug: the sleeper is marked ready, but the wakeup is not counted. *)
WakeupUncounted(c, t) ==
    /\ Calls(c, t)
    /\ status[t] # "DORMANT" /\ wakeups[t] < MaxCount
    /\ IF status[t] = "WAIT" /\ waitType[t] = "SLEEP"
       THEN Mark(t, ReadyOrSuspended(t), "NONE") /\ UNCHANGED wakeups
       ELSE wakeups' = [wakeups EXCEPT ![t] = @ + 1] /\ UNCHANGED <<status, waitType>>
    /\ UNCHANGED <<pc, target, holder, suspends, force, term>>

(* WakeupThread, iWakeupThread (and bt3WakeThreadByEntry, for a sleeper). *)
WakeupThread(c, t) ==
    /\ Calls(c, t)
    /\ status[t] # "DORMANT" /\ wakeups[t] < MaxCount
    /\ wakeups' = [wakeups EXCEPT ![t] = @ + 1]
    /\ IF status[t] = "WAIT" /\ waitType[t] = "SLEEP"
       THEN Mark(t, ReadyOrSuspended(t), "NONE")
       ELSE UNCHANGED <<status, waitType>>
    /\ UNCHANGED <<pc, target, holder, suspends, force, term>>

(* CancelWakeupThread (also of the caller itself), iCancelWakeupThread. *)
CancelWakeupThread(c, t) ==
    /\ MayCancel
    /\ c = Intr \/ Running(c)
    /\ wakeups' = [wakeups EXCEPT ![t] = 0]
    /\ UNCHANGED <<pc, target, holder, status, waitType, suspends, force, term>>

(* Bug: no look at the status. *)
ReleaseAnyThread(c, t) ==
    /\ Calls(c, t)
    /\ status[t] # "DORMANT"
    /\ force' = [force EXCEPT ![t] = TRUE]
    /\ Mark(t, ReadyOrSuspended(t), "NONE")
    /\ UNCHANGED <<pc, target, holder, wakeups, suspends, term>>

(* ReleaseWaitThread, iReleaseWaitThread. *)
ReleaseWaitThread(c, t) ==
    /\ Calls(c, t)
    /\ status[t] \in {"WAIT", "WAITSUSPEND"}
    /\ force' = [force EXCEPT ![t] = TRUE]
    /\ Mark(t, ReadyOrSuspended(t), "NONE")
    /\ UNCHANGED <<pc, target, holder, wakeups, suspends, term>>
-----------------------------------------------------------------------------
(* Suspending and resuming.                                                *)

(* SuspendThread; the caller itself parks. *)
SuspendThread(a, t) ==
    /\ Running(a)
    /\ status[t] # "DORMANT" /\ suspends[t] < MaxCount
    /\ suspends' = [suspends EXCEPT ![t] = @ + 1]
    /\ status' = [status EXCEPT ![t] =
                    IF waitType[t] # "NONE" THEN "WAITSUSPEND" ELSE "SUSPEND"]
    /\ IF t = a THEN Park(t, "susp") ELSE UNCHANGED <<pc, holder>>
    /\ UNCHANGED <<target, waitType, wakeups, force, term>>

(* Bug: resumed threads are always ready. *)
ResumeReady(a, t) ==
    /\ Running(a)
    /\ status[t] # "DORMANT" /\ suspends[t] > 0
    /\ suspends' = [suspends EXCEPT ![t] = @ - 1]
    /\ status' = IF suspends[t] = 1 THEN [status EXCEPT ![t] = "READY"] ELSE status
    /\ UNCHANGED <<pc, target, holder, waitType, wakeups, force, term>>

(* ResumeThread; a thread may resume itself. *)
ResumeThread(a, t) ==
    /\ Running(a)
    /\ status[t] # "DORMANT" /\ suspends[t] > 0
    /\ suspends' = [suspends EXCEPT ![t] = @ - 1]
    /\ status' = [status EXCEPT ![t] =
                    IF suspends[t] > 1 THEN @
                    ELSE IF waitType[t] # "NONE" THEN "WAIT"
                    ELSE IF t = a THEN "RUN" ELSE "READY"]
    /\ UNCHANGED <<pc, target, holder, waitType, wakeups, force, term>>

(* The parked suspended thread goes on, without the token; it does not     *)
(* test the count again when it has the token.                             *)
Resumed(t) ==
    /\ pc[t] = "susp" /\ (suspends[t] = 0 \/ term[t])
    /\ IF term[t]
       THEN Goto(t, "dying") /\ UNCHANGED status
       ELSE Goto(t, "guest") /\ status' = [status EXCEPT ![t] = "RUN"]
    /\ UNCHANGED <<target, holder, waitType, wakeups, suspends, force, term>>
-----------------------------------------------------------------------------
(* What every wait on an object does to its thread's record.               *)

(* The call of t parks on its object, of wait type w. *)
ParkOn(t, w) ==
    /\ pc[t] = "call"
    /\ Mark(t, IF suspends[t] > 0 THEN "WAITSUSPEND" ELSE "WAIT", w)
    /\ force' = [force EXCEPT ![t] = FALSE]
    /\ Park(t, "wait")
    /\ UNCHANGED <<target, wakeups, suspends, term>>

(* The parked thread finishes its wait, without the token. *)
FinishWait(t) ==
    /\ pc[t] = "wait"
    /\ Mark(t, IF suspends[t] > 0 THEN "SUSPEND" ELSE "RUN", "NONE")
    /\ force' = [force EXCEPT ![t] = FALSE]
    /\ Goto(t, IF term[t] THEN "dying" ELSE "check")
    /\ UNCHANGED <<target, holder, wakeups, suspends, term>>

(* The call of a terminated thread throws before it touches the object. *)
CallThrows(t) ==
    /\ pc[t] = "call" /\ term[t]
    /\ Throw(t)
    /\ UNCHANGED <<target, recVars>>

(* c has looked an object up; it did no more yet. *)
BeginCall(c) ==
    /\ IF c = Intr THEN UNCHANGED pc ELSE Running(c) /\ Goto(c, "call")
    /\ UNCHANGED <<target, holder, recVars>>

(* The call of c ends without a wait; a thread goes on at l. *)
LeaveCall(c, l) ==
    /\ IF c = Intr THEN UNCHANGED pc ELSE pc[c] = "call" /\ Goto(c, l)
    /\ UNCHANGED <<target, holder, recVars>>
-----------------------------------------------------------------------------
(* What the threads do by themselves, and the calls between them. *)
Alone(t) ==
    \/ Switch(t) \/ Top(t) \/ Check(t) \/ StepEnds(t) \/ Return(t) \/ Dying(t)
    \/ Joined(t) \/ Begin(t) \/ ExitThread(t) \/ Terminated(t) \/ Cleanup(t)
    \/ SleepThread(t) \/ Awake(t) \/ Resumed(t)

Guest(a, t) ==
    \/ StartThread(a, t) \/ TerminateThread(a, t)
    \/ SuspendThread(a, t) \/ ResumeThread(a, t)

Either(c, t) ==
    \/ WakeupThread(c, t) \/ CancelWakeupThread(c, t) \/ ReleaseWaitThread(c, t)

ThreadNext ==
    \E t \in Thread :
        \/ Alone(t)
        \/ \E a \in Thread : Guest(a, t)
        \/ \E c \in Thread \cup {Intr} : Either(c, t)

ThreadSpec == Init /\ [][ThreadNext]_threadVars

(***************************************************************************)
(* Fairness.  A host thread that can run does, and a parked one looks at   *)
(* its predicate every 250 ms (WF).  The token comes round (SF; that is    *)
(* GuestScheduler's EveryWaiterRuns), a thread that gets it at the top of  *)
(* its loop does not always yield at once, its step count being reset (SF),*)
(* and a step of guest code ends: it is the program, not the runtime, that *)
(* is trusted with that.                                                   *)
(***************************************************************************)
HostStep(t) ==
    \/ Check(t) \/ Dying(t) \/ Joined(t) \/ Begin(t)
    \/ Terminated(t) \/ Cleanup(t) \/ Awake(t) \/ Resumed(t)

ThreadFairness ==
    \A t \in Thread :
        /\ WF_threadVars(HostStep(t))
        /\ SF_threadVars(Switch(t))
        /\ SF_threadVars(Top(t))
        /\ SF_threadVars(StepEnds(t))
-----------------------------------------------------------------------------
(* Properties.                                                             *)

(* The record tells the truth about a wait: a thread is DORMANT exactly    *)
(* when it has no host thread, and one that is shown waiting - which is    *)
(* what ReleaseWaitThread, WakeupThread and the wait type act on - is      *)
(* parked in that wait, or was terminated in it and has yet to throw.      *)
ShownWaiting(t) == status[t] \in {"WAIT", "WAITSUSPEND"}

WaitShownTruly ==
    \A t \in Thread :
        /\ status[t] = "DORMANT" <=> pc[t] = "none"
        /\ ShownWaiting(t) => pc[t] \in {"sleep", "wait"} \/ term[t]
        /\ waitType[t] # "NONE" => ShownWaiting(t)

(* A release is never left over for a later wait: forceRelease is only set *)
(* while the thread is parked in the wait it was meant for, unless the     *)
(* thread is being terminated.                                             *)
NoStaleRelease ==
    \A t \in Thread : force[t] /\ ~term[t] => pc[t] \in {"sleep", "wait"}

(* A sleeper shown READY is on its way: what made it READY (a wakeup or a  *)
(* release) is still there to be seen by its predicate.  Only a            *)
(* CancelWakeupThread between the wakeup and the sleeper's next look takes *)
(* it back, and leaves a thread that is READY for ever.                    *)
ReadySleeperWakes ==
    ~MayCancel =>
        \A t \in Thread : pc[t] = "sleep" /\ ~ShownWaiting(t) => SleepOver(t)

(* A thread with suspends outstanding is shown SUSPEND or WAITSUSPEND,     *)
(* which is what the game's sound service tests before it resumes one      *)
(* (Thread.cpp 803-807), but for the places where the code does not keep   *)
(* it: a thread whose host thread has only begun (Thread.cpp 452), one     *)
(* that goes to sleep while suspended, between a wait's end and the check  *)
(* for suspension after it, and one that is ending.  READY is never shown. *)
SuspendShownElsewhere ==
    \A t \in Thread : suspends[t] > 0 =>
        /\ status[t] # "READY"
        /\ pc[t] \notin {"top", "sleep", "check", "dying", "exit"} =>
              status[t] \in {"SUSPEND", "WAITSUSPEND"}

(* A terminated worker becomes dormant, wherever it was parked. *)
TerminatedEnds ==
    \A t \in Thread \ {MainTid} : term[t] ~> pc[t] = "none"
=============================================================================
