--------------------------- MODULE GuestScheduler ---------------------------
(***************************************************************************)
(* The deterministic guest scheduler of the EE runtime in its shipping     *)
(* configuration: every guest thread is a host thread (PS2X_SCHED=1, no    *)
(* fibers).  A guest thread runs recompiled code when it has both          *)
(*   - the scheduler token (m_schedCurrent), passed round-robin, and       *)
(*   - the recursive guest-execution mutex, which a host service thread    *)
(*     takes as well when it calls back through a GuestExecutionScope.     *)
(* The bodies of INTC, DMAC and alarm handlers take neither: they are not  *)
(* in this model.                                                          *)
(* Every action is one critical section of m_schedMutex or one operation   *)
(* of the guest-execution mutex; what happens between two of them is where *)
(* the other threads interleave.                                           *)
(*                                                                         *)
(* pc[t] is where host thread t stands:                                    *)
(*   idle     no host thread                spawned  before schedAcquire   *)
(*   acquire  in schedAcquire's wait        loop     top of its step loop  *)
(*   enter    before lock() of a step       guest    running guest code    *)
(*   released a blocking call let the lock go, schedBeginBlock is next     *)
(*   wait     blocked in a kernel wait      relock   token back, lock not  *)
(*   handoff  schedYield chose a successor, the lock is still held         *)
(*   park     ... the lock is released      parked   in schedYield's wait  *)
(*   ended    its step loop is over         gone     the main thread ended *)
(***************************************************************************)
EXTENDS Integers

CONSTANTS
    Thread,            \* guest thread ids
    MainTid,           \* tid 1, which runs dispatchLoop
    Host,              \* the host service threads that take the lock, as one contender
    NoTid,             \* -1: nobody
    Quantum,           \* kSchedQuantum / kFairnessYieldInterval: steps between two yields
    MaxDepth,          \* bound on the nesting of GuestExecutionScope
    HandlersMayBlock,  \* BOOLEAN: exit handlers may signal or wait (release the lock)
    MainMayExit        \* BOOLEAN: guest code on the main thread may call ExitThread

ASSUME SchedAssumption ==
    /\ MainTid \in Thread
    /\ NoTid \notin Thread
    /\ Host \notin Thread \cup {NoTid}
    /\ Quantum \in Nat \ {0}
    /\ MaxDepth \in Nat \ {0}
    /\ HandlersMayBlock \in BOOLEAN
    /\ MainMayExit \in BOOLEAN

VARIABLES
    pc,         \* see above
    current,    \* m_schedCurrent
    order,      \* SchedThread::order, counted from 1; 0: no slot in m_schedThreads
    nextOrder,  \* m_schedOrderCounter + 1
    present,    \* the tids whose SchedThread::present is set
    blocked,    \* the tids whose SchedThread::blocked is set
    asleep,     \* the threads in schedYield's cv.wait that nobody has notified
    owner,      \* holder of m_guestExecutionMutex
    depth,      \* how often it holds it (g_guestExecutionDepths)
    saved,      \* the depth a parked thread takes back (0: none)
    steps,      \* steps since the last quantum yield
    exiting,    \* the tids past schedUnregister that run their exit handlers
    stop        \* m_stopRequested

tokenVars == <<current, order, nextOrder, present, blocked, asleep>>
lockVars == <<owner, depth>>
vars == <<pc, current, order, nextOrder, present, blocked, asleep,
          owner, depth, saved, steps, exiting, stop>>

Location == {"idle", "spawned", "acquire", "loop", "enter", "guest", "released",
             "wait", "relock", "handoff", "park", "parked", "ended", "gone"}

TypeOK ==
    /\ pc \in [Thread -> Location]
    /\ current \in Thread \cup {NoTid}
    /\ order \in [Thread -> Nat]
    /\ nextOrder \in Nat \ {0}
    /\ present \in SUBSET Thread
    /\ blocked \in SUBSET Thread
    /\ asleep \in SUBSET Thread
    /\ owner \in Thread \cup {Host, NoTid}
    /\ depth \in Nat
    /\ saved \in [Thread -> Nat]
    /\ steps \in [Thread -> Nat]
    /\ exiting \in SUBSET Thread
    /\ stop \in BOOLEAN

Init ==
    /\ pc = [t \in Thread |-> IF t = MainTid THEN "spawned" ELSE "idle"]
    /\ current = NoTid
    /\ order = [t \in Thread |-> 0]
    /\ nextOrder = 1
    /\ present = {} /\ blocked = {} /\ asleep = {}
    /\ owner = NoTid
    /\ depth = 0
    /\ saved = [t \in Thread |-> 0]
    /\ steps = [t \in Thread |-> 0]
    /\ exiting = {}
    /\ stop = FALSE

-----------------------------------------------------------------------------
(* The token.                                                              *)

(* The member of S registered first. *)
First(S) == CHOOSE t \in S : \A u \in S : order[t] <= order[u]

OrderOf(t) == IF t = NoTid THEN 0 ELSE order[t]

(* Bug: no wrap-around preference, the oldest thread always wins. *)
PickOldest(after, S) == IF S = {} THEN NoTid ELSE First(S)

(* schedPickNextLocked over the runnable threads S: the first registered   *)
(* after the given thread, else the first of all.                          *)
PickNext(after, S) ==
    LET later == {t \in S : order[t] > OrderOf(after)}
    IN IF S = {} THEN NoTid ELSE IF later # {} THEN First(later) ELSE First(S)

Runnable == present \ blocked

(* Bug: the notify_all is forgotten. *)
HandoverSilently(n) ==
    /\ current' = n
    /\ UNCHANGED asleep

(* The token goes to n, whose condition variable is notified. *)
Handover(n) ==
    /\ current' = n
    /\ asleep' = asleep \ {n}

(* The holder t leaves the runnable set S' and passes the token on. *)
PassOn(t, S) ==
    IF current = t THEN Handover(PickNext(t, S)) ELSE UNCHANGED <<current, asleep>>

(* Bug: the free token is left for the watchdog to find. *)
JoinTokenLazily(t) ==
    /\ order' = IF order[t] = 0 THEN [order EXCEPT ![t] = nextOrder] ELSE order
    /\ nextOrder' = IF order[t] = 0 THEN nextOrder + 1 ELSE nextOrder
    /\ present' = present \cup {t}
    /\ blocked' = blocked \ {t}
    /\ UNCHANGED <<current, asleep>>

(* Entry of schedAcquire: (re)join the runnable threads; take a free token. *)
JoinToken(t) ==
    /\ order' = IF order[t] = 0 THEN [order EXCEPT ![t] = nextOrder] ELSE order
    /\ nextOrder' = IF order[t] = 0 THEN nextOrder + 1 ELSE nextOrder
    /\ present' = present \cup {t}
    /\ blocked' = blocked \ {t}
    /\ current' = IF current = NoTid THEN t ELSE current
    /\ UNCHANGED asleep

Goto(t, l) == pc' = [pc EXCEPT ![t] = l]

(* With the token back: retake the lock if any of it was released. *)
Resume(t) == Goto(t, IF saved[t] = 0 THEN "loop" ELSE "relock")

(* StartThread, called by guest code that runs now, creates the host thread *)
Start(t) ==
    /\ pc[t] = "idle"
    /\ ~stop
    /\ \E s \in Thread : pc[s] = "guest"
    /\ Goto(t, "spawned")
    /\ steps' = [steps EXCEPT ![t] = 0]
    /\ UNCHANGED <<tokenVars, lockVars, saved, exiting, stop>>

(* schedAcquire up to its wait: of a new thread, and of one whose kernel   *)
(* wait ended (GuestExecutionReleaseScope's destructor).                   *)
AcquireEnter(t) ==
    /\ pc[t] \in {"spawned", "wait"}
    /\ JoinToken(t)
    /\ Goto(t, "acquire")
    /\ UNCHANGED <<lockVars, saved, steps, exiting, stop>>

(* Bug: the wait ends on any notification. *)
AcquireDoneUnchecked(t) ==
    /\ pc[t] = "acquire"
    /\ Resume(t)
    /\ UNCHANGED <<tokenVars, lockVars, saved, steps, exiting, stop>>

AcquireDone(t) ==
    /\ pc[t] = "acquire"
    /\ current = t \/ stop
    /\ Resume(t)
    /\ UNCHANGED <<tokenVars, lockVars, saved, steps, exiting, stop>>

HolderDead == current = NoTid \/ current \notin present

(* The 250 ms slice of schedAcquire's wait runs out: the watchdog.         *)
AcquireTimeout(t) ==
    /\ pc[t] = "acquire"
    /\ ~(current = t \/ stop)
    /\ IF HolderDead
       THEN Handover(LET n == PickNext(current, Runnable) IN IF n = NoTid THEN t ELSE n)
       ELSE UNCHANGED <<current, asleep>>
    /\ UNCHANGED <<order, nextOrder, present, blocked, pc, lockVars, saved, steps, exiting, stop>>
-----------------------------------------------------------------------------
(* The step loops: dispatchLoop (main), StartThread's workerBody (workers) *)
(* and rpcInvokeFunction (the exit handlers of an exiting worker).         *)

(* One more step, unless a yield or the end is due. *)
Step(t) ==
    /\ pc[t] = "loop"
    /\ \/ t \in exiting /\ UNCHANGED steps
       \/ /\ t \notin exiting /\ ~stop /\ steps[t] < Quantum
          /\ steps' = [steps EXCEPT ![t] = @ + 1]
    /\ Goto(t, "enter")
    /\ UNCHANGED <<tokenVars, lockVars, saved, exiting, stop>>

(* enterGuestExecution: the GuestExecutionScope of one step. *)
Enter(t) ==
    /\ pc[t] = "enter"
    /\ owner = NoTid
    /\ owner' = t /\ depth' = 1
    /\ Goto(t, "guest")
    /\ UNCHANGED <<tokenVars, saved, steps, exiting, stop>>

(* A nested scope: guest code that calls back into the runtime. *)
Nest(t) ==
    /\ pc[t] = "guest"
    /\ depth < MaxDepth
    /\ depth' = depth + 1
    /\ UNCHANGED <<pc, tokenVars, owner, saved, steps, exiting, stop>>

Unnest(t) ==
    /\ pc[t] = "guest"
    /\ depth > 1
    /\ depth' = depth - 1
    /\ UNCHANGED <<pc, tokenVars, owner, saved, steps, exiting, stop>>

Unlock == owner' = NoTid /\ depth' = 0

(* leaveGuestExecution of the outermost scope. *)
Leave(t) ==
    /\ pc[t] = "guest"
    /\ depth = 1
    /\ Unlock
    /\ Goto(t, "loop")
    /\ UNCHANGED <<tokenVars, saved, steps, exiting, stop>>

(* The loop ends: pc 0, a stop request, or terminated seen at its top. *)
End(t) ==
    /\ pc[t] = "loop"
    /\ t \notin exiting
    /\ Goto(t, "ended")
    /\ UNCHANGED <<tokenVars, lockVars, saved, steps, exiting, stop>>

(* ThreadExitException unwinds guest code: out of the loop of a worker, out *)
(* of one handler of an exiting one, out of dispatchLoop on the main thread *)
(* (which has no handler there, so its schedUnregister is skipped).        *)
Throw(t) ==
    /\ pc[t] = "guest"
    /\ t = MainTid => MainMayExit
    /\ Unlock
    /\ Goto(t, IF t \in exiting THEN "loop" ELSE IF t = MainTid THEN "gone" ELSE "ended")
    /\ UNCHANGED <<tokenVars, saved, steps, exiting, stop>>

(* Bug: the handlers' thread stays in the round-robin. *)
UnregisterLate(t) ==
    /\ pc[t] = "ended"
    /\ exiting' = IF t = MainTid THEN exiting ELSE exiting \cup {t}
    /\ Goto(t, IF t = MainTid THEN "gone" ELSE "loop")
    /\ UNCHANGED <<tokenVars, lockVars, saved, steps, stop>>

(* schedUnregister, after which a worker runs its exit handlers. *)
Unregister(t) ==
    /\ pc[t] = "ended"
    /\ present' = present \ {t}
    /\ blocked' = blocked \ {t}
    /\ PassOn(t, Runnable \ {t})
    /\ exiting' = IF t = MainTid THEN exiting ELSE exiting \cup {t}
    /\ Goto(t, IF t = MainTid THEN "gone" ELSE "loop")
    /\ UNCHANGED <<order, nextOrder, lockVars, saved, steps, stop>>

(* The exit handlers are done and the host thread ends. *)
Finish(t) ==
    /\ pc[t] = "loop"
    /\ t \in exiting
    /\ exiting' = exiting \ {t}
    /\ Goto(t, "idle")
    /\ UNCHANGED <<tokenVars, lockVars, saved, steps, stop>>
-----------------------------------------------------------------------------
(* schedYield: choose a successor, release the lock, wait for the token.   *)

YieldTo(t, n) ==
    /\ current = t
    /\ n \notin {NoTid, t}
    /\ Handover(n)

(* From guest code (dispatchGuestBranch's fairness yields). *)
YieldInGuest(t) ==
    /\ pc[t] = "guest"
    /\ YieldTo(t, PickNext(t, Runnable))
    /\ Goto(t, "handoff")
    /\ UNCHANGED <<order, nextOrder, present, blocked, lockVars, saved, steps, exiting, stop>>

(* At the end of a quantum, between two steps; alone, the thread goes on.  *)
YieldAtQuantum(t) ==
    /\ pc[t] = "loop" /\ t \notin exiting /\ ~stop
    /\ steps[t] = Quantum
    /\ steps' = [steps EXCEPT ![t] = 0]
    /\ LET n == PickNext(t, Runnable)
       IN \/ YieldTo(t, n) /\ Goto(t, "park")
          \/ (current # t \/ n \in {NoTid, t}) /\ UNCHANGED <<current, asleep, pc>>
    /\ UNCHANGED <<order, nextOrder, present, blocked, lockVars, saved, exiting, stop>>

(* Bug: the lock is not released across the wait for the token. *)
YieldReleaseNot(t) ==
    /\ pc[t] = "handoff"
    /\ saved' = [saved EXCEPT ![t] = depth]
    /\ Goto(t, "park")
    /\ UNCHANGED <<tokenVars, lockVars, steps, exiting, stop>>

(* releaseGuestExecution. *)
YieldRelease(t) ==
    /\ pc[t] = "handoff"
    /\ saved' = [saved EXCEPT ![t] = depth]
    /\ Unlock
    /\ Goto(t, "park")
    /\ UNCHANGED <<tokenVars, steps, exiting, stop>>

(* Bug: the predicate is not tested first. *)
YieldParkBlindly(t) ==
    /\ pc[t] = "park"
    /\ Goto(t, "parked") /\ asleep' = asleep \cup {t}
    /\ UNCHANGED <<current, order, nextOrder, present, blocked, lockVars, saved, steps, exiting, stop>>

(* cv.wait: the predicate is tested before the thread sleeps. *)
YieldPark(t) ==
    /\ pc[t] = "park"
    /\ IF current = t \/ stop
       THEN Resume(t) /\ UNCHANGED asleep
       ELSE Goto(t, "parked") /\ asleep' = asleep \cup {t}
    /\ UNCHANGED <<current, order, nextOrder, present, blocked, lockVars, saved, steps, exiting, stop>>

(* It wakes, notified or spuriously, and the predicate holds. *)
YieldWake(t) ==
    /\ pc[t] = "parked"
    /\ current = t \/ stop
    /\ asleep' = asleep \ {t}
    /\ Resume(t)
    /\ UNCHANGED <<current, order, nextOrder, present, blocked, lockVars, saved, steps, exiting, stop>>

(* reacquireGuestExecution: as deep as it was released. *)
Relock(t) ==
    /\ pc[t] = "relock"
    /\ owner = NoTid
    /\ owner' = t /\ depth' = saved[t]
    /\ saved' = [saved EXCEPT ![t] = 0]
    /\ Goto(t, "guest")
    /\ UNCHANGED <<tokenVars, steps, exiting, stop>>
-----------------------------------------------------------------------------
(* GuestExecutionReleaseScope: a kernel call that waits.                   *)

(* From guest code; an exit handler may be barred from it. *)
Release(t) ==
    /\ pc[t] = "guest"
    /\ t \in exiting => HandlersMayBlock
    /\ saved' = [saved EXCEPT ![t] = depth]
    /\ Unlock
    /\ Goto(t, "released")
    /\ UNCHANGED <<tokenVars, steps, exiting, stop>>

(* A wait between two steps, with no lock to release: waitWhileSuspended   *)
(* of a worker, and dispatchLoop's pumps, which sleep when the main thread *)
(* polls.                                                                  *)
Suspended(t) ==
    /\ pc[t] = "loop"
    /\ t \notin exiting /\ ~stop
    /\ Goto(t, "released")
    /\ UNCHANGED <<tokenVars, lockVars, saved, steps, exiting, stop>>

(* Bug: the token is only given up by a thread that held the lock (the     *)
(* deadlock the comment at ps2_runtime.cpp 1115-1121 describes).           *)
BeginBlockIfLocked(t) ==
    /\ pc[t] = "released"
    /\ blocked' = blocked \cup {t}
    /\ IF saved[t] # 0 THEN PassOn(t, Runnable \ {t}) ELSE UNCHANGED <<current, asleep>>
    /\ Goto(t, "wait")
    /\ UNCHANGED <<order, nextOrder, present, lockVars, saved, steps, exiting, stop>>

(* schedBeginBlock. *)
BeginBlock(t) ==
    /\ pc[t] = "released"
    /\ blocked' = blocked \cup {t}
    /\ PassOn(t, Runnable \ {t})
    /\ Goto(t, "wait")
    /\ UNCHANGED <<order, nextOrder, present, lockVars, saved, steps, exiting, stop>>
-----------------------------------------------------------------------------
(* The host side.                                                          *)

(* A service thread runs a callback under the lock, without the token. *)
HostEnter ==
    /\ owner = NoTid
    /\ owner' = Host /\ depth' = 1
    /\ UNCHANGED <<pc, tokenVars, saved, steps, exiting, stop>>

HostLeave ==
    /\ owner = Host
    /\ Unlock
    /\ UNCHANGED <<pc, tokenVars, saved, steps, exiting, stop>>

(* requestStop sets the flag; it notifies none of the scheduler's cvs. *)
RequestStop ==
    /\ ~stop
    /\ stop' = TRUE
    /\ UNCHANGED <<pc, tokenVars, lockVars, saved, steps, exiting>>

LoopStep(t) ==
    \/ Step(t) \/ End(t) \/ Finish(t) \/ YieldAtQuantum(t) \/ Suspended(t)

GuestStep(t) ==
    \/ Nest(t) \/ Unnest(t) \/ Leave(t) \/ Throw(t) \/ Release(t) \/ YieldInGuest(t)

TokenStep(t) ==
    \/ AcquireEnter(t) \/ AcquireDone(t) \/ AcquireTimeout(t)
    \/ YieldRelease(t) \/ YieldPark(t) \/ YieldWake(t)
    \/ BeginBlock(t) \/ Unregister(t)

ThreadNext(t) ==
    \/ Start(t) \/ LoopStep(t) \/ GuestStep(t) \/ TokenStep(t) \/ Enter(t) \/ Relock(t)

Next ==
    \/ \E t \in Thread : ThreadNext(t)
    \/ HostEnter \/ HostLeave \/ RequestStop

Spec == Init /\ [][Next]_vars

(***************************************************************************)
(* Fairness.  A host thread that can run does (WF).  Nothing is assumed of *)
(* a kernel wait, except that its 250 ms slices see a stop request.  A     *)
(* thread in cv.wait is only sure to wake when notified.  std::mutex does  *)
(* not starve a waiter for ever (SF).  Guest code counts its branches: it  *)
(* yields, blocks or returns after finitely many of them, and returns to   *)
(* its step loop once dispatchGuestBranch sees a stop request (SF).  An    *)
(* exit handler runs at most kRpcInvokeMaxSteps steps (SF).                *)
(***************************************************************************)
Progress(t) ==
    \/ pc[t] = "spawned" /\ AcquireEnter(t)
    \/ stop /\ AcquireEnter(t)
    \/ AcquireDone(t) \/ LoopStep(t)
    \/ YieldRelease(t) \/ YieldPark(t) \/ (t \notin asleep /\ YieldWake(t))
    \/ BeginBlock(t) \/ Unregister(t)

Fairness ==
    /\ WF_vars(HostLeave)
    /\ \A t \in Thread :
        /\ WF_vars(Progress(t))
        /\ SF_vars(\/ Enter(t) \/ Relock(t)
                   \/ Leave(t) \/ Throw(t) \/ Release(t) \/ YieldInGuest(t))
        /\ SF_vars(Unnest(t))
        /\ SF_vars(Finish(t) \/ (stop /\ t \notin exiting /\ (Leave(t) \/ Throw(t))))

FairSpec == Spec /\ Fairness
-----------------------------------------------------------------------------
(* Properties.                                                             *)

(* The code of guest threads, that of their exit handlers included, never  *)
(* runs on two host threads at once, nor beside a service thread's         *)
(* callback: whoever runs it owns the guest-execution mutex.  A thread     *)
(* that waits, for the token or in the kernel, does not own it (the        *)
(* CRITICAL comment of schedYield), and a free mutex has recursion depth 0. *)
GuestCodeLocked ==
    /\ \A t \in Thread : pc[t] \in {"guest", "handoff"} <=> owner = t
    /\ owner = NoTid <=> depth = 0

HasToken == {"loop", "enter", "guest", "released", "relock", "ended"}

(* "Only the current tid runs guest code" (ps2_runtime.h 687), in the form *)
(* the code keeps: until a stop is requested, a registered guest thread    *)
(* outside a wait is the token holder.  Exit handlers, which run after     *)
(* schedUnregister, are the exception.                                     *)
OnlyCurrentRuns ==
    ~stop => \A t \in Thread \ exiting : pc[t] \in HasToken => current = t

(* The token holder is always a runnable thread, and the token is only     *)
(* free when no thread is runnable: the watchdog of schedAcquire never     *)
(* finds anything to repair.                                               *)
HolderRunnable ==
    /\ current # NoTid => current \in Runnable
    /\ current = NoTid => Runnable = {}

(* The token is never left on a thread that has ended (comment of          *)
(* GuestExecutionReleaseScope, ps2_runtime.cpp 1133-1136).                 *)
NoCorpseHolder ==
    current # NoTid => pc[current] \notin {"idle", "gone"}

(* NoCorpseHolder in the configurations where no thread can end through    *)
(* a path that skips or follows schedUnregister.                           *)
TidyExit == ~HandlersMayBlock /\ ~MainMayExit => NoCorpseHolder

(* No handover is lost: the thread that got the token while it was going   *)
(* to sleep in schedYield's untimed wait has been notified or will not     *)
(* sleep.                                                                  *)
NoLostHandover == current \notin asleep

(* Round-robin: when the token moves from c to n, no thread that was       *)
(* runnable before and after the move is skipped between c and n in        *)
(* cyclic registration order.                                              *)
Between(c, t, n) ==
    IF order[c] < order[n] THEN order[c] < order[t] /\ order[t] < order[n]
    ELSE order[c] < order[t] \/ order[t] < order[n]

RoundRobin ==
    [][\A c, n \in Thread : current = c /\ current' = n /\ c # n
          => \A t \in Runnable \cap Runnable' : ~Between(c, t, n)]_vars

(* The scheduler implements the abstract token.                            *)
Token == INSTANCE GuestToken WITH
    holder <- current,
    ready <- Runnable \ {current},
    stopping <- stop

ImplementsToken == Token!Spec

(* A thread that waits for the token gets it, unless the runtime stops.    *)
EveryWaiterRuns ==
    \A t \in Thread :
        pc[t] \in {"acquire", "parked"} ~> (current = t \/ stop)

(* After a stop request every guest thread ends, although requestStop      *)
(* notifies none of the threads parked in schedYield's untimed wait.       *)
StopEndsAll ==
    stop ~> (\A t \in Thread : pc[t] \in {"idle", "gone"})
=============================================================================
