------------------------ MODULE EEInterrupts_proofs ------------------------
(***************************************************************************)
(* Proofs about interrupts, for every set of threads, causes and handlers. *)
(* The inductive invariant is InterruptInv: the types; which thread stands *)
(* where, and a worker inside a tick has ticks left; who is in requestStop *)
(* has asked for the stop; and the two safety properties.                  *)
(***************************************************************************)
EXTENDS EEInterrupts, TLAPS

GuestPlaces == {"idle", "look", "vsync", "zero"}
TickPlaces == {"tick", "write", "raise", "serve", "run"}

(* A worker is never where guest code stands. *)
PlaceInv ==
    /\ \A w \in Worker : pc[w] \notin GuestPlaces
    /\ \A w \in Worker : pc[w] \in TickPlaces => left[w] > 0

(* Whoever is in requestStop has set m_stopRequested. *)
StopInv == \A x \in Thread : halt[x] # "no" => stopRequested

InterruptInv == TypeOK /\ PlaceInv /\ StopInv /\ OneWorker /\ QuietAfterStop
-----------------------------------------------------------------------------
(* The initial state satisfies the invariant. *)
LEMMA InterruptInit == Init => InterruptInv
<1> SUFFICES ASSUME Init PROVE InterruptInv
  OBVIOUS
<1> USE InterruptAssumption DEF Init, Thread, Handler, Cause
<1>1. Causes[1] \in Cause
  BY DEF Intc
<1>2. TypeOK
  <2>1. cause \in [Handler -> Cause]
    BY <1>1
  <2>2. pc \in [Thread -> {"idle", "look", "vsync", "zero", "none", "loop",
                           "wait", "tick", "write", "raise", "exit", "serve",
                           "run"}]
    OBVIOUS
  <2>3. Len(Causes) \in Nat
    OBVIOUS
  <2>4. /\ left \in [Worker -> 0 .. MaxCatchup]
        /\ at \in [Worker -> 0 .. Len(Causes)]
        /\ nextId \in 1 .. MaxHandler + 1
    BY <2>3
  <2> QED
    BY <2>1, <2>2, <2>4 DEF TypeOK
<1>3. PlaceInv /\ StopInv
  BY DEF PlaceInv, StopInv, GuestPlaces, TickPlaces
<1>4. OneWorker /\ QuietAfterStop
  BY DEF OneWorker, QuietAfterStop, Live
<1> QED
  BY <1>2, <1>3, <1>4 DEF InterruptInv
-----------------------------------------------------------------------------
(* Every step keeps the types. *)
LEMMA InterruptTypeStep == InterruptInv /\ [Next]_vars => TypeOK'
<1> SUFFICES ASSUME InterruptInv, [Next]_vars PROVE TypeOK'
  OBVIOUS
<1>a. TypeOK /\ PlaceInv
  BY DEF InterruptInv
<1>b. Len(Causes) \in Nat
  BY InterruptAssumption
<1> USE InterruptAssumption, <1>a, <1>b
    DEF TypeOK, Goto, workerVars, tableVars, vsyncVars, dispatchVars
<1>1. ASSUME NEW x \in Thread, HandlerCall(x) PROVE TypeOK'
  <2>1. ASSUME NEW c \in Cause, AddHandler(x, c) PROVE TypeOK'
    BY <2>1 DEF AddHandler, Handler
  <2>2. ASSUME NEW h \in Handler, RemoveHandler(x, h) PROVE TypeOK'
    BY <2>2 DEF RemoveHandler
  <2>3. ASSUME NEW h \in Handler, SwitchHandler(x, h) PROVE TypeOK'
    BY <2>3 DEF SwitchHandler
  <2>4. ASSUME NEW c \in Masked, SwitchCause(x, c) PROVE TypeOK'
    BY <2>4 DEF SwitchCause
  <2> QED
    BY <1>1, <2>1, <2>2, <2>3, <2>4 DEF HandlerCall
<1>2. ASSUME NEW x \in Thread, GuestCall(x) PROVE TypeOK'
  <2>1. ASSUME NEW c \in Dmac, DmacDone(x, c) PROVE TypeOK'
    <3>1. Eligible(c) \subseteq Handler
      BY DEF Eligible
    <3> QED
      BY <2>1, <3>1 DEF DmacDone, Dispatch
  <2>2. CASE WaitVSync(x)
    BY <2>2 DEF WaitVSync
  <2>3. ASSUME NEW a \in Addr, SetVSyncFlag(x, a) PROVE TypeOK'
    BY <2>3 DEF SetVSyncFlag
  <2>4. ASSUME NEW a \in Addr, ClearFlag(x, a) PROVE TypeOK'
    BY <2>4 DEF ClearFlag
  <2> QED
    BY <1>2, <2>1, <2>2, <2>3, <2>4 DEF GuestCall
<1>3. ASSUME NEW x \in Thread, CallStep(x) PROVE TypeOK'
  <2>1. CASE EnsureWorker(x)
    BY <2>1 DEF EnsureWorker, Thread
  <2>2. CASE Look(x)
    BY <2>2 DEF Look
  <2>3. CASE VSyncCame(x)
    BY <2>3 DEF VSyncCame
  <2>4. CASE Zero(x)
    BY <2>4 DEF Zero
  <2>5. CASE Call(x)
    BY <2>5 DEF Call
  <2>6. ASSUME NEW h \in Handler, HandlerReturns(x, h) PROVE TypeOK'
    BY <2>6 DEF HandlerReturns
  <2>7. CASE DmacServed(x)
    BY <2>7 DEF DmacServed
  <2>8. CASE StopWorker(x)
    BY <2>8 DEF StopWorker
  <2>9. CASE WorkerGone(x)
    BY <2>9 DEF WorkerGone
  <2>10. CASE GiveUp(x)
    BY <2>10 DEF GiveUp
  <2>11. CASE Clear(x)
    BY <2>11 DEF Clear
  <2> QED
    BY <1>3, <2>1, <2>2, <2>3, <2>4, <2>5, <2>6, <2>7, <2>8, <2>9, <2>10,
       <2>11 DEF CallStep
<1>4. ASSUME NEW x \in Stopper, RequestStop(x) PROVE TypeOK'
  BY <1>4 DEF RequestStop
<1>5. ASSUME NEW w \in Worker, WorkerStep(w) PROVE TypeOK'
  <2>w. w \in Thread
    BY DEF Thread
  <2>1. CASE Loop(w)
    BY <2>w, <2>1 DEF Loop
  <2>2. CASE Stopped(w)
    BY <2>w, <2>2 DEF Stopped
  <2>3. ASSUME NEW n \in 1 .. MaxCatchup, TimeUp(w, n) PROVE TypeOK'
    BY <2>w, <2>3 DEF TimeUp
  <2>4. CASE Tick(w)
    BY <2>w, <2>4 DEF Tick
  <2>5. CASE WriteFlag(w)
    BY <2>w, <2>5 DEF WriteFlag
  <2>6. CASE Raise(w)
    <3>1. Eligible(Causes[at[w]]) \subseteq Handler
      BY DEF Eligible
    <3> QED
      BY <2>w, <2>6, <3>1 DEF Raise, Dispatch
  <2>7. CASE Served(w)
    <3>1. left[w] > 0
      BY <2>7 DEF Served, PlaceInv, TickPlaces
    <3>2. at' \in [Worker -> 0 .. Len(Causes)]
      <4>1. at[w] \in 0 .. Len(Causes)
        OBVIOUS
      <4>2. CASE at[w] < Len(Causes) /\ at' = [at EXCEPT ![w] = @ + 1]
        BY <4>1, <4>2
      <4>3. CASE at' = [at EXCEPT ![w] = 0]
        BY <4>3
      <4> QED
        BY <2>7, <4>2, <4>3 DEF Served
    <3>3. left' \in [Worker -> 0 .. MaxCatchup]
      <4>1. left[w] - 1 \in 0 .. MaxCatchup
        BY <3>1
      <4>2. CASE left' = left
        BY <4>2
      <4>3. CASE left' = [left EXCEPT ![w] = @ - 1]
        BY <4>1, <4>3
      <4> QED
        BY <2>7, <4>2, <4>3 DEF Served
    <3>4. pc' = [pc EXCEPT ![w] = pc'[w]] /\ pc'[w] \in {"raise", "tick", "loop"}
      BY <2>w, <2>7 DEF Served
    <3>5. due' = [due EXCEPT ![w] = {}]
      BY <2>7 DEF Served
    <3> QED
      BY <2>w, <2>7, <3>2, <3>3, <3>4, <3>5 DEF Served
  <2>8. CASE Exit(w)
    BY <2>w, <2>8 DEF Exit
  <2> QED
    BY <1>5, <2>1, <2>2, <2>3, <2>4, <2>5, <2>6, <2>7, <2>8 DEF WorkerStep
<1>6. CASE UNCHANGED vars
  BY <1>6 DEF vars
<1> QED
  BY <1>1, <1>2, <1>3, <1>4, <1>5, <1>6 DEF Next
-----------------------------------------------------------------------------
(* What a step can do to the workers: nothing, start one when none runs,   *)
(* end one, or move one on.                                                *)
Rests == \E x \in Thread : halt[x] \in {"clean", "done"}

Still ==
    /\ \A w \in Worker : pc'[w] = pc[w] /\ left'[w] = left[w]
    /\ running' = running
    /\ Rests' => Rests \/ ~running

Starts ==
    /\ ~running /\ running' = TRUE
    /\ \E w \in Worker : pc' = [pc EXCEPT ![w] = "loop"]
    /\ left' = left /\ halt' = halt

Ends ==
    /\ running' = FALSE
    /\ \E w \in Worker : pc[w] = "exit" /\ pc' = [pc EXCEPT ![w] = "none"]
    /\ left' = left /\ halt' = halt

Move(w) ==
    /\ running' = running
    /\ pc[w] # "none"
    /\ pc' = [pc EXCEPT ![w] = pc'[w]]
    /\ pc'[w] \notin GuestPlaces \cup {"none"}
    /\ pc'[w] \in TickPlaces => left'[w] > 0
    /\ \A v \in Worker : v # w => left'[v] = left[v]
    /\ pc[w] \in {"loop", "exit"} => ~stopRequested \/ pc'[w] = "exit"
    /\ halt' = halt

LEMMA StepOnWorkers ==
    InterruptInv /\ [Next]_vars => Still \/ Starts \/ Ends \/ (\E w \in Worker : Move(w))
<1> SUFFICES ASSUME InterruptInv, [Next]_vars
             PROVE Still \/ Starts \/ Ends \/ (\E w \in Worker : Move(w))
  OBVIOUS
<1>a. TypeOK /\ PlaceInv
  BY DEF InterruptInv
<1>b. \A x \in Guest \cup Host : x \notin Worker
  BY InterruptAssumption
<1>c. ASSUME UNCHANGED <<running, pc, left, halt>> PROVE Still
  BY <1>c DEF Still, Rests
<1>d. ASSUME NEW x \in Thread, NEW l, x \notin Worker, Goto(x, l),
             UNCHANGED <<running, left, halt>>
      PROVE  Still
  BY <1>a, <1>d DEF TypeOK, Goto, Still, Rests
<1>e. ASSUME NEW w \in Worker, NEW l, pc[w] \in TickPlaces \cup {"wait"},
             l \in TickPlaces, Goto(w, l), left'[w] > 0,
             \A v \in Worker : v # w => left'[v] = left[v],
             UNCHANGED <<running, halt>>
      PROVE  Move(w)
  BY <1>a, <1>e DEF TypeOK, Goto, Move, GuestPlaces, TickPlaces, Thread
<1>f. ASSUME NEW x \in Thread, pc[x] \in GuestPlaces PROVE x \notin Worker
  BY <1>a, <1>f DEF PlaceInv
<1> USE DEF workerVars, dispatchVars
<1>1. ASSUME NEW x \in Thread, HandlerCall(x) PROVE Still
  BY <1>1, <1>c DEF HandlerCall, AddHandler, RemoveHandler, SwitchHandler,
                    SwitchCause
<1>2. ASSUME NEW x \in Thread, GuestCall(x) PROVE Still
  <2>1. ASSUME NEW c \in Dmac, DmacDone(x, c) PROVE Still
    BY <2>1, <1>b, <1>d DEF DmacDone, Dispatch
  <2>2. CASE WaitVSync(x)
    BY <2>2, <1>b, <1>d DEF WaitVSync
  <2>3. ASSUME NEW a \in Addr, SetVSyncFlag(x, a) PROVE Still
    BY <2>3, <1>b, <1>d DEF SetVSyncFlag
  <2>4. ASSUME NEW a \in Addr, ClearFlag(x, a) PROVE Still
    BY <2>4, <1>c DEF ClearFlag
  <2> QED
    BY <1>2, <2>1, <2>2, <2>3, <2>4 DEF GuestCall
<1>3. ASSUME NEW x \in Thread, CallStep(x)
      PROVE  Still \/ Starts \/ (\E w \in Worker : Move(w))
  <2>1. CASE EnsureWorker(x)
    <3>1. CASE running /\ UNCHANGED <<workerVars, pc>>
      BY <2>1, <3>1, <1>c DEF EnsureWorker
    <3>2. CASE ~running
      BY <2>1, <3>2 DEF EnsureWorker, Starts, Goto
    <3> QED
      BY <2>1, <3>1, <3>2 DEF EnsureWorker
  <2>2. CASE Look(x)
    <3>1. x \notin Worker
      BY <2>2, <1>f DEF Look, GuestPlaces
    <3> QED
      BY <2>2, <3>1, <1>d DEF Look
  <2>3. CASE VSyncCame(x)
    <3>1. x \notin Worker
      BY <2>3, <1>f DEF VSyncCame, GuestPlaces
    <3> QED
      BY <2>3, <3>1, <1>d DEF VSyncCame
  <2>4. CASE Zero(x)
    <3>1. x \notin Worker
      BY <2>4, <1>f DEF Zero, GuestPlaces
    <3> QED
      BY <2>4, <3>1, <1>d DEF Zero
  <2>5. CASE Call(x)
    <3>1. CASE x \in Worker
      BY <2>5, <3>1, <1>a, <1>e DEF Call, PlaceInv, TickPlaces
    <3>2. CASE x \notin Worker
      BY <2>5, <3>2, <1>d DEF Call
    <3> QED
      BY <3>1, <3>2
  <2>6. ASSUME NEW h \in Handler, HandlerReturns(x, h)
        PROVE  Still \/ (\E w \in Worker : Move(w))
    <3>1. CASE x \in Worker
      BY <2>6, <3>1, <1>a, <1>e DEF HandlerReturns, PlaceInv, TickPlaces
    <3>2. CASE x \notin Worker
      BY <2>6, <3>2, <1>d DEF HandlerReturns
    <3> QED
      BY <3>1, <3>2
  <2>7. CASE DmacServed(x)
    BY <2>7, <1>b, <1>d DEF DmacServed
  <2>8. CASE StopWorker(x) \/ WorkerGone(x) \/ GiveUp(x) \/ Clear(x)
    BY <2>8, <1>a DEF StopWorker, WorkerGone, GiveUp, Clear, Still, Rests, TypeOK
  <2> QED
    BY <1>3, <2>1, <2>2, <2>3, <2>4, <2>5, <2>6, <2>7, <2>8 DEF CallStep
<1>4. ASSUME NEW x \in Stopper, RequestStop(x) PROVE Still
  BY <1>4, <1>a, InterruptAssumption DEF RequestStop, Still, Rests, TypeOK
<1>5. ASSUME NEW w \in Worker, WorkerStep(w) PROVE Ends \/ Move(w)
  <2>w. w \in Thread
    BY DEF Thread
  <2>1. CASE Loop(w) \/ Stopped(w)
    BY <2>w, <2>1, <1>a DEF Loop, Stopped, Move, Goto, TypeOK, GuestPlaces, TickPlaces
  <2>2. ASSUME NEW n \in 1 .. MaxCatchup, TimeUp(w, n) PROVE Move(w)
    BY <2>w, <2>2, <1>a, <1>e DEF TimeUp, TypeOK, TickPlaces
  <2>3. CASE Tick(w)
    BY <2>3, <1>a, <1>e DEF Tick, PlaceInv, TickPlaces
  <2>4. CASE WriteFlag(w)
    BY <2>4, <1>a, <1>e DEF WriteFlag, PlaceInv, TickPlaces
  <2>5. CASE Raise(w)
    BY <2>5, <1>a, <1>e DEF Raise, Dispatch, PlaceInv, TickPlaces
  <2>6. CASE Served(w)
    <3>1. pc[w] = "serve" /\ left[w] > 0 /\ left[w] \in Nat
      BY <2>6, <1>a DEF Served, PlaceInv, TickPlaces, TypeOK
    <3>2. CASE Goto(w, "raise") /\ UNCHANGED left
      BY <2>6, <3>1, <3>2, <1>e DEF Served, TickPlaces
    <3>3. CASE left[w] > 1 /\ left' = [left EXCEPT ![w] = @ - 1] /\ Goto(w, "tick")
      BY <2>6, <3>1, <3>3, <1>a, <1>e DEF Served, TypeOK, TickPlaces
    <3>4. CASE left' = [left EXCEPT ![w] = @ - 1] /\ Goto(w, "loop")
      BY <2>w, <2>6, <3>1, <3>4, <1>a
      DEF Served, Move, Goto, TypeOK, GuestPlaces, TickPlaces
    <3> QED
      BY <2>6, <3>2, <3>3, <3>4 DEF Served
  <2>7. CASE Exit(w)
    BY <2>7 DEF Exit, Ends, Goto
  <2> QED
    BY <1>5, <2>1, <2>2, <2>3, <2>4, <2>5, <2>6, <2>7 DEF WorkerStep
<1>6. CASE UNCHANGED vars
  BY <1>6, <1>c DEF vars
<1> QED
  BY <1>1, <1>2, <1>3, <1>4, <1>5, <1>6 DEF Next
-----------------------------------------------------------------------------
(* Every step keeps the invariant. *)
LEMMA InterruptStep == InterruptInv /\ [Next]_vars => InterruptInv'
<1> SUFFICES ASSUME InterruptInv, [Next]_vars PROVE InterruptInv'
  OBVIOUS
<1>1. TypeOK'
  BY InterruptTypeStep
<1>2. StopInv'
  <2>1. stopRequested => stopRequested'
    BY DEF Next, HandlerCall, AddHandler, RemoveHandler, SwitchHandler,
           SwitchCause, GuestCall, DmacDone, WaitVSync, SetVSyncFlag, ClearFlag,
           CallStep, EnsureWorker, Look, VSyncCame, Zero, Call, HandlerReturns,
           DmacServed, StopWorker, WorkerGone, GiveUp, Clear, RequestStop,
           WorkerStep, Loop, Stopped, TimeUp, Tick, WriteFlag, Raise, Served,
           Exit, vars
  <2>2. \A x \in Thread : halt[x] = "no" => halt'[x] = "no" \/ stopRequested'
    <3>1. ASSUME NEW x \in Thread, halt[x] = "no" PROVE halt'[x] = "no" \/ stopRequested'
      <4>1. ASSUME NEW y \in Thread, StopWorker(y) \/ WorkerGone(y) \/ GiveUp(y) \/ Clear(y)
            PROVE  halt'[x] = "no"
        BY <3>1, <4>1 DEF StopWorker, WorkerGone, GiveUp, Clear, InterruptInv, TypeOK
      <4>2. ASSUME NEW y \in Stopper, RequestStop(y) PROVE stopRequested'
        BY <4>2 DEF RequestStop
      <4>3. CASE halt' = halt
        BY <3>1, <4>3
      <4> QED
        BY <4>1, <4>2, <4>3
        DEF Next, HandlerCall, AddHandler, RemoveHandler, SwitchHandler,
            SwitchCause, GuestCall, DmacDone, WaitVSync, SetVSyncFlag, ClearFlag,
            CallStep, EnsureWorker, Look, VSyncCame, Zero, Call, HandlerReturns,
            DmacServed, WorkerStep, Loop, Stopped, TimeUp, Tick, WriteFlag,
            Raise, Served, Exit, vars
    <3> QED
      BY <3>1
  <2> QED
    BY <2>1, <2>2 DEF InterruptInv, StopInv
<1>a. /\ pc \in [Thread -> {"idle", "look", "vsync", "zero", "none", "loop",
                            "wait", "tick", "write", "raise", "exit", "serve",
                            "run"}]
      /\ running \in BOOLEAN /\ stopRequested \in BOOLEAN
      /\ PlaceInv /\ StopInv /\ OneWorker /\ QuietAfterStop
      /\ Worker \subseteq Thread
  BY DEF InterruptInv, TypeOK, Thread
<1>3. (PlaceInv /\ OneWorker /\ QuietAfterStop)'
  <2> USE <1>a DEF PlaceInv, OneWorker, QuietAfterStop, Live, Rests,
                   GuestPlaces, TickPlaces
  <2>1. CASE Still
    BY <2>1 DEF Still
  <2>2. CASE Starts
    BY <2>2 DEF Starts
  <2>3. CASE Ends
    BY <2>3 DEF Ends
  <2>4. ASSUME NEW w \in Worker, Move(w) PROVE (PlaceInv /\ OneWorker /\ QuietAfterStop)'
    <3>1. \A v \in Worker : v # w => pc'[v] = pc[v]
      BY <2>4 DEF Move
    <3>2. PlaceInv'
      BY <2>4, <3>1 DEF Move
    <3>3. OneWorker'
      BY <2>4, <3>1 DEF Move
    <3>4. QuietAfterStop'
      BY <2>4, <3>1 DEF Move, StopInv
    <3> QED
      BY <3>2, <3>3, <3>4
  <2> QED
    BY <2>1, <2>2, <2>3, <2>4, StepOnWorkers
<1> QED
  BY <1>1, <1>2, <1>3 DEF InterruptInv

(* The invariant holds of every reachable state. *)
THEOREM InterruptInvariant == Spec => []InterruptInv
<1> QED
  BY InterruptInit, InterruptStep, PTL DEF Spec

(* The variables keep their types. *)
THEOREM InterruptTypes == Spec => []TypeOK
<1>1. InterruptInv => TypeOK
  BY DEF InterruptInv
<1> QED
  BY <1>1, InterruptInvariant, PTL

(* However many threads ensure the worker, and however stops and starts    *)
(* interleave, there is at most one, and g_irq_worker_running is true of   *)
(* it (ensureInterruptWorkerRunning, interruptWorkerMain).                 *)
THEOREM AtMostOneWorker == Spec => []OneWorker
<1>1. InterruptInv => OneWorker
  BY DEF InterruptInv
<1> QED
  BY <1>1, InterruptInvariant, PTL

(* After a stop that saw the worker end no later call brings back a tick   *)
(* or a handler (stopInterruptWorker, interruptWorkerMain).                *)
THEOREM StopIsFinal == Spec => []QuietAfterStop
<1>1. InterruptInv => QuietAfterStop
  BY DEF InterruptInv
<1> QED
  BY <1>1, InterruptInvariant, PTL
=============================================================================
