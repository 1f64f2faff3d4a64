---------------------------- MODULE EEInterrupts ----------------------------
(***************************************************************************)
(* Interrupts of the EE kernel emulation (Interrupt.cpp): the worker that  *)
(* raises a vblank every 16.7 ms, the handlers that it runs, the handlers  *)
(* of completed DMA transfers, which run on the thread that completed one, *)
(* the waits for the next vblank, and the worker's end in requestStop.     *)
(* The worker is a host thread without the guest token: its handlers run   *)
(* beside guest code.  The first call that needs it starts it, and         *)
(* g_irq_worker_running says that one is there.                            *)
(*                                                                         *)
(* pc[x] is where thread x stands.  Of guest code:                         *)
(*   idle   runs                      look   about to wait for a vblank    *)
(*   vsync  waits for it              zero   about to clear a vsync flag   *)
(* of the worker:                                                          *)
(*   none   not there                 loop   about to test for a stop      *)
(*   wait   waits for the next tick   tick   about to count a tick         *)
(*   write  about to write the flag   raise  about to raise cause at[x]    *)
(*   exit   about to say that it ends                                      *)
(* and of both, inside the dispatch of a cause:                            *)
(*   serve  between two handlers      run    runs a handler                *)
(* halt[x] is where x stands in requestStop:                               *)
(*   no     has not called it         set    about to stop the worker      *)
(*   await  waits for its end         clean  has seen it end               *)
(*   dirty  has waited 500 ms         done   has returned after clean      *)
(*   late   has returned after dirty                                       *)
(* The INTC and the DMAC handlers, two tables with the same code, are one  *)
(* table here, and a dispatch calls those on its list in any order.  The   *)
(* tick counter is kept as far as its waiters see it: has it moved since   *)
(* they looked.  Frame-stepped mode, where the scheduler and not the       *)
(* worker ticks, is left out, as are nested dispatches.                    *)
(***************************************************************************)
EXTENDS Integers, Sequences, FiniteSets

CONSTANTS
    Guest,      \* threads that run guest code
    Host,       \* host threads that run none
    Worker,     \* worker threads
    Causes,     \* the INTC causes of a tick, in the order they are raised
    Dmac,       \* the DMAC causes
    Masked,     \* the causes that guest code enables and disables
    Stopper,    \* the threads that stop the program
    Addr,       \* guest addresses of vsync flags
    NoAddr,     \* the address 0
    MaxHandler, \* bound on the handlers added
    MaxCatchup  \* kMaxCatchupTicks

Thread == Guest \cup Host \cup Worker
Intc == {Causes[i] : i \in DOMAIN Causes}
Cause == Intc \cup Dmac
Handler == 1 .. MaxHandler

ASSUME InterruptAssumption ==
    /\ Worker \cap (Guest \cup Host) = {}
    /\ Causes \in Seq(Intc) /\ Len(Causes) > 0
    /\ Masked \subseteq Cause /\ Stopper \subseteq Thread
    /\ NoAddr \notin Addr
    /\ MaxHandler \in Nat /\ MaxCatchup \in Nat

VARIABLES
    stopRequested,  \* m_stopRequested
    stop,           \* g_irq_worker_stop
    running,        \* g_irq_worker_running
    pc,             \* see above
    halt,           \* see above
    ensuring,       \* the threads about to call ensureInterruptWorkerRunning
    left,           \* the ticks that the worker still has to process
    at,             \* the index of the cause that it raises
    due,            \* the copied handlers that a dispatch has still to finish
    table,          \* the keys of g_intcHandlers and g_dmacHandlers
    cause,          \* IrqHandlerInfo::cause
    enabled,        \* the handlers whose IrqHandlerInfo::enabled is set
    mask,           \* the causes in g_enabled_intc_mask, g_enabled_dmac_mask
    nextId,         \* g_nextIntcHandlerId
    reg,            \* g_vsync_registration.flagAddr
    saved,          \* the copy of reg that a tick, or SetVSyncFlag, works with
    flag,           \* the addresses that hold 1
    moved           \* the waiters whose tick has come

workerVars == <<stop, running>>
tableVars == <<table, cause, enabled, mask, nextId>>
vsyncVars == <<reg, saved, flag, moved>>
dispatchVars == <<left, at, due>>
vars == <<stopRequested, workerVars, pc, halt, ensuring, dispatchVars,
          tableVars, vsyncVars>>

TypeOK ==
    /\ stopRequested \in BOOLEAN /\ stop \in BOOLEAN /\ running \in BOOLEAN
    /\ pc \in [Thread -> {"idle", "look", "vsync", "zero", "none", "loop", "wait",
                          "tick", "write", "raise", "exit", "serve", "run"}]
    /\ halt \in [Thread -> {"no", "set", "await", "clean", "dirty", "done", "late"}]
    /\ ensuring \subseteq Thread
    /\ left \in [Worker -> 0 .. MaxCatchup]
    /\ at \in [Worker -> 0 .. Len(Causes)]
    /\ due \in [Thread -> SUBSET Handler]
    /\ table \subseteq Handler /\ enabled \subseteq Handler
    /\ cause \in [Handler -> Cause]
    /\ mask \subseteq Cause
    /\ nextId \in 1 .. MaxHandler + 1
    /\ reg \in Addr \cup {NoAddr}
    /\ saved \in [Thread -> Addr \cup {NoAddr}]
    /\ flag \subseteq Addr
    /\ moved \subseteq Guest

Init ==
    /\ stopRequested = FALSE /\ stop = FALSE /\ running = FALSE
    /\ pc = [x \in Thread |-> IF x \in Worker THEN "none" ELSE "idle"]
    /\ halt = [x \in Thread |-> "no"]
    /\ ensuring = Host
    /\ left = [w \in Worker |-> 0]
    /\ at = [w \in Worker |-> 0]
    /\ due = [x \in Thread |-> {}]
    /\ table = {} /\ enabled = {}
    /\ cause = [h \in Handler |-> Causes[1]]
    /\ mask = Cause
    /\ nextId = 1
    /\ reg = NoAddr
    /\ saved = [x \in Thread |-> NoAddr]
    /\ flag = {}
    /\ moved = {}
-----------------------------------------------------------------------------
(* What a thread may do next: it is in no call that has steps of its own.  *)
Free(x) == x \notin ensuring /\ halt[x] \in {"no", "late", "done"}

Goto(x, l) == pc' = [pc EXCEPT ![x] = l]

(* Guest code runs on x, its own or a handler's. *)
RunsGuest(x) == Free(x) /\ (pc[x] = "run" \/ (x \in Guest /\ pc[x] = "idle"))

(* Bug: the running worker is tested before g_irq_worker_mutex is taken, so *)
(* two callers can both find none.                                         *)
EnsureWorkerUnlocked(x) ==
    /\ x \in ensuring
    /\ ensuring' = ensuring \ {x}
    /\ \E w \in Worker :
          /\ pc[w] = "none"
          /\ stop' = FALSE /\ running' = TRUE
          /\ Goto(w, "loop")
    /\ UNCHANGED <<stopRequested, halt, dispatchVars, tableVars, vsyncVars>>

(* ensureInterruptWorkerRunning *)
EnsureWorker(x) ==
    /\ x \in ensuring
    /\ ensuring' = ensuring \ {x}
    /\ \/ running /\ UNCHANGED <<workerVars, pc>>
       \/ /\ ~running
          /\ stop' = FALSE /\ running' = TRUE
          /\ \E w \in Worker : pc[w] = "none" /\ Goto(w, "loop")
    /\ UNCHANGED <<stopRequested, halt, dispatchVars, tableVars, vsyncVars>>
-----------------------------------------------------------------------------
(* The handlers.                                                           *)

(* AddIntcHandler, AddDmacHandler *)
AddHandler(x, c) ==
    /\ RunsGuest(x)
    /\ nextId <= MaxHandler
    /\ cause' = [cause EXCEPT ![nextId] = c]
    /\ table' = table \cup {nextId}
    /\ enabled' = enabled \cup {nextId}
    /\ nextId' = nextId + 1
    /\ ensuring' = IF c \in Intc THEN ensuring \cup {x} ELSE ensuring
    /\ UNCHANGED <<stopRequested, workerVars, pc, halt, dispatchVars, mask,
                   vsyncVars>>

(* Bug: the handler stays where a dispatch looks for it. *)
RemoveHandlerHalf(x, h) ==
    /\ RunsGuest(x)
    /\ h \in table
    /\ table' = table \ {h}
    /\ UNCHANGED <<stopRequested, workerVars, pc, halt, ensuring, dispatchVars,
                   cause, enabled, mask, nextId, vsyncVars>>

(* RemoveIntcHandler, RemoveDmacHandler; for an unknown id, or another     *)
(* cause than the handler's, nothing.                                      *)
RemoveHandler(x, h) ==
    /\ RunsGuest(x)
    /\ h \in table
    /\ table' = table \ {h}
    /\ enabled' = enabled \ {h}
    /\ UNCHANGED <<stopRequested, workerVars, pc, halt, ensuring, dispatchVars,
                   cause, mask, nextId, vsyncVars>>

(* Enable- and Disable- IntcHandler and DmacHandler *)
SwitchHandler(x, h) ==
    /\ RunsGuest(x)
    /\ h \in table
    /\ enabled' = IF h \in enabled THEN enabled \ {h} ELSE enabled \cup {h}
    /\ UNCHANGED <<stopRequested, workerVars, pc, halt, ensuring, dispatchVars,
                   table, cause, mask, nextId, vsyncVars>>

(* Enable- and Disable- Intc and Dmac *)
SwitchCause(x, c) ==
    /\ RunsGuest(x)
    /\ mask' = IF c \in mask THEN mask \ {c} ELSE mask \cup {c}
    /\ UNCHANGED <<stopRequested, workerVars, pc, halt, ensuring, dispatchVars,
                   table, cause, enabled, nextId, vsyncVars>>

(* What a dispatch of c copies under g_irq_handler_mutex. *)
Eligible(c) == IF c \in mask THEN {h \in enabled : cause[h] = c} ELSE {}

Dispatch(x, c) ==
    due' = [due EXCEPT ![x] = Eligible(c)] /\ Goto(x, "serve")

(* The listed handlers are called, and none once a stop is requested.      *)
Call(x) ==
    /\ pc[x] = "serve"
    /\ due[x] # {} /\ ~stopRequested
    /\ Goto(x, "run")
    /\ UNCHANGED <<stopRequested, workerVars, halt, ensuring, dispatchVars,
                   tableVars, vsyncVars>>

(* The handler h returned, or threw. *)
HandlerReturns(x, h) ==
    /\ pc[x] = "run" /\ Free(x)
    /\ h \in due[x]
    /\ due' = [due EXCEPT ![x] = @ \ {h}]
    /\ Goto(x, "serve")
    /\ UNCHANGED <<stopRequested, workerVars, halt, ensuring, left, at,
                   tableVars, vsyncVars>>

(* dispatchDmacHandlersForCause, on the thread that completed the transfer. *)
DmacDone(x, c) ==
    /\ RunsGuest(x) /\ x \in Guest /\ pc[x] = "idle"
    /\ Dispatch(x, c)
    /\ UNCHANGED <<stopRequested, workerVars, halt, ensuring, left, at,
                   tableVars, vsyncVars>>

DmacServed(x) ==
    /\ pc[x] = "serve" /\ x \in Guest
    /\ due[x] = {} \/ stopRequested
    /\ Goto(x, "idle")
    /\ due' = [due EXCEPT ![x] = {}]
    /\ UNCHANGED <<stopRequested, workerVars, halt, ensuring, left, at,
                   tableVars, vsyncVars>>
-----------------------------------------------------------------------------
(* Vblanks, for guest code.                                                *)

(* WaitForNextVSyncTick: ensure the worker, note the counter, wait. *)
WaitVSync(x) ==
    /\ Free(x) /\ x \in Guest /\ pc[x] = "idle"
    /\ ensuring' = ensuring \cup {x}
    /\ Goto(x, "look")
    /\ UNCHANGED <<stopRequested, workerVars, halt, dispatchVars, tableVars,
                   vsyncVars>>

Look(x) ==
    /\ Free(x) /\ pc[x] = "look"
    /\ moved' = moved \ {x}
    /\ Goto(x, "vsync")
    /\ UNCHANGED <<stopRequested, workerVars, halt, ensuring, dispatchVars,
                   tableVars, reg, saved, flag>>

VSyncCame(x) ==
    /\ pc[x] = "vsync"
    /\ x \in moved \/ stopRequested
    /\ Goto(x, "idle")
    /\ UNCHANGED <<stopRequested, workerVars, halt, ensuring, dispatchVars,
                   tableVars, vsyncVars>>

(* SetVSyncFlag registers under g_vsync_flag_mutex and clears the words    *)
(* after it.                                                               *)
SetVSyncFlag(x, a) ==
    /\ Free(x) /\ x \in Guest /\ pc[x] = "idle"
    /\ reg' = a
    /\ saved' = [saved EXCEPT ![x] = a]
    /\ Goto(x, "zero")
    /\ UNCHANGED <<stopRequested, workerVars, halt, ensuring, dispatchVars,
                   tableVars, flag, moved>>

Zero(x) ==
    /\ pc[x] = "zero"
    /\ flag' = flag \ {saved[x]}
    /\ saved' = [saved EXCEPT ![x] = NoAddr]
    /\ ensuring' = ensuring \cup {x}
    /\ Goto(x, "idle")
    /\ UNCHANGED <<stopRequested, workerVars, halt, dispatchVars, tableVars,
                   reg, moved>>

(* The guest clears the flag that it has polled. *)
ClearFlag(x, a) ==
    /\ RunsGuest(x) /\ a \in flag
    /\ flag' = flag \ {a}
    /\ UNCHANGED <<stopRequested, workerVars, pc, halt, ensuring, dispatchVars,
                   tableVars, reg, saved, moved>>
-----------------------------------------------------------------------------
(* The worker (interruptWorkerMain, interruptTick).                        *)

(* Bug: the worker waits whether or not the program stops. *)
LoopOn(w) ==
    /\ pc[w] = "loop"
    /\ Goto(w, "wait")
    /\ UNCHANGED <<stopRequested, workerVars, halt, ensuring, dispatchVars,
                   tableVars, vsyncVars>>

(* Bug: the worker ends when no handler is there. *)
LoopIdle(w) ==
    /\ pc[w] = "loop"
    /\ Goto(w, IF stopRequested \/ enabled = {} THEN "exit" ELSE "wait")
    /\ UNCHANGED <<stopRequested, workerVars, halt, ensuring, dispatchVars,
                   tableVars, vsyncVars>>

Loop(w) ==
    /\ pc[w] = "loop"
    /\ Goto(w, IF stopRequested THEN "exit" ELSE "wait")
    /\ UNCHANGED <<stopRequested, workerVars, halt, ensuring, dispatchVars,
                   tableVars, vsyncVars>>

(* The wait until the next tick ends by a stop ... *)
Stopped(w) ==
    /\ pc[w] = "wait" /\ stop
    /\ Goto(w, "exit")
    /\ UNCHANGED <<stopRequested, workerVars, halt, ensuring, dispatchVars,
                   tableVars, vsyncVars>>

(* ... or at its time, or later, with several ticks to catch up. *)
TimeUp(w, n) ==
    /\ pc[w] = "wait" /\ ~stop
    /\ left' = [left EXCEPT ![w] = n]
    /\ Goto(w, "tick")
    /\ UNCHANGED <<stopRequested, workerVars, halt, ensuring, at, due,
                   tableVars, vsyncVars>>

(* signalVSyncFlag: count, copy the registration, wake the waiters ... *)
Tick(w) ==
    /\ pc[w] = "tick"
    /\ moved' = moved \cup {x \in Guest : pc[x] = "vsync"}
    /\ saved' = [saved EXCEPT ![w] = reg]
    /\ Goto(w, "write")
    /\ UNCHANGED <<stopRequested, workerVars, halt, ensuring, dispatchVars,
                   tableVars, reg, flag>>

(* ... and write where the copy says, without the mutex. *)
WriteFlag(w) ==
    /\ pc[w] = "write"
    /\ flag' = flag \cup ({saved[w]} \ {NoAddr})
    /\ saved' = [saved EXCEPT ![w] = NoAddr]
    /\ at' = [at EXCEPT ![w] = 1]
    /\ Goto(w, "raise")
    /\ UNCHANGED <<stopRequested, workerVars, halt, ensuring, left, due,
                   tableVars, reg, moved>>

Raise(w) ==
    /\ pc[w] = "raise"
    /\ Dispatch(w, Causes[at[w]])
    /\ UNCHANGED <<stopRequested, workerVars, halt, ensuring, left, at,
                   tableVars, vsyncVars>>

(* The next cause, the next tick to catch up, or the next wait. *)
Served(w) ==
    /\ pc[w] = "serve"
    /\ due[w] = {} \/ stopRequested
    /\ due' = [due EXCEPT ![w] = {}]
    /\ \/ /\ at[w] < Len(Causes)
          /\ at' = [at EXCEPT ![w] = @ + 1]
          /\ Goto(w, "raise")
          /\ UNCHANGED left
       \/ /\ at[w] = Len(Causes)
          /\ at' = [at EXCEPT ![w] = 0]
          /\ left' = [left EXCEPT ![w] = @ - 1]
          /\ Goto(w, IF left[w] > 1 THEN "tick" ELSE "loop")
    /\ UNCHANGED <<stopRequested, workerVars, halt, ensuring, tableVars,
                   vsyncVars>>

(* Bug: the worker that ends does not say so. *)
ExitSilent(w) ==
    /\ pc[w] = "exit"
    /\ Goto(w, "none")
    /\ UNCHANGED <<stopRequested, workerVars, halt, ensuring, dispatchVars,
                   tableVars, vsyncVars>>

Exit(w) ==
    /\ pc[w] = "exit"
    /\ running' = FALSE
    /\ Goto(w, "none")
    /\ UNCHANGED <<stopRequested, stop, halt, ensuring, dispatchVars,
                   tableVars, vsyncVars>>
-----------------------------------------------------------------------------
(* requestStop: by a host thread, or by the guest's exit(), which a handler *)
(* may call too.  A thread asks once.                                      *)

RequestStop(x) ==
    /\ halt[x] = "no"
    /\ (x \in Host /\ Free(x)) \/ RunsGuest(x)
    /\ stopRequested' = TRUE
    /\ halt' = [halt EXCEPT ![x] = "set"]
    /\ UNCHANGED <<workerVars, pc, ensuring, dispatchVars, tableVars, vsyncVars>>

(* stopInterruptWorker: the flag and the notification, without the mutex, *)
(* and a wait of at most 500 ms for the worker's end.                      *)
StopWorker(x) ==
    /\ halt[x] = "set"
    /\ stop' = TRUE
    /\ halt' = [halt EXCEPT ![x] = "await"]
    /\ UNCHANGED <<stopRequested, running, pc, ensuring, dispatchVars,
                   tableVars, vsyncVars>>

WorkerGone(x) ==
    /\ halt[x] = "await" /\ ~running
    /\ halt' = [halt EXCEPT ![x] = "clean"]
    /\ UNCHANGED <<stopRequested, workerVars, pc, ensuring, dispatchVars,
                   tableVars, vsyncVars>>

GiveUp(x) ==
    /\ halt[x] = "await" /\ running
    /\ halt' = [halt EXCEPT ![x] = "dirty"]
    /\ UNCHANGED <<stopRequested, workerVars, pc, ensuring, dispatchVars,
                   tableVars, vsyncVars>>

(* notifyRuntimeStop clears the masks and the registration.  The tables    *)
(* that it clears are Lifecycle.cpp's own: they are static in a header.    *)
Clear(x) ==
    /\ halt[x] \in {"clean", "dirty"}
    /\ halt' = [halt EXCEPT ![x] = IF @ = "clean" THEN "done" ELSE "late"]
    /\ mask' = Cause
    /\ reg' = NoAddr
    /\ UNCHANGED <<stopRequested, workerVars, pc, ensuring, dispatchVars,
                   table, cause, enabled, nextId, saved, flag, moved>>
-----------------------------------------------------------------------------
HandlerCall(x) ==
    \/ \E c \in Cause : AddHandler(x, c)
    \/ \E h \in Handler : RemoveHandler(x, h) \/ SwitchHandler(x, h)
    \/ \E c \in Masked : SwitchCause(x, c)

GuestCall(x) ==
    \/ \E c \in Dmac : DmacDone(x, c)
    \/ WaitVSync(x)
    \/ \E a \in Addr : SetVSyncFlag(x, a) \/ ClearFlag(x, a)

(* The steps that end by themselves. *)
CallStep(x) ==
    \/ EnsureWorker(x) \/ Look(x) \/ VSyncCame(x) \/ Zero(x)
    \/ Call(x) \/ (\E h \in Handler : HandlerReturns(x, h)) \/ DmacServed(x)
    \/ StopWorker(x) \/ WorkerGone(x) \/ GiveUp(x) \/ Clear(x)

WorkerStep(w) ==
    \/ Loop(w) \/ Stopped(w) \/ (\E n \in 1 .. MaxCatchup : TimeUp(w, n))
    \/ Tick(w) \/ WriteFlag(w) \/ Raise(w) \/ Served(w) \/ Exit(w)

Next ==
    \/ \E x \in Thread : HandlerCall(x) \/ GuestCall(x) \/ CallStep(x)
    \/ \E x \in Stopper : RequestStop(x)
    \/ \E w \in Worker : WorkerStep(w)

Spec == Init /\ [][Next]_vars

(* Calls and handlers end, time passes, and host threads are scheduled. *)
FairSpec ==
    /\ Spec
    /\ \A x \in Thread : WF_vars(CallStep(x))
    /\ \A w \in Worker : WF_vars(WorkerStep(w))
-----------------------------------------------------------------------------
(* Properties.                                                             *)

Live == {w \in Worker : pc[w] \notin {"none"}}

(* There is at most one worker, and g_irq_worker_running says whether. *)
OneWorker ==
    /\ running <=> Live # {}
    /\ \A v, w \in Live : v = w

(* Once a stop has seen the worker end, there is never again a tick or a   *)
(* handler of the worker, whoever calls what needs one.                    *)
QuietAfterStop ==
    (\E x \in Thread : halt[x] \in {"clean", "done"}) =>
        \A w \in Worker : pc[w] \in {"none", "loop", "exit"}

(* After a request to stop the worker ends, even if it waits for itself. *)
WorkerEnds == stopRequested ~> ~running

(* A vblank reaches whoever waits for one: WaitForNextVSyncTick ends, and a *)
(* registered flag is raised, unless another one is registered or the      *)
(* program stops.  (The clearing that follows the registration may undo    *)
(* one tick, and never all.)                                               *)
VBlankReachesGuest ==
    /\ \A x \in Guest : (pc[x] = "vsync") ~> (pc[x] # "vsync")
    /\ \A a \in Addr : (reg = a) ~> (a \in flag \/ reg # a \/ stopRequested)

(* A removed handler may still be called, from a list copied before, but   *)
(* not for ever: from some time on no dispatch has it.                     *)
RemovedGoesQuiet ==
    \A h \in Handler : (h < nextId /\ h \notin table) ~>
                           [](\A x \in Thread : h \notin due[x])
=============================================================================
