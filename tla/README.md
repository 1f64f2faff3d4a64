# Formal model of the BT3-Recomp runtime

BT3-Recomp runs a statically recompiled PlayStation 2 program on a host
machine. `ps2xRuntime` takes the place of the console: it schedules the
program's threads, emulates the EE kernel's calls, delivers interrupts, and
stands in for the graphics, sound, pad and network hardware. This directory
holds TLA+ models of the parts of that runtime whose correctness depends on
the order of steps, configurations that check them with TLC, and proofs that
TLAPS checks.

Paths below are relative to `src/`; `Thread.cpp`, `Sync.cpp` and
`Interrupt.cpp` are in `ps2xRuntime/src/lib/Kernel/Syscalls/`, `Runtime.h` and
`State.h` in its `Helpers/`, `ps2_runtime.cpp` in `ps2xRuntime/src/lib/`.

## Inventory

| Component | State it keeps | Operations | Talks to | What is hard, what makes it correct |
|---|---|---|---|---|
| Guest scheduler (`ps2_runtime.cpp` 4439-4489, 5290-5654, 6095-6169) | token `m_schedCurrent`, a slot per thread (order, present, blocked, cv), recursive guest-execution mutex and its depth | `schedAcquire` with watchdog, `schedYield`, `schedBeginBlock`, `schedUnregister`, the execution and release scopes, step loops, `requestStop` | every kernel call that waits; service threads that call back | token and lock are released and taken separately; an untimed wait; threads ending on odd paths. Guest code serialised, handovers never lost or unfair, everybody runs |
| EE threads (`Thread.cpp`) | `ThreadInfo`: status, wait type, wakeup and suspend counts, release and terminate flags; host thread | start, exit, terminate, sleep, wakeup, cancel, release, suspend, resume, create, delete | scheduler; wait objects; the interrupt worker calls the i-variants | parked threads finish their waits without the token; flags set for one wait seen by another. The record says where the thread is, every reason to wake wakes |
| Semaphores (`Sync.cpp` 115-439) | `g_semas`; per semaphore count, maximum, waiters, deleted | create, delete, signal, wait, poll, refer | thread records | lookup and work are two sections; four ways to end a wait race. Units neither made nor lost, waiters exact |
| Event flags (`Sync.cpp` 481-850) | bits, attribute, waiters, deleted | create, delete, set, clear, wait, poll | thread records | the pattern is tested and cleared in different moments |
| Alarms (`Sync.cpp` 908-1005, `Runtime.h` 193-289) | table of due times, a worker that the first alarm starts | set, cancel, fire, cleared by a stop | guest handlers run on the worker and may set and cancel | the table changes in one section, the worker is notified in a later one; a cancel meets an alarm that is about to run. No alarm is slept past, none runs early, twice or after a successful cancel |
| Interrupt and vsync worker (`Interrupt.cpp`) | handler tables, enable masks, tick counter, worker flags | add, remove, enable, disable, dispatch, start, stop, wait for vsync | guest handlers; semaphores, event flags, threads | handlers copied and run without the lock; the first call starts the worker, a stop waits 500 ms for its end and may come from the worker. One worker at a time, none after a stop that saw it end, waiters get their vblank |
| Fiber scheduler (`ps2_fiber.cpp`, `ps2_runtime.cpp` 5795-6092) | parked predicates, wake generation | park, probe, wake | the same kernel calls | a wake site without its generation bump |
| Netplay sessions (`ps2_netplay.cpp`) | peer address, connected, frame base, state-sync flags | host, join, hello, good-bye, watchdog, return to the menu, offer, fetch, adopt, DONE | two machines over UDP; a window thread with buttons beside the game thread | datagrams name no session; crashes, lost answers. A session inherits nothing from the last one; both number from the same frame; a peer that vanished is dropped |
| Netplay inputs (`ps2_netplay.cpp`) | inputs of both sides by frame, predictions, hashes | send with redundancy, receive, read, poll for rollback | pad hook, frame boundary | lost, late, repeated datagrams. Both sides use the same inputs |
| Rollback and state sync (`ps2_runtime.cpp` 6476-7200) | ring of snapshots, frame to re-simulate to, published state | capture, restore, publish, adopt | netplay, kernel records | a confirmed frame really used known inputs; the joiner runs on the host's state of this session |
| Memory, DMA, GIF, VIF | registers, queues | MMIO, chains | guest thread that writes | sequential decoding |
| GS, VU, audio | memory, registers | draw, execute, mix | host APIs | arithmetic |
| IOP, SIF RPC, devices | RPC servers, handlers | bind, call | kernel objects | order of completions |
| Pads, library stubs, overrides, front end, recompiler, analyzer | files, settings, tables | | | sequential, data or host I/O |

`PROJECT.json` lists every component with what is and is not modelled, and
every hazard found at its line.


## Plan

The order follows what depends on what: everything in the runtime runs under
the scheduler, every kernel object under the thread records, and netplay is
what the runtime's determinism is for.

| Step | Modules | State |
|---|---|---|
| 1 | `GuestScheduler` refines `GuestToken` | done, proved |
| 2 | `EEThreads` | done, proved |
| 3 | `EESema` over `EEThreads`, refines `CountingSemaphores` | done, proved |
| 4 | `Netplay`: lockstep and rollback | done; safety proved, liveness checked |
| 5 | `EEEventFlag` over `EEThreads`, refines `EventFlags` | done, proved |
| 6 | `EEAlarm`, refines `Timers`; `EEInterrupts` | done; safety proved, liveness checked |
| 7 | `NetSession`, in front of `Netplay`: hosting, joining, good-bye, watchdog, crash, state sync | done; safety proved, liveness checked |
| 8 | Proofs about rollback: the invariants of every session, and the rollback properties from a bound on what a datagram may miss | done |
| 9 | `FiberScheduler`: parked predicates, wake generation and safety net; it should implement `GuestToken` as the threads do | planned |
| 10 | The wait protocol at the grain of single locks (`ThreadInfo::m`, an object's mutex, the token), to justify the atomicity that the kernel modules take for granted | planned |
| 11 | One kernel with semaphores, flags and interrupts together, where a handler's signal races another object's wait | planned |
| 12 | `GifArbiter` queue order; RPC server queue; memory card completion | candidates |

## Modules and how they correspond to the code

One action is one critical section or one step between two of them. `PROJECT.json`
gives the source lines of every definition.

| Module | What it holds |
|---|---|
| `GuestToken` | what the scheduler promises: join, pass, drop, withdraw, stop |
| `GuestScheduler` | the scheduler of the shipping configuration (`PS2X_SCHED=1`, a host thread per guest thread) |
| `GuestScheduler_proofs` | its invariant and its refinement |
| `EEThreads` | the thread records and every call that reads or changes them |
| `EEThreads_proofs` | their invariant |
| `CountingSemaphores` | what semaphores promise: units, a limit, a queue, calls that outlive a deletion |
| `EESema` | the semaphore calls on top of the thread records |
| `EESema_proofs` | the invariant of both and the refinement |
| `EventFlags` | what event flags promise: bits are taken only by a wait whose pattern is there |
| `EEEventFlag` | the event flag calls on top of the thread records |
| `EEEventFlag_proofs` | the invariant of both and the refinement |
| `Timers` | what alarms promise: once, in order, not early, one at a time, not after a cancel |
| `EEAlarm` | the alarm table, its callers and its worker |
| `EEAlarm_proofs` | its invariant and its refinement |
| `EEInterrupts` | the interrupt worker, handler tables, vsync waits, the stop |
| `EEInterrupts_proofs` | one worker at a time, quiet after a stop |
| `NetSession` | two machines that meet, share a state, part, crash and meet again |
| `NetSession_proofs` | nothing inherited, matching sessions, a true synchronisation |
| `Netplay` | two peers in a session: their inputs, lockstep and rollback |
| `Netplay_proofs` | agreement in lockstep and in rollback, every wrong guess corrected, how much redundancy that takes |
| `MC...` | small sets of threads, objects, inputs for TLC |

`EEThreads` is shared: `EESema` and `EEEventFlag` extend it, use its `ParkOn` and
`FinishWait` for their waits and its `BeginCall`, `LeaveCall` and `CallThrows` for
the ends of their calls, and their proofs build on `ThreadInv`. `NetSession` ends where `Netplay`
begins: connected, with a common frame base and, for rollback, a common state.

### GuestScheduler

A thread runs guest code when it has the *token* (`m_schedCurrent`, passed
round-robin under `m_schedMutex`) and the recursive *guest-execution mutex*. The
code takes and passes them separately, so `pc[t]` says where between the two
host thread `t` stands.

| `pc` | Code |
|---|---|
| `spawned`, `acquire` | before and in the wait of `schedAcquire`; `AcquireTimeout` is its 250 ms slice and the watchdog |
| `loop`, `enter`, `guest` | top of the step loop; at the `GuestExecutionScope`; inside it |
| `handoff`, `park`, `parked`, `relock` | `schedYield`: successor chosen; lock released; in the untimed wait; token back, lock not |
| `released`, `wait` | `GuestExecutionReleaseScope`: lock released; `schedBeginBlock` done and the kernel wait under way. Its destructor is `AcquireEnter` again |
| `ended`, `gone`, `idle` | out of the loop; main thread gone; host thread gone |

`present`, `blocked` and `order` are the fields of `SchedThread`; `order` is
renumbered from 1 so that 0 can mean "no slot yet". `asleep` is the part of a
condition variable that matters: who is in its wait and has not been notified.
The service threads of the runtime are one contender for the lock, `Host`.
Fibers are not in this model.

### EEThreads, EESema and EEEventFlag

These modules take the token as given (`holder`) and look at what the kernel
keeps. A running thread parks, and its *parked half* (`Awake`, `Resumed`,
`WaitSemaDone`, `Terminated`) runs without the token, as the code after
`cv.wait` does; it then goes to `check` or `dying`, where it needs the token
again. `Intr` is an interrupt handler on a host thread of its own. It calls
the i-variants between any two steps, one handler at a time, as the one interrupt
worker does. (`EEInterrupts` looks at that worker itself.)

A semaphore call is split where the code is: `LookupSema` copies the
`shared_ptr` out of `g_semas`, the rest works under `SemaInfo::m`, and a handler
may delete the semaphore between the two. `handle[c]` is that pointer. Semaphore
ids are used once; the erasure in `DeleteSema` and the flag it sets afterwards
are one step: a call that falls between the two either works as it would before
the erasure, or fails its lookup and changes nothing.

Event flags are laid out in the same way. `bits[f]` is a set of bits, a wait carries
its pattern, whether any bit will do, and what it clears (`want[t]`). A wait that
comes back without the token tests its pattern and takes its bits in one critical
section of `EventFlagInfo::m`. `OneWaiter` is the rule of a flag without `EA_MULTI`:
the test for another waiter and the increment of the counter are in that section too,
and a waiter leaves the counter while it has not yet taken the token.

The models end where `requestStop` begins, which throws the records away.

### EEAlarm

`table` holds the keys of `g_alarms`, `due` their times, in ticks. `SetAlarm` reads
the clock (`set`), enters the alarm under `g_alarm_mutex` (`start`), makes sure of the
worker (`notify`) and notifies; `CancelAlarm` erases and then notifies. Between the
steps the other callers, the worker and the clock move.

| `worker` | Code |
|---|---|
| `none` | before `ensureAlarmWorkerRunning` |
| `look` | at the top of the worker's loop, the mutex free |
| `wait`, `timed` | `g_alarm_cv.wait` on an empty table; `wait_until` the earliest time |
| `run` | the handler of `current`, outside the mutex |

The handler is a caller like any other while it runs. `Stop` is what
`notifyRuntimeStop` does to the table; nothing ends the worker, as in the code.

### EEInterrupts

`pc[x]` is where thread `x` stands in a dispatch, a vsync wait or the worker's loop, and
`halt[x]` where it stands in `requestStop`.

| `pc` | Code |
|---|---|
| `none`, `loop`, `wait`, `exit` | the worker: not there; testing for a stop; in its wait for the next tick; about to clear `g_irq_worker_running` |
| `tick`, `write`, `raise` | one tick of at most `kMaxCatchupTicks`: counter and copy of the registration; the flag in guest memory; the causes in their order |
| `serve`, `run` | inside a dispatch, on the worker or on the guest thread whose DMA is done: between two handlers; in one |
| `idle`, `look`, `vsync`, `zero` | guest code: running; before and in `WaitForNextVSyncTick`; before `SetVSyncFlag` clears the flag it has registered |

| `halt` | Code |
|---|---|
| `no`, `set` | before; the stop flag of the runtime is up |
| `await` | in the wait of `stopInterruptWorker`, at most 500 ms |
| `clean`, `dirty` | the worker is gone; the time is over and it is not |
| `done`, `late` | after `notifyRuntimeStop`, from either |

The INTC and the DMAC tables have the same code and are one table here. A list of
handlers is copied with the mutex held and worked off without it (`due[x]`), so a
handler removed, disabled or masked meanwhile is still called: `RemovedGoesQuiet` says how
far that goes. The order of handlers on a list has no effect on what is modelled, and they
are called in any. `notifyRuntimeStop` is in another translation unit, where the
handler tables are static copies of their own (they are `static` in a header): what it
clears of those is not what the worker reads, so `Clear` resets the masks and the
vsync registration only.

### NetSession

`g[m]` is the struct `Net g` of a machine, with the sets of *sessions* whose inputs it holds in
place of the inputs. Machine 1 hosts on a fixed port; machine 2 gets a new port per
session, so its address is the number of its session. Every call of the game thread is one
step: `Hello`, `Submit`, `Receive` (a datagram through `pump`), `Watchdog`, `BackToMenu` (after a
match) and the steps of the state sync, `Publish` to `Adopt`. Only the host's wait for DONE, up to
180 s long, is split (`offering`): datagrams arrive during it, the session may end, and the
next may start before the wait has noticed. The
buttons (`Start`, `Leave`) come from another thread, between two such calls. `Crash` leaves a process as `Blank`
starts it, without a good-bye, and the network still holds what was sent to it.

With `Early` a machine starts its next session before the last one is forgotten on the
other side and on the wire; without it the buttons are pressed once it is. `published` remembers
the frame that each session of the host was published at, and `before` how many of them were of
processes before this one. The frame counter of a process goes on from session to session; after a
crash it starts again (`Ahead`), so that two sessions may be published at frames of the same number. `blob`
is the state that the joiner has fetched; it outlives its session.

### Netplay

`used[p][q]` is the history of inputs of player `q` that peer `p` has simulated;
since the guest program is deterministic, that is the state of its simulation, a
snapshot is a copy of it and going back is restoring it. The frame number is its
length.

| `pc` | Code |
|---|---|
| `gate` | the guest is parked at the frame boundary and `netAtBoundary` decides: `NextFrame` (lockstep), `Resimulate`, `StartStall`, `RollBack`, `GoOn` |
| `stall` | in the wait loop of `netAtBoundary`: `KeepWaiting`, `RollBack`, `GoOn`, `StallTimeout` |
| `submit` | before `ps2NetSubmitLocal` for the own port |
| `read` | before `ps2NetGetInput` for the other: `ReadKnown`, `ReadGuess`, `ReadTimeout` |

A datagram has no sequence number, only the frames it carries, so the network is
a set: any order. `Lose` and the second disjunct of `Receive` are loss
and repetition, at most `MaxFaults` of them. Two abstractions of data: a guess looks for the newest known
input at most 64 frames back, and inputs more than 600 frames old are erased; in
the model nothing is that old. How a session begins and ends is `NetSession`'s; here the model
begins connected, and synchronised if it rolls back. The checksums, the match settings and
the simulated lag are not modelled. The code rolls back only where it can step the guest
frame by frame; how it parks the guest at the gate is not part of the model, one host
thread per peer does everything.

## Runs

`tlc -config X.cfg M` in this directory repeats a run. `CHECK_DEADLOCK FALSE` is
in every cfg because all these systems may really stop: threads end, a runtime
is stopped, two threads may wait for each other, the bounded number of frames, alarms or
sessions is used up.

| Run | Instance | Shows |
|---|---|---|
| `GuestScheduler` | 3 threads, quantum 1, scopes nested 2 deep, exit handlers may block, main may exit | guest code is serialised by the lock; only the token holder is outside a wait; the token is on a runnable thread, is never lost on the way to sleep and passes over nobody; `GuestToken` is implemented |
| `GuestSchedulerLive` | 2 threads, quantum 2, fair, both flags off | whoever waits for the token gets it; a stop ends every thread; the token is not left on an ended thread |
| `EEThreadsEnd` | 2 threads, counts to 2, fair, disciplined | a terminated worker becomes dormant wherever it is parked |
| `EESema` | 2 threads and a handler, 1 semaphore, parameters -1, 0, 2, counts to 1 | the waiters counter is exact under all four ways to end a wait; a ready waiter or sleeper wakes; the record says truly who waits and (outside the named windows) who is suspended; no release is left for a later wait; counting semaphores are implemented |
| `EEEventFlag` | 2 threads and a handler, 1 flag of 2 bits, 3 patterns with the three ways to clear | a flag without `EA_MULTI` has one waiter at most; a ready waiter wakes; abstract event flags are implemented |
| `EEAlarm` | guest code, the handler and a stop; 3 alarms of 0 or 2 ticks, 4 instants, fair | the worker does not sleep past an alarm; every alarm leaves the table; timers are implemented |
| `EEInterrupts` | a guest thread, the main thread, 2 possible workers, 2 vblank causes, 1 DMA cause, 1 handler, 2 ticks to catch up, fair; the main thread or the worker stops | one worker; quiet after a stop that saw it end; the worker ends even if it stops itself; vblanks arrive; a removed handler is not called for ever |
| `NetSession` | 2 sessions of each machine, with and without sync, 1 datagram lost or repeated, 1 crash, fair | nothing is inherited; inputs are of the current session; a synchronised host is right about the joiner; the machines meet, the sync ends, a vanished peer is dropped |
| `NetplayLockstep` | delay 1, redundancy 2, 3 frames, 1 fault, fair | the same inputs on both sides; every wait ends without a timeout |
| `NetplayRollback` | delay 0, redundancy 4, window 2, 3 frames, datagrams in any order or never | every wrong guess is accounted for; its snapshot exists and is of that frame; the oldest snapshot rests on real inputs; nothing older than the window changes |
| `NetplayDrop`, `NetSessionRejoin` | see Findings | a statement of the code's own comments that the code does not keep |

### Bounds and why they are enough

- *Threads.* Round-robin, passing over and wrap-around need three registered
  threads: one that holds, one that is due, one that could jump the queue. The
  kernel calls relate a caller and a target; two threads and the handler give two
  waiters and a signaller that is neither, and the proofs cover every number.
  Two worker threads are what it takes for a second worker beside the first, and for one
  that is started after the first has ended.
- *Quantum, depth.* What matters is whether a quantum is over; 1 and 2 give a
  loop with and without a step left. Depth 2 is a nested scope released as a whole.
- *Counts.* A wakeup or a suspend on top of another differs from the first only
  in that the counter does not reach zero; 2 covers it, 1 keeps the runs with
  objects small. `MaxCount` is a guard in `WakeupThread` and `SuspendThread`.
- *Semaphore parameters.* -1 and 0 are the normalised cases, 2 with 0 and 2 gives
  empty, full and in between.
- *Flags.* Two bits and the patterns "one of them", "any of both", "both" make waits that
  compete for a bit, that are satisfied in part, and that leave or clear what others want.
- *Alarms.* Three alarms are one that runs and two in the table; delays of 0 and 2 with one
  instant between them make alarms due at once, at the same time and out of the order
  of their ids. Ids are not used again; the counter of the code wraps after 2^31.
- *Interrupts.* Two causes per tick, one of them masked at will, are what an order of causes
  needs. One handler is enough for what a removal leaves behind; `kMaxCatchupTicks` is 2
  where the code has 4.
- *Sessions.* Two sessions are the one that leaves something behind and the one that could
  inherit it; one fault and one crash fall at every point of both. Two frames (`MaxFrame`) are enough for a
  session that is published later than the last, at the same number or, after a crash, at an earlier one.
- *Frames.* A window of 2 and 3 frames has a frame that must be rolled back
  within the window, one that is about to leave it, and a stall. A longer delay
  only adds frames that are neutral for both. In the rollback run a lost datagram
  is one that never arrives, and each datagram carries all frames: then the poll
  that both stalls and rolls back cannot happen (that is `NetplayDrop`'s case).
- *Pads.* The first player never presses what the other guesses at first, so the
  first guess about it is wrong; the second does either.
- *Order numbers* in the scheduler grow once per thread, so that nothing there needs a
  bound of its own. In `Netplay`, `LastFrame` is the guard of `NextFrame` and `RunFrame`.

### Fairness and what justifies it

- A host thread that can run does (weak). Timed waits run out every 250 ms, so a
  parked kernel wait looks at its predicate even if it is not notified; a thread
  in `schedYield`'s untimed wait is only sure to wake when notified.
- `std::mutex` does not starve a waiter for ever, and guest code yields, blocks or
  returns after finitely many branches because `dispatchGuestBranch` counts them
  (strong). After a stop request the same function makes it return. An exit
  handler has a limit of steps (`kRpcInvokeMaxSteps`).
- In `EEThreads` that the token comes round is assumed; `EveryWaiterRuns` of
  `GuestSchedulerLive` is why. That a step of the guest program ends is the
  program's promise, not the runtime's.
- In `Netplay` both host threads run, and a datagram that is not lost arrives.
  Timeouts are not fair: nothing needs them to happen. `StallHeals` is checked with
  delay 1, redundancy 2 and one fault. A peer that waits sends nothing, and the second player
  reads the other's input before it submits its own: min(`Redundancy`, 2 * `Delay` + 1)
  losses in a row are enough for both to wait until they time out, without a delay a single one. (TLC finds
  that wait at delay 0 with one loss whatever the redundancy, and at delay 1 with three but not with two
  once the redundancy is more than two.)
- In `EEAlarm` time passes, the worker is scheduled and calls end. In `EEInterrupts` the same
  for every thread inside a call and for the worker; that a handler returns is the
  program's promise, with the step limit of `kRpcInvokeMaxSteps` behind it. Guest code is
  never obliged to call anything.
- In `NetSession` the game thread runs a frame again and again, a socket is drained of
  each kind of datagram, and the host's wait ends after 180 s without an answer only if there is
  none (`Silent`). A joiner whose host does not listen gives up (the fifth fetch fails, `ps2_runtime.cpp` 7014).
  No button has to be pressed, and a machine need not crash or be restarted.
- `DisciplinedSpec` restricts the calls, not the scheduling: only the main thread
  terminates others, it is not terminated itself, and nobody starts a thread that
  still runs. The code survives nothing weaker (see the end of Findings).

## Proofs

`tlapm X_proofs.tla` checks them. Assumptions are the named ASSUMEs on the
constants only; TLC evaluates them in the runs.

- **Scheduler** (any set of threads, quantum, nesting). `SchedInv` = `TypeOK`,
  `LockInv` (where a thread stands says whether it owns the mutex and that it has
  something to take back), `TokenInv`. `OnlyCurrentRuns` alone is not inductive: an
  exit handler that blocks comes back into the round-robin, so `Holding` speaks of
  every runnable thread and `Membership` says who must be runnable. `HolderRunnable`
  and `NoLostHandover` are carried with them, because a handover wakes the right
  thread only if the holder is not asleep before it. `ExitInv` adds what is true
  where exit handlers do not block, for `TidyExit`. `RoundRobin` rests on what
  `PickNext` returns (`PickIsCandidate`, `PickSkipsNobody`), and that on a set of
  naturals having a least member, which `NatMin` gets from the well-foundedness of
  finite sets. `SchedulerImplementsToken` maps every step to a step of `GuestToken`
  or a stutter.
- **Thread records** (any set of threads, any `MaxCount`). `ThreadInv` = `TypeOK`,
  `TargetInv`, `WaitInv`, `NoStaleRelease`, `SuspendInv`, `SleepInv`. `WaitShownTruly`
  needs that a thread that has not begun has no wait type; `SuspendShownElsewhere`
  that the main thread, whose loop does not look at its record, still shows its
  suspension there; `ReadySleeperWakes` that a sleeper without a wait type has
  something to see.
- **Semaphores.** `SemaInv` = `SemaTypeOK`, `HandleInv` (a call has a pointer exactly
  while it is in one), `LimitInv`, `CountInv` (the counter is the cardinality of the
  parked threads, which are finitely many even if `Thread` is not), `WaiterInv`. It is
  proved together with `ThreadInv`, each preserved with the other's help, and gives
  `KernelImplementsSemaphores`.
- **Event flags** (any flags, bits and patterns). `FlagInv` = `FlagTypeOK`, `HandleInv`, `CountInv`
  and `OneWaiter`, again with `ThreadInv`. `OneWaiter` follows from `CountInv`: a wait on a flag
  without `EA_MULTI` is admitted only at counter 0, and an exact counter of 0 means nobody is parked
  (`AdmitsNobodyElse`). That a pattern is not empty is an assumption on `Want`: the code
  refuses an empty one first (`KE_EVF_ILPAT`).
- **Alarms** (any callers, delays and bounds). `AlarmInv` = `TypeOK`, `IdInv` (what is in the table
  or runs was given out), `NoOversleep`, `CancelledStaysQuiet`. `NoOversleep` is inductive because a
  caller between its change and its notification counts as a notification to come.
  `AlarmsImplementTimers` uses that the worker takes the earliest alarm and looks again after every
  wait.
- **Interrupts** (any threads, causes, handlers). `InterruptInv` = `TypeOK`, `PlaceInv` (which places
  of `pc` belong to whom), `StopInv` (whoever stops the worker has raised the runtime's stop flag), `OneWorker` and
  `QuietAfterStop`. `StopInv` is why a worker that is started after a stop leaves its loop before its first tick.
- **Sessions** (any number of sessions, frames, faults, crashes). `WireInv` says what may be on its way and to
  whom; `NetInv` adds `TypeOK`, `NoResidue`, `OneMatch` and three facts about the state sync: the frames of what one process
  publishes grow (`PubInv`), an offer in flight and a fetched state name the frame of their session (`OfferInv`), and the
  empty offer of a host whose session was replaced while it waits leads nowhere (`ZeroInv`). `SyncedInv` and `DoneInv` say
  what a DONE in flight and a synchronised host tell of the joiner: it is on a state that is `Shared`. A state that was fetched
  in an earlier session of the same process cannot have the number that is offered now, because of `PubInv`; one of
  an earlier process can, and `HostIsSyncedTruly` says so. One hypothesis is needed, `~Early`: sessions do not overlap on
  the wire. A datagram does not name its session, so nothing in the protocol could tell.
- **Netplay** (any inputs, window, redundancy, length, losses and repetitions). Two
  invariants, each in parts.
  - `NetInv` of `Netplay_proofs` holds in every session, also after a peer has given up. A sampled frame is
    never sampled again (`LocalInv`), so what is on the wire (`WireInv`) and what was received (`RemoteInv`,
    theorem `ReceivedWasPressed`) is what was pressed. The proofs speak of `Front`, the frame after the newest that
    a peer has begun: a rollback lowers `Frame` and leaves `Front` where it was. Snapshots of the past are prefixes of what
    was simulated, and those of the last `Window` frames before `Front` are all there (`RingInv`). That is
    enough for `ConfirmedStays` (`RollbackWithinWindow`).
  - `Rolling(p)` is what a guessing peer relies on: what it knows comes before what it does not
    (`Ordered`); a guess written down is of an unknown frame of the window (`Guessed`); the rollback due is to a known
    frame of the window (`DueInWindow`); a frame run without an input has its guess (`Unknown`); and what it simulated is real, a
    guess, or about to be rolled back (`Accounted`). `Ordered` is the part that matters: if a peer has
    to wait, its oldest guess is as old as the window, hence older than all it knows, hence no
    rollback is due and the poll that says "wait" loses nothing (`StalledIs`).
  - `Ordered` is kept only if no datagram leaves a gap: a frame that it repeats no more and that has not
    arrived (`Gapless`). Under `[]Gapless` and equal delays `GuessesAccounted`, `SnapshotThere`, `ConfirmedIsReal` and
    `ConfirmedAgree` hold, for each peer until it gives up. `RedundancyHeals` shows when the code makes sure of that
    itself: if `Redundancy >= 2 * (Window + Delay)`, no network can make a gap before a peer gives up, since
    each peer stops at most a window after the first input it misses, and neither
    can be further ahead than that of what the other has sampled. `GuessesAreAccountedFor`,
    `SnapshotIsThere`, `ConfirmedWasPressed` and `RollbackAgrees` each state both: for ever under `[]Gapless`, and with that
    redundancy until a peer gives up.
    The bound is sharp: with one less TLC finds a gap (window 1, redundancy 1; window 2, redundancy 3). The constants of
    `NetplayRollback` meet it. `kRedundancy` is 8 and the default delay is 2, so
    the code is safe on any network with a window of up to 2 frames; the settings allow 30, and then it is
    the network that must not lose or delay eight datagrams in a row (`NetplayDrop` is what happens if it does).
  - In lockstep nothing is guessed, so `Rolling` needs no hypothesis about gaps, and `Accounted` says
    that the inputs used are real: `LockstepAgrees`. The hypothesis on the delays is needed: each side reads
    its delay from its own settings.

The type invariants, `WaitersCounted` of event flags and `CancelledStaysQuiet` are proved and not
in a run of their own. Only model-checked: the liveness properties (`StopEndsAll`, `EveryWaiterRuns`,
`TerminatedEnds`, `EveryAlarmRuns`, `WorkerEnds`, `VBlankReachesGuest`, `RemovedGoesQuiet`,
`HandshakeCompletes`, `SyncCompletes`, `VanishedPeerDropped`, `StallHeals`), since the prover handles
neither fairness nor ENABLED. Every safety property of a passing run is a theorem.

## Findings

| Run | What the code says | What it does |
|---|---|---|
| `NetplayDrop` | a wrong guess is rolled back (`ps2_netplay.h` 51-52) | the answer of a poll that also asks to wait is overwritten by the wait loop; takes more frames late or lost than a datagram repeats, and cannot happen with a redundancy of twice the window and the delay (`RedundancyHeals`) |
| `NetSessionRejoin` | the watchdog drops a session whose peer has vanished (`ps2_netplay.cpp` 919-920) | a joiner that crashed and joins again within five seconds sends from a new port; its datagrams refresh `lastRx` (312) and do not change the address the host sends to (320-322): the host keeps a session with a peer that is gone |

Met while modelling, without a run:

- `HandlersMayBlock`: a thread that blocks in an exit handler registers again after its
  `schedUnregister`; its slot stays `present`, and the watchdog of `ps2_runtime.cpp` 5641-5642 never finds
  it dead. `GuestSchedulerLive` with this flag set shows it.
- The exit handlers run after `schedUnregister`, so they are serialised by the lock and not by
  the token (`OnlyCurrentRuns` says so); `ExitThread` on the main thread skips `schedUnregister` and leaves
  the token with it (`TidyExit` excludes this).
- A thread suspended before its first step overwrites its status with `THS_RUN` (`Thread.cpp` 452),
  where the game tests for a suspended status before it resumes (801-807): the window that
  `SuspendShownElsewhere` names.
- `TerminateThread` waits until its target has unwound (`Thread.cpp` 788-795): two threads
  that terminate each other wait for ever. `StartThread` of a running thread joins it with the token
  held, which ends only if that thread needs no token to end. `Disciplined` excludes both.
- `CancelWakeupThread` between a wakeup and the sleeper's look at it leaves a thread that shows READY
  and sleeps (`ReadySleeperWakes` is stated without it, `MayCancel`).
- The joiner keeps what it has fetched, and the number it was offered under, in statics that outlive the session
  (`ps2_runtime.cpp` 7007-7010), and fetches again only if the number differs. If the host crashes between the fetch and
  the adoption and its next process publishes at a frame of the same number (from 300 on, 6963), the joiner adopts the
  old state, where `ps2_netplay.h` 58-60 says that it adopts the one the host publishes. TLC finds this
  when `HostSyncedTruly` is narrowed to `adopted = ses[Host]`. The number of bytes is compared only after a fetch.
- A Host button pressed while the game thread is still in the wait of the last session opens a session that
  `ps2_runtime.cpp` 7002 disconnects.
- The settings say "The HOST's choices apply to both players" (`ps2_settings_overlay.cpp` 1537-1539), but each side keeps its own
  input delay; with different ones the first frames differ.

## Not modelled

- In the scheduler: fibers (`PS2X_FIBERS=1`), and the bodies of INTC, DMAC and alarm
  handlers, which take neither token nor lock.
- In the kernel: ids and stacks (create, delete), priorities (stored, not used); nested
  or parallel handlers; the wrap of alarm ids.
- In interrupts: ticks that the frame stepper and not the worker makes, and the part of the
  vsync state that a snapshot saves; the callback of `sceGsSyncV`; a dispatch inside a handler.
- In netplay: a button that interrupts a call of the game thread half-way; checksums and
  their comparison; match settings; the simulated lag; what a snapshot consists of.
- Lock order: each critical section is one step, so a deadlock of the locks inside
  one cannot be seen here (step 10 of the plan).
- The rest of the inventory: sequential decoding, arithmetic, device I/O, generated
  code or a user interface; `PROJECT.json` gives the reason for each.

By lines this leaves out almost everything. The implementation has over half a million lines,
of which the largest part is generated (the recompiled IOP modules, each function of a
device driver as a C++ function), the next the renderers and the vector units: data and
arithmetic without a protocol of their own. The models are of the few thousand lines in which threads,
machines and time meet, and stay small beside the rest however far they are extended.
