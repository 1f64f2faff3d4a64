------------------------------ MODULE EEAlarm ------------------------------
(***************************************************************************)
(* The alarms of the EE kernel emulation (SetAlarm and CancelAlarm in      *)
(* Sync.cpp, the alarm worker in Helpers/Runtime.h, notifyRuntimeStop in   *)
(* Lifecycle.cpp).  The table g_alarms is shared, under g_alarm_mutex, by  *)
(* guest code, interrupt handlers, the thread that stops the program and   *)
(* one worker, which the first SetAlarm starts and nothing ends.  Every    *)
(* call changes the table in one critical section and notifies the worker  *)
(* in a later step, after the mutex is released.  The worker waits on      *)
(* g_alarm_cv without a limit while the table is empty and until the       *)
(* earliest due time otherwise; it runs a handler outside the mutex, and   *)
(* the handler may itself set and cancel alarms.                           *)
(*                                                                         *)
(* worker is where the worker stands:                                      *)
(*   none   not started               look  about to look at the table     *)
(*   wait   waits to be notified      timed waits until the time `until`   *)
(*   run    runs the handler of `current`                                  *)
(* pc[c] is where caller c stands in a call:                               *)
(*   idle   in none                   set   has read the clock             *)
(*   start  has entered its alarm     notify  is about to notify           *)
(* Ids are not used again: the counter wraps after 2^31 alarms.            *)
(***************************************************************************)
EXTENDS Integers, FiniteSets

CONSTANTS
    Caller,     \* who calls: guest code, an interrupt handler, Handler, Stopper
    Handler,    \* the alarm handler, on the worker
    Stopper,    \* the host thread that stops the program
    Ticks,      \* the delays asked for
    MaxAlarm,   \* bound on the alarms set
    MaxTime,    \* bound on the clock
    None        \* no alarm

ASSUME AlarmAssumption ==
    /\ Handler \in Caller /\ Stopper \in Caller /\ Handler # Stopper
    /\ Ticks \subseteq Nat
    /\ MaxAlarm \in Nat /\ MaxTime \in Nat
    /\ None \notin Nat

Alarm == 1 .. MaxAlarm
Time == 0 .. MaxTime

VARIABLES
    now,        \* steady_clock::now()
    pc,         \* see above
    wish,       \* the due time that a SetAlarm has computed, 0 outside
    nextId,     \* g_nextAlarmId
    table,      \* the keys of g_alarms
    due,        \* AlarmInfo::dueAt
    worker,     \* see above
    until,      \* the limit of the worker's timed wait, 0 outside
    current,    \* readyAlarm, while its handler runs
    notified,   \* the waiting worker has been notified
    cancelled   \* the alarms whose CancelAlarm answered KE_OK

callVars == <<pc, wish>>
tableVars == <<nextId, table, due, cancelled>>
workerVars == <<worker, until, current>>
vars == <<now, callVars, tableVars, workerVars, notified>>

TypeOK ==
    /\ now \in Time
    /\ pc \in [Caller -> {"idle", "set", "start", "notify"}]
    /\ wish \in [Caller -> Time]
    /\ nextId \in 1 .. MaxAlarm + 1
    /\ table \subseteq Alarm
    /\ due \in [Alarm -> Time]
    /\ worker \in {"none", "look", "wait", "timed", "run"}
    /\ until \in Time
    /\ current \in IF worker = "run" THEN Alarm ELSE {None}
    /\ notified \in BOOLEAN
    /\ cancelled \subseteq Alarm

Init ==
    /\ now = 0
    /\ pc = [c \in Caller |-> "idle"]
    /\ wish = [c \in Caller |-> 0]
    /\ nextId = 1
    /\ table = {}
    /\ due = [i \in Alarm |-> 0]
    /\ worker = "none"
    /\ until = 0
    /\ current = None
    /\ notified = FALSE
    /\ cancelled = {}
-----------------------------------------------------------------------------
(* Calls.                                                                  *)

Goto(c, l) == pc' = [pc EXCEPT ![c] = l]

(* The alarm handler calls while it runs. *)
MayCall(c) == pc[c] = "idle" /\ (c = Handler => worker = "run")

(* alarmTicksToDuration: at least one tick. *)
Duration(k) == IF k = 0 THEN 1 ELSE k

Advance ==
    /\ now < MaxTime
    /\ now' = now + 1
    /\ UNCHANGED <<callVars, tableVars, workerVars, notified>>

(* SetAlarm, iSetAlarm: the due time is computed before the mutex is taken. *)
SetAlarm(c, k) ==
    /\ MayCall(c) /\ c # Stopper
    /\ now + Duration(k) <= MaxTime
    /\ nextId + Cardinality({d \in Caller : pc[d] = "set"}) <= MaxAlarm
    /\ wish' = [wish EXCEPT ![c] = now + Duration(k)]
    /\ Goto(c, "set")
    /\ UNCHANGED <<now, tableVars, workerVars, notified>>

Enter(c) ==
    /\ pc[c] = "set" /\ nextId <= MaxAlarm
    /\ table' = table \cup {nextId}
    /\ due' = [due EXCEPT ![nextId] = wish[c]]
    /\ nextId' = nextId + 1
    /\ wish' = [wish EXCEPT ![c] = 0]
    /\ Goto(c, "start")
    /\ UNCHANGED <<now, workerVars, notified, cancelled>>

(* Bug: the worker is notified only if it is the first alarm. *)
EnsureWorkerFirst(c) ==
    /\ pc[c] = "start"
    /\ worker' = IF worker = "none" THEN "look" ELSE worker
    /\ Goto(c, IF \E i \in table : i # nextId - 1 THEN "idle" ELSE "notify")
    /\ UNCHANGED <<now, wish, tableVars, until, current, notified>>

(* ensureAlarmWorkerRunning (call_once). *)
EnsureWorker(c) ==
    /\ pc[c] = "start"
    /\ worker' = IF worker = "none" THEN "look" ELSE worker
    /\ Goto(c, "notify")
    /\ UNCHANGED <<now, wish, tableVars, until, current, notified>>

(* CancelAlarm, ReleaseAlarm and their i-variants.  For an alarm that is   *)
(* not in the table they answer KE_ERROR and change nothing.               *)
CancelAlarm(c, i) ==
    /\ MayCall(c) /\ c # Stopper
    /\ i \in table
    /\ table' = table \ {i}
    /\ cancelled' = cancelled \cup {i}
    /\ Goto(c, "notify")
    /\ UNCHANGED <<now, wish, nextId, due, workerVars, notified>>

(* notifyRuntimeStop, as far as it is about alarms. *)
Stop(c) ==
    /\ MayCall(c) /\ c = Stopper
    /\ table' = {}
    /\ Goto(c, "notify")
    /\ UNCHANGED <<now, wish, nextId, due, workerVars, notified, cancelled>>

(* notify_all reaches a worker that waits. *)
Notify(c) ==
    /\ pc[c] = "notify"
    /\ notified' = (notified \/ worker \in {"wait", "timed"})
    /\ Goto(c, "idle")
    /\ UNCHANGED <<now, wish, tableVars, workerVars>>
-----------------------------------------------------------------------------
(* The worker.                                                             *)

(* Bug: any alarm is taken for the earliest. *)
AnyAlarm(i) == i \in table

(* min_element over the due times. *)
Earliest(i) == i \in table /\ \A j \in table : due[i] <= due[j]

WaitIdle ==
    /\ worker = "look" /\ table = {}
    /\ worker' = "wait"
    /\ UNCHANGED <<now, callVars, tableVars, until, current, notified>>

WaitUntilDue(i) ==
    /\ worker = "look" /\ Earliest(i) /\ due[i] > now
    /\ worker' = "timed"
    /\ until' = due[i]
    /\ UNCHANGED <<now, callVars, tableVars, current, notified>>

(* Bug: a timed wait ends only when it is notified. *)
AwakeNotified ==
    /\ worker \in {"wait", "timed"} /\ notified
    /\ worker' = "look"
    /\ notified' = FALSE
    /\ until' = 0
    /\ UNCHANGED <<now, callVars, tableVars, current>>

(* A wait ends, and the worker looks again. *)
Awake ==
    /\ \/ worker = "wait" /\ notified
       \/ worker = "timed" /\ (notified \/ now >= until)
    /\ worker' = "look"
    /\ notified' = FALSE
    /\ until' = 0
    /\ UNCHANGED <<now, callVars, tableVars, current>>

(* The alarm leaves the table; the handler runs once the mutex is released. *)
Run(i) ==
    /\ worker = "look" /\ Earliest(i) /\ due[i] <= now
    /\ table' = table \ {i}
    /\ worker' = "run"
    /\ current' = i
    /\ UNCHANGED <<now, callVars, nextId, due, cancelled, until, notified>>

(* The handler returned, or threw. *)
HandlerReturns ==
    /\ worker = "run" /\ pc[Handler] = "idle"
    /\ worker' = "look"
    /\ current' = None
    /\ UNCHANGED <<now, callVars, tableVars, until, notified>>
-----------------------------------------------------------------------------
CallStep(c) == Enter(c) \/ EnsureWorker(c) \/ Notify(c)

WorkerStep ==
    \/ WaitIdle \/ Awake \/ HandlerReturns
    \/ \E i \in Alarm : WaitUntilDue(i) \/ Run(i)

Next ==
    \/ Advance \/ WorkerStep
    \/ \E c \in Caller : CallStep(c) \/ Stop(c)
    \/ \E c \in Caller, k \in Ticks : SetAlarm(c, k)
    \/ \E c \in Caller, i \in Alarm : CancelAlarm(c, i)

Spec == Init /\ [][Next]_vars

(* Calls end, handlers return, time passes, and the worker is scheduled. *)
FairSpec ==
    /\ Spec
    /\ WF_vars(Advance)
    /\ WF_vars(WorkerStep)
    /\ \A c \in Caller : WF_vars(CallStep(c))
-----------------------------------------------------------------------------
(* Properties.                                                             *)

(* Some call has changed the table and has not notified yet. *)
NotifyPending == \E c \in Caller : pc[c] \in {"start", "notify"}

(* The worker never sleeps past an alarm: when it waits without a limit    *)
(* the table is empty, and when it waits until a time nothing in the table *)
(* is due before; otherwise it has been notified, or the call that changed *)
(* the table is about to do so (SetAlarm notifies after g_alarm_mutex is   *)
(* released).  A worker that is not started yet is about to be.            *)
NoOversleep ==
    /\ worker = "wait" => table = {} \/ notified \/ NotifyPending
    /\ worker = "timed" =>
          notified \/ NotifyPending \/ \A i \in table : until <= due[i]
    /\ worker = "none" => table = {} \/ \E c \in Caller : pc[c] = "start"

(* A CancelAlarm that answered KE_OK is kept: the handler neither runs nor *)
(* will run.  (One that answers KE_ERROR may still be followed by the      *)
(* handler's first instruction: the worker has taken the alarm already.)   *)
CancelledStaysQuiet == cancelled \cap (table \cup {current}) = {}

(* Every alarm leaves the table: it runs, or it is cancelled or dropped. *)
EveryAlarmRuns == \A i \in Alarm : (i \in table) ~> (i \notin table)

(* The alarms implement the abstract timers: at most once, in order, never *)
(* early, one handler at a time, not after a cancel.                       *)
Fate(i) ==
    IF i \in table THEN "armed"
    ELSE IF i = current THEN "running"
    ELSE IF i \in cancelled THEN "cancelled"
    ELSE IF i < nextId THEN "over" ELSE "unset"

Abstract == INSTANCE Timers WITH timer <- [i \in Alarm |-> Fate(i)]

ImplementsTimers == Abstract!Spec
=============================================================================
