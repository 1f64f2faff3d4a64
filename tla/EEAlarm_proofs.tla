--------------------------- MODULE EEAlarm_proofs ---------------------------
(***************************************************************************)
(* Proofs about the alarms, for every set of callers, every delay and      *)
(* every number of alarms.  The inductive invariant is AlarmInv: the ids   *)
(* in use are below g_nextAlarmId, the alarm that runs has left the table, *)
(* and the two safety properties.                                          *)
(***************************************************************************)
EXTENDS EEAlarm, TLAPS

(* The ids in use have been given out, and the running alarm is gone. *)
IdInv ==
    /\ \A i \in table \cup cancelled : i < nextId
    /\ current # None => current < nextId
    /\ current \notin table

AlarmInv == TypeOK /\ IdInv /\ CancelledStaysQuiet /\ NoOversleep
-----------------------------------------------------------------------------
(* The initial state satisfies the invariant. *)
LEMMA AlarmInvInit == Init => AlarmInv
<1> SUFFICES ASSUME Init PROVE AlarmInv
  OBVIOUS
<1> USE AlarmAssumption DEF Init, Alarm, Time
<1>1. current \in IF worker = "run" THEN Alarm ELSE {None}
  OBVIOUS
<1>2. TypeOK
  <2>1. notified \in BOOLEAN
    OBVIOUS
  <2>2. now \in Time /\ nextId \in 1 .. MaxAlarm + 1 /\ until \in Time
    OBVIOUS
  <2>3. pc \in [Caller -> {"idle", "set", "start", "notify"}]
    OBVIOUS
  <2>4. wish \in [Caller -> Time] /\ due \in [Alarm -> Time]
    OBVIOUS
  <2> QED
    BY <1>1, <2>1, <2>2, <2>3, <2>4 DEF TypeOK
<1>3. IdInv /\ CancelledStaysQuiet /\ NoOversleep
  BY DEF IdInv, CancelledStaysQuiet, NoOversleep
<1> QED
  BY <1>2, <1>3 DEF AlarmInv

(* Every step keeps the types. *)
LEMMA AlarmTypeStep == TypeOK /\ [Next]_vars => TypeOK'
<1> SUFFICES ASSUME TypeOK, [Next]_vars PROVE TypeOK'
  OBVIOUS
<1> USE AlarmAssumption
    DEF TypeOK, Alarm, Time, Goto, callVars, tableVars, workerVars
<1>1. CASE Advance
  BY <1>1 DEF Advance
<1>2. ASSUME NEW c \in Caller, NEW k \in Ticks, SetAlarm(c, k) PROVE TypeOK'
  <2>1. now + Duration(k) \in Time
    BY <1>2 DEF SetAlarm, Duration
  <2> QED
    BY <1>2, <2>1 DEF SetAlarm
<1>3. ASSUME NEW c \in Caller, Enter(c) PROVE TypeOK'
  BY <1>3 DEF Enter
<1>4. ASSUME NEW c \in Caller, EnsureWorker(c) PROVE TypeOK'
  BY <1>4 DEF EnsureWorker
<1>5. ASSUME NEW c \in Caller, Notify(c) PROVE TypeOK'
  BY <1>5 DEF Notify
<1>6. ASSUME NEW c \in Caller, Stop(c) PROVE TypeOK'
  BY <1>6 DEF Stop
<1>7. ASSUME NEW c \in Caller, NEW i \in Alarm, CancelAlarm(c, i) PROVE TypeOK'
  BY <1>7 DEF CancelAlarm
<1>8. CASE WaitIdle \/ Awake \/ HandlerReturns
  <2>1. CASE WaitIdle
    BY <2>1 DEF WaitIdle
  <2>2. CASE Awake
    <3>1. worker \in {"wait", "timed"}
      BY <2>2, Zenon DEF Awake
    <3>2. worker' = "look" /\ notified' = FALSE /\ until' = 0
          /\ UNCHANGED <<now, callVars, tableVars, current>>
      BY <2>2, Zenon DEF Awake
    <3>3. current' \in IF worker' = "run" THEN Alarm ELSE {None}
      BY <3>1, <3>2
    <3>4. notified' \in BOOLEAN
      BY <3>2
    <3> QED
      BY <3>2, <3>3, <3>4
  <2>3. CASE HandlerReturns
    BY <2>3 DEF HandlerReturns
  <2> QED
    BY <1>8, <2>1, <2>2, <2>3
<1>9. ASSUME NEW i \in Alarm, WaitUntilDue(i) \/ Run(i) PROVE TypeOK'
  BY <1>9 DEF WaitUntilDue, Run
<1>10. CASE UNCHANGED vars
  BY <1>10 DEF vars
<1> QED
  BY <1>1, <1>2, <1>3, <1>4, <1>5, <1>6, <1>7, <1>8, <1>9, <1>10
  DEF Next, CallStep, WorkerStep

(* Every step keeps the ids apart, and a cancelled alarm quiet. *)
LEMMA IdStep ==
    TypeOK /\ IdInv /\ CancelledStaysQuiet /\ [Next]_vars => IdInv' /\ CancelledStaysQuiet'
<1> SUFFICES ASSUME TypeOK, IdInv, CancelledStaysQuiet, [Next]_vars
             PROVE  IdInv' /\ CancelledStaysQuiet'
  OBVIOUS
<1> USE AlarmAssumption
    DEF TypeOK, IdInv, CancelledStaysQuiet, Alarm, tableVars, workerVars
<1>1. CASE Advance
  BY <1>1 DEF Advance
<1>2. ASSUME NEW c \in Caller, NEW k \in Ticks, SetAlarm(c, k)
      PROVE  IdInv' /\ CancelledStaysQuiet'
  BY <1>2 DEF SetAlarm
<1>3. ASSUME NEW c \in Caller, Enter(c) PROVE IdInv' /\ CancelledStaysQuiet'
  <2>1. nextId \notin table \cup cancelled \cup {current}
    OBVIOUS
  <2> QED
    BY <1>3, <2>1 DEF Enter
<1>4. ASSUME NEW c \in Caller, EnsureWorker(c) \/ Notify(c) \/ Stop(c)
      PROVE  IdInv' /\ CancelledStaysQuiet'
  BY <1>4 DEF EnsureWorker, Notify, Stop
<1>5. ASSUME NEW c \in Caller, NEW i \in Alarm, CancelAlarm(c, i)
      PROVE  IdInv' /\ CancelledStaysQuiet'
  BY <1>5 DEF CancelAlarm
<1>6. CASE WaitIdle \/ Awake \/ HandlerReturns
  <2>1. CASE WaitIdle
    BY <2>1 DEF WaitIdle
  <2>2. CASE Awake
    <3>1. UNCHANGED <<nextId, table, cancelled, current>>
      BY <2>2, Zenon DEF Awake
    <3> QED
      BY <3>1
  <2>3. CASE HandlerReturns
    <3>1. None \notin table \cup cancelled
      <4>1. None \notin Alarm
        OBVIOUS
      <4>2. table \subseteq Alarm /\ cancelled \subseteq Alarm
        OBVIOUS
      <4> QED
        BY <4>1, <4>2
    <3>2. current' = None /\ UNCHANGED <<nextId, table, cancelled>>
      BY <2>3 DEF HandlerReturns
    <3>3. CancelledStaysQuiet'
      BY <3>1, <3>2
    <3>4. IdInv'
      BY <3>1, <3>2
    <3> QED
      BY <3>3, <3>4
  <2> QED
    BY <1>6, <2>1, <2>2, <2>3
<1>7. ASSUME NEW i \in Alarm, WaitUntilDue(i) \/ Run(i)
      PROVE  IdInv' /\ CancelledStaysQuiet'
  BY <1>7 DEF WaitUntilDue, Run, Earliest
<1>8. CASE UNCHANGED vars
  BY <1>8 DEF vars
<1> QED
  BY <1>1, <1>2, <1>3, <1>4, <1>5, <1>6, <1>7, <1>8 DEF Next, CallStep, WorkerStep

(* Every step keeps the worker from sleeping past an alarm. *)
LEMMA OversleepStep == TypeOK /\ NoOversleep /\ [Next]_vars => NoOversleep'
<1> SUFFICES ASSUME TypeOK, NoOversleep, [Next]_vars PROVE NoOversleep'
  OBVIOUS
<1> USE AlarmAssumption
    DEF TypeOK, NoOversleep, NotifyPending, Alarm, Time, Goto, callVars, tableVars, workerVars
<1>1. CASE Advance
  BY <1>1 DEF Advance
<1>2. ASSUME NEW c \in Caller, NEW k \in Ticks, SetAlarm(c, k) PROVE NoOversleep'
  BY <1>2 DEF SetAlarm, MayCall
<1>3. ASSUME NEW c \in Caller, Enter(c) PROVE NoOversleep'
  <2>1. pc'[c] = "start"
    BY <1>3 DEF Enter
  <2> QED
    BY <1>3, <2>1 DEF Enter
<1>4. ASSUME NEW c \in Caller, EnsureWorker(c) PROVE NoOversleep'
  <2>1. pc'[c] = "notify" /\ worker' # "none"
    BY <1>4 DEF EnsureWorker
  <2> QED
    BY <1>4, <2>1 DEF EnsureWorker
<1>5. ASSUME NEW c \in Caller, Notify(c) PROVE NoOversleep'
  <2>1. worker' \in {"wait", "timed"} => notified'
    BY <1>5 DEF Notify
  <2>2. worker' = "none" => table' = {} \/ \E d \in Caller : pc'[d] = "start"
    BY <1>5 DEF Notify
  <2> QED
    BY <2>1, <2>2
<1>6. ASSUME NEW c \in Caller, Stop(c) PROVE NoOversleep'
  <2>1. pc'[c] = "notify" /\ table' = {}
    BY <1>6 DEF Stop
  <2> QED
    BY <2>1
<1>7. ASSUME NEW c \in Caller, NEW i \in Alarm, CancelAlarm(c, i) PROVE NoOversleep'
  <2>1. pc'[c] = "notify"
    BY <1>7 DEF CancelAlarm
  <2>2. worker' = "none" => table' = {} \/ \E d \in Caller : pc'[d] = "start"
    BY <1>7 DEF CancelAlarm, MayCall
  <2> QED
    BY <2>1, <2>2
<1>8. CASE WaitIdle \/ Awake \/ HandlerReturns
  BY <1>8 DEF WaitIdle, Awake, HandlerReturns
<1>9. ASSUME NEW i \in Alarm, WaitUntilDue(i) \/ Run(i) PROVE NoOversleep'
  BY <1>9 DEF WaitUntilDue, Run, Earliest
<1>10. CASE UNCHANGED vars
  BY <1>10 DEF vars
<1> QED
  BY <1>1, <1>2, <1>3, <1>4, <1>5, <1>6, <1>7, <1>8, <1>9, <1>10
  DEF Next, CallStep, WorkerStep

(* AlarmInv is an invariant of the alarms. *)
THEOREM AlarmInvariant == Spec => []AlarmInv
<1>1. AlarmInv /\ [Next]_vars => AlarmInv'
  BY AlarmTypeStep, IdStep, OversleepStep DEF AlarmInv
<1> QED
  BY <1>1, AlarmInvInit, PTL DEF Spec

(* Every variable keeps its type. *)
THEOREM AlarmTypes == Spec => []TypeOK
<1>1. AlarmInv => TypeOK
  BY DEF AlarmInv
<1> QED
  BY <1>1, AlarmInvariant, PTL

(* The worker never sleeps past an alarm. *)
THEOREM WorkerDoesNotOversleep == Spec => []NoOversleep
<1>1. AlarmInv => NoOversleep
  BY DEF AlarmInv
<1> QED
  BY <1>1, AlarmInvariant, PTL

(* A cancelled alarm never runs. *)
THEOREM CancelledIsQuiet == Spec => []CancelledStaysQuiet
<1>1. AlarmInv => CancelledStaysQuiet
  BY DEF AlarmInv
<1> QED
  BY <1>1, AlarmInvariant, PTL
-----------------------------------------------------------------------------
(* The alarms implement the abstract timers.                               *)

timers == [i \in Alarm |-> Fate(i)]

(* The alarms start as the timers do. *)
LEMMA TimersInit == Init => Abstract!Init
<1> SUFFICES ASSUME Init PROVE Abstract!Init
  OBVIOUS
<1> USE AlarmAssumption DEF Init, Alarm
<1>1. \A i \in Alarm : Fate(i) = "unset"
  BY DEF Fate
<1> QED
  BY <1>1 DEF Abstract!Init

(* Steps that touch neither the table nor the running alarm. *)
LEMMA FatesKept == UNCHANGED <<tableVars, current>> => timers' = timers
BY DEF timers, Fate, tableVars

(* One alarm changes its fate, from what it was to what it is. *)
LEMMA OneFate ==
    ASSUME NEW i \in Alarm, \A j \in Alarm \ {i} : Fate(j)' = Fate(j)
    PROVE  timers' = [timers EXCEPT ![i] = Fate(i)']
BY DEF timers

(* Every step of the alarms is a step of the timers, or none. *)
LEMMA TimersStep == AlarmInv /\ [Next]_vars => [Abstract!Next]_Abstract!vars
<1> SUFFICES ASSUME AlarmInv, [Next]_vars PROVE [Abstract!Next]_Abstract!vars
  OBVIOUS
<1> USE AlarmAssumption
<1>t. TypeOK /\ IdInv /\ CancelledStaysQuiet
  BY DEF AlarmInv
<1>a. \A i \in Alarm : timers[i] = Fate(i)
  BY DEF timers
<1>n. \A i \in Alarm : i # None
  BY DEF Alarm
<1>s. ASSUME UNCHANGED <<now, tableVars, current>> PROVE UNCHANGED Abstract!vars
  BY <1>s, FatesKept DEF Abstract!vars, tableVars, timers
<1>1. CASE Advance
  <2>1. timers' = timers
    BY <1>1, FatesKept DEF Advance, workerVars
  <2>2. Abstract!Advance
    BY <1>1, <2>1 DEF Advance, Abstract!Advance, tableVars, timers
  <2> QED
    BY <2>2 DEF Abstract!Next
<1>2. ASSUME NEW c \in Caller, NEW k \in Ticks, SetAlarm(c, k)
      PROVE  UNCHANGED Abstract!vars
  BY <1>2, <1>s DEF SetAlarm, workerVars
<1>3. ASSUME NEW c \in Caller, Enter(c) PROVE Abstract!Next
  <2>1. nextId \in Alarm /\ nextId \notin table \cup cancelled \cup {current}
    BY <1>3, <1>t DEF Enter, TypeOK, Alarm, IdInv
  <2>2. Fate(nextId) = "unset"
    BY <2>1, <1>t DEF Fate, TypeOK, Alarm
  <2>3. UNCHANGED <<current, cancelled, now>>
    BY <1>3 DEF Enter, workerVars
  <2>4. \A j \in Alarm : j \in table' <=> j \in table \/ j = nextId
    BY <1>3 DEF Enter
  <2>5. \A j \in Alarm : j < nextId' <=> j < nextId \/ j = nextId
    BY <1>3, <1>t DEF Enter, TypeOK, Alarm
  <2>6. \A j \in Alarm \ {nextId} : Fate(j)' = Fate(j)
    BY <2>3, <2>4, <2>5 DEF Fate
  <2>7. \A j \in Alarm : j = nextId => Fate(j)' = "armed"
    BY <2>4 DEF Fate
  <2>8. PICK j \in Alarm : j = nextId
    BY <2>1
  <2>9. timers' = [timers EXCEPT ![j] = "armed"]
    BY <2>6, <2>7, <2>8 DEF timers
  <2>10. wish[c] \in Time /\ due' = [due EXCEPT ![j] = wish[c]]
    BY <1>3, <1>t, <2>8 DEF Enter, TypeOK
  <2>11. Abstract!Arm(j, wish[c])
    BY <1>a, <2>2, <2>3, <2>8, <2>9, <2>10 DEF Abstract!Arm, Abstract!Becomes, timers
  <2> QED
    BY <2>10, <2>11 DEF Abstract!Next
<1>4. ASSUME NEW c \in Caller, EnsureWorker(c) \/ Notify(c) PROVE UNCHANGED Abstract!vars
  BY <1>4, <1>s DEF EnsureWorker, Notify, workerVars
<1>5. ASSUME NEW c \in Caller, NEW i \in Alarm, CancelAlarm(c, i) PROVE Abstract!Next
  <2>1. Fate(i) = "armed" /\ i \notin table' /\ i # current' /\ i \in cancelled'
    BY <1>5, <1>t DEF CancelAlarm, Fate, IdInv, workerVars
  <2>2. Fate(i)' = "cancelled"
    BY <2>1 DEF Fate
  <2>3. \A j \in Alarm \ {i} : Fate(j)' = Fate(j)
    BY <1>5 DEF CancelAlarm, Fate, workerVars
  <2>4. Abstract!Cancel(i)
    BY <1>5, <1>a, <2>1, <2>2, <2>3
    DEF CancelAlarm, Abstract!Cancel, Abstract!Becomes, timers
  <2> QED
    BY <2>4 DEF Abstract!Next
<1>6. ASSUME NEW c \in Caller, Stop(c) PROVE Abstract!Next
  <2>1. \A i \in Alarm : Fate(i)' = IF Fate(i) = "armed" THEN "over" ELSE Fate(i)
    <3> SUFFICES ASSUME NEW i \in Alarm
                 PROVE  Fate(i)' = IF Fate(i) = "armed" THEN "over" ELSE Fate(i)
      OBVIOUS
    <3>1. CASE i \in table
      <4>1. i # current /\ i \notin cancelled /\ i < nextId
        BY <3>1, <1>t DEF IdInv, CancelledStaysQuiet, TypeOK, Alarm
      <4> QED
        BY <3>1, <4>1, <1>6 DEF Stop, Fate, workerVars
    <3>2. CASE i \notin table
      BY <3>2, <1>6 DEF Stop, Fate, workerVars
    <3> QED
      BY <3>1, <3>2
  <2>2. Abstract!DropAll
    BY <1>6, <1>a, <2>1 DEF Stop, Abstract!DropAll, timers
  <2> QED
    BY <2>2 DEF Abstract!Next
<1>7. CASE WaitIdle \/ Awake
  BY <1>7, <1>s DEF WaitIdle, Awake
<1>8. CASE HandlerReturns
  <2>1. current \in Alarm /\ current \notin table /\ current \notin cancelled
        /\ current < nextId
    BY <1>8, <1>t DEF HandlerReturns, TypeOK, IdInv, CancelledStaysQuiet, Alarm
  <2>2. PICK i \in Alarm : i = current
    BY <2>1
  <2>3. Fate(i) = "running" /\ Fate(i)' = "over"
    BY <1>8, <1>n, <2>1, <2>2 DEF HandlerReturns, Fate, tableVars
  <2>4. \A j \in Alarm \ {i} : Fate(j)' = Fate(j)
    BY <1>8, <1>n, <2>2 DEF HandlerReturns, Fate, tableVars
  <2>5. Abstract!Finish(i)
    BY <1>8, <1>a, <2>3, <2>4
    DEF HandlerReturns, Abstract!Finish, Abstract!Becomes, timers, tableVars
  <2> QED
    BY <2>5 DEF Abstract!Next
<1>9. ASSUME NEW i \in Alarm, WaitUntilDue(i) PROVE UNCHANGED Abstract!vars
  BY <1>9, <1>s DEF WaitUntilDue
<1>10. ASSUME NEW i \in Alarm, Run(i) PROVE Abstract!Next
  <2>1. current = None /\ i \in table /\ due[i] <= now
    BY <1>10, <1>t DEF Run, Earliest, TypeOK
  <2>2. Fate(i) = "armed" /\ Fate(i)' = "running"
    BY <1>10, <2>1 DEF Run, Fate
  <2>3. \A j \in Alarm \ {i} : Fate(j)' = Fate(j)
    BY <1>10, <1>n, <2>1 DEF Run, Fate
  <2>4. \A j \in Alarm : Fate(j) # "running" /\ (Fate(j) = "armed" => due[i] <= due[j])
    BY <1>10, <1>n, <2>1 DEF Run, Earliest, Fate
  <2>5. Abstract!Run(i)
    BY <1>10, <1>a, <2>1, <2>2, <2>3, <2>4 DEF Run, Abstract!Run, Abstract!Becomes, timers
  <2> QED
    BY <2>5 DEF Abstract!Next
<1>11. CASE UNCHANGED vars
  BY <1>11, <1>s DEF vars, workerVars
<1> QED
  BY <1>1, <1>2, <1>3, <1>4, <1>5, <1>6, <1>7, <1>8, <1>9, <1>10, <1>11
  DEF Next, CallStep, WorkerStep

(* The alarms of the kernel implement the timers of Timers. *)
THEOREM AlarmsImplementTimers == Spec => ImplementsTimers
<1> QED
  BY TimersInit, TimersStep, AlarmInvariant, PTL DEF Spec, ImplementsTimers, Abstract!Spec
=============================================================================
