------------------------------- MODULE Timers -------------------------------
(***************************************************************************)
(* What the alarms of the EE kernel promise (SetAlarm, CancelAlarm and the *)
(* alarm worker): the handler of an alarm runs at most once, not before it *)
(* is due, one handler at a time, no alarm before another that is due      *)
(* earlier, and never once a cancel of it has succeeded.  EEAlarm          *)
(* implements this specification.                                          *)
(***************************************************************************)
EXTENDS Integers

CONSTANTS
    Alarm,      \* alarm ids
    Time        \* what the clock shows

VARIABLES
    now,        \* the clock
    timer,      \* what has become of each alarm
    due         \* when it is to run

vars == <<now, timer, due>>

Fate == {"unset", "armed", "cancelled", "running", "over"}

Init ==
    /\ now = 0
    /\ timer = [i \in Alarm |-> "unset"]
    /\ due = [i \in Alarm |-> 0]

Becomes(i, from, to) ==
    /\ timer[i] = from
    /\ timer' = [timer EXCEPT ![i] = to]

Advance ==
    /\ now' = now + 1
    /\ UNCHANGED <<timer, due>>

Arm(i, when) ==
    /\ Becomes(i, "unset", "armed")
    /\ due' = [due EXCEPT ![i] = when]
    /\ UNCHANGED now

Cancel(i) == Becomes(i, "armed", "cancelled") /\ UNCHANGED <<now, due>>

Run(i) ==
    /\ Becomes(i, "armed", "running")
    /\ due[i] <= now
    /\ \A j \in Alarm :
          /\ timer[j] # "running"
          /\ timer[j] = "armed" => due[i] <= due[j]
    /\ UNCHANGED <<now, due>>

Finish(i) == Becomes(i, "running", "over") /\ UNCHANGED <<now, due>>

(* The program stops: nothing that is armed will run. *)
DropAll ==
    /\ timer' = [i \in Alarm |-> IF timer[i] = "armed" THEN "over" ELSE timer[i]]
    /\ UNCHANGED <<now, due>>

Next ==
    \/ Advance \/ DropAll
    \/ \E i \in Alarm : Cancel(i) \/ Run(i) \/ Finish(i)
    \/ \E i \in Alarm, when \in Time : Arm(i, when)

Spec == Init /\ [][Next]_vars
=============================================================================
