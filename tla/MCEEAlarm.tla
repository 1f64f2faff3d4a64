----------------------------- MODULE MCEEAlarm -----------------------------
(* An instance of EEAlarm for TLC: guest code, the alarm handler and the   *)
(* thread that stops the program.                                          *)
EXTENDS EEAlarm

MCCaller == {"guest", "handler", "main"}
MCTicks == {0, 2}
=============================================================================
