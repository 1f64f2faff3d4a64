--------------------------- MODULE MCEEInterrupts ---------------------------
(* An instance of EEInterrupts for TLC: a guest thread, the main thread of *)
(* the host, and two worker threads, of which one is to exist at a time.   *)
EXTENDS EEInterrupts

MCGuest == {"guest"}
MCHost == {"main"}
MCWorker == {"w1", "w2"}
MCCauses == <<"start", "end">>
MCDmac == {"sif"}
MCMasked == {"end"}
MCStopper == {"main", "w1"}
=============================================================================
