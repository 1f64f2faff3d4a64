---------------------------- MODULE EEEventFlag ----------------------------
(***************************************************************************)
(* The EE kernel's event flags (Sync.cpp 470-873) over its thread records, *)
(* laid out like EESema: a call looks the flag up in g_eventFlags and then *)
(* works on it under EventFlagInfo::m; an interrupt handler may come       *)
(* between the two.  A thread that waits parks with EventFlagInfo::m and   *)
(* tests its pattern and takes its bits, in one critical section, without  *)
(* the token.                                                              *)
(***************************************************************************)
EXTENDS EEThreads, FiniteSets

CONSTANTS
    Flag,       \* event flag ids
    Bit,        \* the bits of a flag
    Want        \* the patterns and modes that programs wait for

ASSUME FlagAssumption ==
    /\ None \notin Flag
    /\ Want \subseteq [bits : SUBSET Bit \ {{}}, any : BOOLEAN,
                       clear : {"no", "own", "all"}]
    /\ None \notin Want

Caller == Thread \cup {Intr}

VARIABLES
    known,      \* the flags in g_eventFlags
    deleted,    \* the flags whose EventFlagInfo::deleted is set
    shared,     \* the flags with EA_MULTI in EventFlagInfo::attr
    bits,       \* EventFlagInfo::bits
    waiters,    \* EventFlagInfo::waiters
    handle,     \* the flag a call has looked up: its shared_ptr<EventFlagInfo>
    want        \* the pattern and mode of a parked WaitEventFlag

flagVars == <<known, deleted, shared, bits, waiters, handle, want>>
vars == <<pc, target, holder, status, waitType, wakeups, suspends, force, term,
          known, deleted, shared, bits, waiters, handle, want>>

FlagTypeOK ==
    /\ known \subseteq Flag /\ deleted \subseteq Flag /\ shared \subseteq Flag
    /\ bits \in [Flag -> SUBSET Bit]
    /\ waiters \in [Flag -> Nat]
    /\ handle \in [Caller -> Flag \cup {None}]
    /\ want \in [Thread -> Want \cup {None}]

FlagInit ==
    /\ known = {} /\ deleted = {} /\ shared = {}
    /\ bits = [f \in Flag |-> {}]
    /\ waiters = [f \in Flag |-> 0]
    /\ handle = [c \in Caller |-> None]
    /\ want = [t \in Thread |-> None]
-----------------------------------------------------------------------------
(* c is guest code or an interrupt handler that is not in a call. *)
Free(c) == handle[c] = None /\ (c = Intr \/ Running(c))

(* CreateEventFlag.  Ids are not used again. *)
CreateEventFlag(a, f, many, init) ==
    /\ Running(a)
    /\ f \notin known \cup deleted
    /\ known' = known \cup {f}
    /\ shared' = IF many THEN shared \cup {f} ELSE shared
    /\ bits' = [bits EXCEPT ![f] = init]
    /\ UNCHANGED <<threadVars, deleted, waiters, handle, want>>

(* DeleteEventFlag.  (Between the erasure and the flag, the calls at work  *)
(* see no change.)                                                         *)
DeleteEventFlag(c, f) ==
    /\ Free(c)
    /\ f \in known
    /\ known' = known \ {f}
    /\ deleted' = deleted \cup {f}
    /\ UNCHANGED <<threadVars, shared, bits, waiters, handle, want>>

(* lookupEventFlagInfo, the beginning of every other call. *)
LookupFlag(c, f) ==
    /\ Free(c)
    /\ f \in known
    /\ handle' = [handle EXCEPT ![c] = f]
    /\ BeginCall(c)
    /\ UNCHANGED <<known, deleted, shared, bits, waiters, want>>

(* The call of c, which does not wait, ends; a thread goes on at l. *)
EndCall(c, l) ==
    /\ handle[c] # None
    /\ handle' = [handle EXCEPT ![c] = None]
    /\ LeaveCall(c, l)
    /\ UNCHANGED <<known, deleted, shared, waiters, want>>

(* SetEventFlag, iSetEventFlag. *)
SetEventFlag(c, b) ==
    /\ EndCall(c, "guest")
    /\ bits' = [bits EXCEPT ![handle[c]] = @ \cup b]

(* ClearEventFlag, iClearEventFlag: b are the bits that stay. *)
ClearEventFlag(c, b) ==
    /\ EndCall(c, "guest")
    /\ bits' = [bits EXCEPT ![handle[c]] = @ \cap b]

(* The pattern w is there. *)
Matches(w, f) ==
    IF w.any THEN w.bits \cap bits[f] # {} ELSE w.bits \subseteq bits[f]

(* The bits that w leaves. *)
Cleared(w, f) ==
    CASE w.clear = "all" -> {}
      [] w.clear = "own" -> bits[f] \ w.bits
      [] w.clear = "no"  -> bits[f]

(* Bug: a flag for one waiter admits a second one. *)
AdmitsTwo(f) == f \in shared \/ waiters[f] <= 1

(* A flag without EA_MULTI answers KE_EVF_MULTI while it has a waiter, to  *)
(* polls as well.                                                          *)
Admits(f) == f \in shared \/ waiters[f] = 0

Refused(c) == EndCall(c, "guest") /\ ~Admits(handle[c]) /\ UNCHANGED bits

(* PollEventFlag, iPollEventFlag: KE_EVF_COND when the pattern is not there. *)
PollEventFlag(c, w) ==
    /\ EndCall(c, "guest")
    /\ Admits(handle[c])
    /\ bits' = IF Matches(w, handle[c])
               THEN [bits EXCEPT ![handle[c]] = Cleared(w, handle[c])] ELSE bits

(* WaitEventFlag of a terminated thread. *)
WaitThrows(t) ==
    /\ CallThrows(t) /\ Admits(handle[t])
    /\ handle' = [handle EXCEPT ![t] = None]
    /\ UNCHANGED <<known, deleted, shared, bits, waiters, want>>

(* Bug: the predicate does not look at forceRelease. *)
SatisfiedUnlessReleased(t, w) ==
    term[t] \/ handle[t] \in deleted \/ Matches(w, handle[t])

(* The predicate `satisfied' of t for w. *)
Satisfied(t, w) ==
    force[t] \/ term[t] \/ handle[t] \in deleted \/ Matches(w, handle[t])

(* Bug: the thread takes its bits although it has been released. *)
TakesAnyway(t, w) ==
    IF term[t] \/ handle[t] \in deleted THEN bits
    ELSE [bits EXCEPT ![handle[t]] = Cleared(w, handle[t])]

(* What finishEventFlagWaitLocked leaves; it does not test the pattern.    *)
(* A parked wait has looked at forceRelease first.                         *)
Taken(t, w) ==
    IF handle[t] \in deleted THEN bits
    ELSE [bits EXCEPT ![handle[t]] = Cleared(w, handle[t])]

TakenUnlessReleased(t, w) == IF term[t] \/ force[t] THEN bits ELSE Taken(t, w)

(* WaitEventFlag that need not wait. *)
WaitTakes(t, w) ==
    /\ EndCall(t, "check")
    /\ Admits(handle[t]) /\ ~term[t] /\ Satisfied(t, w)
    /\ bits' = Taken(t, w)

(* WaitEventFlag: the thread parks. *)
WaitParks(t, w) ==
    /\ ParkOn(t, "EVENT")
    /\ Admits(handle[t]) /\ ~Satisfied(t, w)
    /\ waiters' = [waiters EXCEPT ![handle[t]] = @ + 1]
    /\ want' = [want EXCEPT ![t] = w]
    /\ UNCHANGED <<known, deleted, shared, bits, handle>>

WaitersLeft(t) == [waiters EXCEPT ![handle[t]] = @ - 1]

(* The parked thread finishes. *)
WaitDone(t) ==
    /\ FinishWait(t) /\ Satisfied(t, want[t])
    /\ waiters' = WaitersLeft(t)
    /\ bits' = TakenUnlessReleased(t, want[t])
    /\ handle' = [handle EXCEPT ![t] = None]
    /\ want' = [want EXCEPT ![t] = None]
    /\ UNCHANGED <<known, deleted, shared>>
-----------------------------------------------------------------------------
WaitEventFlag(t) ==
    \/ WaitThrows(t) \/ WaitDone(t)
    \/ \E w \in Want : WaitTakes(t, w) \/ WaitParks(t, w)

FlagNext ==
    \/ \E t \in Thread : WaitEventFlag(t)
    \/ \E c \in Caller : Refused(c) \/ \E w \in Want : PollEventFlag(c, w)
    \/ \E c \in Caller, b \in SUBSET Bit : SetEventFlag(c, b) \/ ClearEventFlag(c, b)
    \/ \E c \in Caller, f \in Flag : LookupFlag(c, f) \/ DeleteEventFlag(c, f)
    \/ \E a \in Thread, f \in Flag, many \in BOOLEAN, init \in SUBSET Bit :
          CreateEventFlag(a, f, many, init)

Next == (ThreadNext /\ UNCHANGED flagVars) \/ FlagNext

Spec == Init /\ FlagInit /\ [][Next]_vars
-----------------------------------------------------------------------------
(* Properties.                                                             *)

(* The threads parked on f. *)
Parked(f) == {t \in Thread : pc[t] = "wait" /\ handle[t] = f}

(* EventFlagInfo::waiters, which decides whether a flag refuses a second   *)
(* waiter, is the number of threads parked on it, however their waits end: *)
(* one too many and the flag answers KE_EVF_MULTI for ever, one too few    *)
(* and two threads share it.                                               *)
WaitersCounted ==
    \A f \in Flag : waiters[f] = Cardinality(Parked(f))

(* A flag made without EA_MULTI never has two threads parked on it. *)
OneWaiter ==
    \A f \in Flag \ shared, t, u \in Thread : {t, u} \subseteq Parked(f) => t = u

(* A parked waiter shown READY or SUSPEND has been released, and its       *)
(* predicate will see it.                                                  *)
ReadyWaiterWakes ==
    \A t \in Thread : pc[t] = "wait" /\ ~ShownWaiting(t) => Satisfied(t, want[t])

(* The flags implement the abstract ones: although the finish of a wait    *)
(* does not test its pattern again, no bit is taken by a wait whose        *)
(* pattern is not there, nor by one that was released, terminated or       *)
(* overtaken by a deletion.                                                *)
Abstract == INSTANCE EventFlags WITH
    made <- known \cup deleted,
    closed <- deleted,
    queue <- [f \in Flag |-> Parked(f)],
    calls <- handle

ImplementsFlags == Abstract!Spec
=============================================================================
