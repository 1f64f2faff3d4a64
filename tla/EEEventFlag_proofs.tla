------------------------- MODULE EEEventFlag_proofs -------------------------
(***************************************************************************)
(* Proofs about the kernel's event flags, for every set of threads, flags, *)
(* bits and patterns.  ThreadInv is the thread records' own invariant,     *)
(* FlagInv adds what the flags need.                                       *)
(***************************************************************************)
EXTENDS EEEventFlag, EEThreads_proofs, FiniteSetTheorems

(* A call works on a flag that was made, from its lookup to its end; a      *)
(* thread stays in the call until then, and has a pattern while it waits.   *)
HandleInv ==
    /\ known \cap deleted = {}
    /\ \A c \in Caller : handle[c] # None => handle[c] \in known \cup deleted
    /\ \A t \in Thread : pc[t] \in {"call", "wait"} <=> handle[t] # None
    /\ \A t \in Thread : pc[t] = "wait" <=> want[t] # None

(* The counter counts; there are finitely many parked threads to count. *)
CountInv == WaitersCounted /\ \A f \in Flag : IsFiniteSet(Parked(f))

FlagInv == FlagTypeOK /\ HandleInv /\ CountInv /\ OneWaiter
-----------------------------------------------------------------------------
(* The initial state satisfies the invariants. *)
LEMMA FlagInvInit == Init /\ FlagInit => ThreadInv /\ FlagInv
<1> SUFFICES ASSUME Init, FlagInit PROVE FlagInv
  BY ThreadInvInit
<1> USE ThreadsAssumption, FlagAssumption DEF Init, FlagInit, Caller
<1>1. FlagTypeOK /\ HandleInv
  BY DEF FlagTypeOK, HandleInv
<1>2. ASSUME NEW f \in Flag PROVE Parked(f) = {}
  BY DEF Parked
<1>3. CountInv
  BY <1>2, FS_EmptySet DEF CountInv, WaitersCounted
<1>4. OneWaiter
  BY <1>2 DEF OneWaiter
<1> QED
  BY <1>1, <1>3, <1>4 DEF FlagInv

(* The event flag calls treat the records as EEThreads lets them. *)
LEMMA FlagKeepsThreadInv == ThreadInv /\ FlagNext => ThreadInv'
<1> SUFFICES ASSUME ThreadInv, FlagNext PROVE ThreadInv'
  OBVIOUS
<1> USE DEF Caller
<1>1. CASE UNCHANGED threadVars
  BY <1>1, ThreadInvStep
<1>2. ASSUME NEW t \in Thread, WaitEventFlag(t) PROVE ThreadInv'
  BY <1>2, CallsKeepThreadInv, WaitsKeepThreadInv
     DEF WaitEventFlag, WaitThrows, WaitTakes, WaitParks, WaitDone, EndCall
<1>3. ASSUME NEW c \in Caller, EndCall(c, "guest") PROVE ThreadInv'
  BY <1>3, CallsKeepThreadInv DEF EndCall
<1>4. ASSUME NEW c \in Caller, NEW f \in Flag, LookupFlag(c, f) PROVE ThreadInv'
  BY <1>4, CallsKeepThreadInv DEF LookupFlag
<1> QED
  BY <1>1, <1>2, <1>3, <1>4
     DEF FlagNext, CreateEventFlag, DeleteEventFlag, Refused, PollEventFlag, SetEventFlag,
         ClearEventFlag

(* What a call that does not wait does to the threads in calls: it ends. *)
LEMMA CallEnds ==
    ASSUME ThreadInv, FlagInv, NEW c \in Caller, NEW l \in {"guest", "check"}, EndCall(c, l)
    PROVE  /\ handle[c] \in Flag
           /\ handle' = [handle EXCEPT ![c] = None]
           /\ c \in Thread => pc[c] = "call"
           /\ \A t \in Thread : /\ pc'[t] = "wait" <=> pc[t] = "wait"
                                /\ pc'[t] = "call" <=> pc[t] = "call" /\ t # c
                                /\ pc[t] = "wait" => handle'[t] = handle[t]
<1> USE ThreadsAssumption, FlagAssumption
    DEF ThreadInv, TypeOK, FlagInv, FlagTypeOK, HandleInv, Caller
<1>1. handle[c] \in Flag /\ handle' = [handle EXCEPT ![c] = None]
  BY DEF EndCall
<1>2. CASE c = Intr
  BY <1>1, <1>2 DEF EndCall, LeaveCall
<1>3. CASE c # Intr
  <2>1. c \in Thread /\ pc[c] = "call" /\ pc' = [pc EXCEPT ![c] = l]
    BY <1>3 DEF EndCall, LeaveCall, Goto
  <2>2. l # "wait" /\ l # "call"
    OBVIOUS
  <2> QED
    BY <1>1, <2>1, <2>2
<1> QED
  BY <1>1, <1>2, <1>3

(* Where no wait begins or ends the sets of parked threads stay. *)
LEMMA ParkedKept ==
    ASSUME \A t \in Thread : /\ pc'[t] = "wait" <=> pc[t] = "wait"
                             /\ pc[t] = "wait" => handle'[t] = handle[t]
    PROVE  \A f \in Flag : Parked(f)' = Parked(f)
<1>1. ASSUME NEW f \in Flag
      PROVE  \A t \in Thread : (pc'[t] = "wait" /\ handle'[t] = f)
                              <=> (pc[t] = "wait" /\ handle[t] = f)
  OBVIOUS
<1> QED
  BY <1>1 DEF Parked

(* How the set of parked threads moves: one joins ... *)
LEMMA ParkedGrows ==
    ASSUME ThreadInv, FlagInv, NEW t \in Thread, NEW w \in Want, WaitParks(t, w)
    PROVE  /\ handle[t] \in Flag
           /\ \A f \in Flag :
                IF f = handle[t]
                THEN t \notin Parked(f) /\ Parked(f)' = Parked(f) \cup {t}
                ELSE Parked(f)' = Parked(f)
<1> USE FlagAssumption DEF ThreadInv, TypeOK, FlagInv, FlagTypeOK, HandleInv, Caller
<1>1. pc[t] = "call" /\ pc' = [pc EXCEPT ![t] = "wait"] /\ handle' = handle
  BY DEF WaitParks, ParkOn, Park, Goto
<1> QED
  BY <1>1 DEF Parked

(* ... or one leaves; it was parked on an existing flag. *)
LEMMA ParkedShrinks ==
    ASSUME ThreadInv, FlagInv, NEW t \in Thread, WaitDone(t)
    PROVE  /\ handle[t] \in Flag /\ want[t] \in Want
           /\ \A f \in Flag :
                IF f = handle[t]
                THEN t \in Parked(f) /\ Parked(f)' = Parked(f) \ {t}
                ELSE Parked(f)' = Parked(f)
<1> USE FlagAssumption DEF ThreadInv, TypeOK, FlagInv, FlagTypeOK, HandleInv, Caller
<1> DEFINE l == IF term[t] THEN "dying" ELSE "check"
<1>1. pc[t] = "wait" /\ pc' = [pc EXCEPT ![t] = l] /\ handle' = [handle EXCEPT ![t] = None]
  BY DEF WaitDone, FinishWait, Goto
<1>2. handle[t] \in Flag /\ want[t] \in Want
  BY <1>1
<1>3. l # "wait"
  OBVIOUS
<1>4. \A u \in Thread : (pc'[u] = "wait" <=> pc[u] = "wait" /\ u # t)
                       /\ (u # t => handle'[u] = handle[u])
  <2> HIDE DEF l
  <2> QED
    BY <1>1, <1>3
<1> QED
  BY <1>1, <1>2, <1>4 DEF Parked

(* The steps that leave every wait as it is. *)
Quiet == /\ ~ \E t \in Thread, w \in Want : WaitParks(t, w)
         /\ ~ \E t \in Thread : WaitDone(t)

LEMMA QuietStepsKeepParked ==
    ASSUME ThreadInv, FlagInv, [Next]_vars, Quiet
    PROVE  UNCHANGED <<waiters, want>> /\ \A f \in Flag : Parked(f)' = Parked(f)
<1> DEFINE Kept == UNCHANGED <<waiters, want>>
                   /\ \A t \in Thread : /\ pc'[t] = "wait" <=> pc[t] = "wait"
                                        /\ pc[t] = "wait" => handle'[t] = handle[t]
<1>0. SUFFICES Kept
  BY ParkedKept
<1> USE ThreadsAssumption
    DEF ThreadInv, TypeOK, FlagInv, FlagTypeOK, HandleInv, Caller
<1>1. CASE UNCHANGED vars
  BY <1>1 DEF vars
<1>2. CASE ThreadNext /\ UNCHANGED flagVars
  BY <1>2, ThreadKeepsCalls DEF flagVars, InCalls
<1>3. ASSUME NEW t \in Thread, WaitThrows(t) PROVE Kept
  BY <1>3 DEF WaitThrows, CallThrows, Throw, Goto
<1>4. ASSUME NEW c \in Caller, NEW l \in {"guest", "check"}, EndCall(c, l) PROVE Kept
  <2>1. UNCHANGED <<waiters, want>>
    BY <1>4 DEF EndCall
  <2> HIDE DEF ThreadInv, FlagInv
  <2> QED
    BY <1>4, <2>1, CallEnds
<1>5. ASSUME NEW t \in Thread, NEW w \in Want, WaitTakes(t, w) PROVE Kept
  BY <1>4, <1>5 DEF WaitTakes
<1>6. ASSUME NEW c \in Caller, NEW f \in Flag, LookupFlag(c, f) PROVE Kept
  BY <1>6 DEF LookupFlag, BeginCall, Running, Goto
<1>7. CASE UNCHANGED <<threadVars, waiters, handle, want>>
  BY <1>7 DEF threadVars
<1> HIDE DEF ThreadInv, FlagInv, Kept
<1> QED
  BY <1>1, <1>2, <1>3, <1>4, <1>5, <1>6, <1>7
     DEF Quiet, Next, FlagNext, WaitEventFlag, CreateEventFlag, DeleteEventFlag, Refused,
         PollEventFlag, SetEventFlag, ClearEventFlag

(* A flag that admits a waiter is shared or has none. *)
LEMMA AdmitsNobodyElse ==
    ASSUME FlagInv, NEW f \in Flag, Admits(f) PROVE f \in shared \/ Parked(f) = {}
BY FS_EmptySet DEF FlagInv, CountInv, WaitersCounted, Admits

(* The counter keeps counting the parked threads, and a flag for one waiter *)
(* has one at most.                                                         *)
LEMMA CountStep == ThreadInv /\ FlagInv /\ [Next]_vars => CountInv' /\ OneWaiter'
<1> SUFFICES ASSUME ThreadInv, FlagInv, [Next]_vars PROVE CountInv' /\ OneWaiter'
  OBVIOUS
<1>s. ASSUME NEW f \in Flag, f \in shared PROVE f \in shared'
  BY <1>s DEF Next, FlagNext, WaitEventFlag, WaitThrows, WaitTakes, WaitParks, WaitDone, Refused,
              PollEventFlag, SetEventFlag, ClearEventFlag, EndCall, LookupFlag, DeleteEventFlag,
              CreateEventFlag, flagVars, vars
<1>1. ASSUME NEW t \in Thread, NEW w \in Want, WaitParks(t, w) PROVE CountInv' /\ OneWaiter'
  <2> USE DEF FlagInv, FlagTypeOK, CountInv, WaitersCounted
  <2>1. handle[t] \in Flag /\ waiters' = [waiters EXCEPT ![handle[t]] = @ + 1]
    BY <1>1, ParkedGrows DEF WaitParks
  <2>2. ASSUME NEW g \in Flag
        PROVE  waiters'[g] = Cardinality(Parked(g)') /\ IsFiniteSet(Parked(g)')
    <3>1. CASE g = handle[t]
      <4>1. t \notin Parked(g) /\ Parked(g)' = Parked(g) \cup {t}
        BY <1>1, <3>1, ParkedGrows
      <4>2. IsFiniteSet(Parked(g)') /\ Cardinality(Parked(g)') = Cardinality(Parked(g)) + 1
        BY <4>1, FS_AddElement
      <4> QED
        BY <2>1, <3>1, <4>2
    <3>2. CASE g # handle[t]
      BY <1>1, <2>1, <3>2, ParkedGrows
    <3> QED
      BY <3>1, <3>2
  <2>3. handle[t] \in shared \/ Parked(handle[t]) = {}
    BY <1>1, <2>1, AdmitsNobodyElse DEF WaitParks
  <2>4. OneWaiter'
    <3> HIDE DEF FlagInv
    <3> QED
      BY <1>s, <1>1, <2>1, <2>3, ParkedGrows DEF OneWaiter, FlagInv
  <2> QED
    BY <2>2, <2>4
<1>2. ASSUME NEW t \in Thread, WaitDone(t) PROVE CountInv' /\ OneWaiter'
  <2> USE DEF FlagInv, FlagTypeOK, CountInv, WaitersCounted
  <2>1. handle[t] \in Flag /\ waiters' = [waiters EXCEPT ![handle[t]] = @ - 1]
    BY <1>2, ParkedShrinks DEF WaitDone, WaitersLeft
  <2>2. ASSUME NEW g \in Flag
        PROVE  waiters'[g] = Cardinality(Parked(g)') /\ IsFiniteSet(Parked(g)')
    <3>1. CASE g = handle[t]
      <4>1. t \in Parked(g) /\ Parked(g)' = Parked(g) \ {t}
        BY <1>2, <3>1, ParkedShrinks
      <4>2. IsFiniteSet(Parked(g)') /\ Cardinality(Parked(g)') = Cardinality(Parked(g)) - 1
        BY <4>1, FS_RemoveElement
      <4> QED
        BY <2>1, <3>1, <4>2
    <3>2. CASE g # handle[t]
      BY <1>2, <2>1, <3>2, ParkedShrinks
    <3> QED
      BY <3>1, <3>2
  <2>3. OneWaiter'
    <3>1. \A g \in Flag : Parked(g)' \subseteq Parked(g)
      BY <1>2, ParkedShrinks
    <3> QED
      BY <1>s, <3>1 DEF OneWaiter
  <2> QED
    BY <2>2, <2>3
<1>3. CASE Quiet
  <2>1. UNCHANGED waiters /\ \A f \in Flag : Parked(f)' = Parked(f)
    BY <1>3, QuietStepsKeepParked
  <2> QED
    BY <1>s, <2>1 DEF FlagInv, CountInv, WaitersCounted, OneWaiter
<1> QED
  BY <1>1, <1>2, <1>3 DEF Quiet

(* A thread that leaves is counted, so the counter does not fall below zero. *)
LEMMA CountedWaiter ==
    ASSUME ThreadInv, FlagInv, NEW t \in Thread, WaitDone(t)
    PROVE  waiters[handle[t]] - 1 \in Nat
<1>1. handle[t] \in Flag /\ t \in Parked(handle[t])
  BY ParkedShrinks
<1>2. Parked(handle[t]) # {} /\ IsFiniteSet(Parked(handle[t]))
  BY <1>1 DEF FlagInv, CountInv
<1>3. Cardinality(Parked(handle[t])) \in Nat /\ Cardinality(Parked(handle[t])) # 0
  BY <1>2, FS_EmptySet, FS_CardinalityType
<1> QED
  BY <1>1, <1>3 DEF FlagInv, CountInv, WaitersCounted

(* What a pattern leaves are bits. *)
LEMMA ClearedIsBits ==
    ASSUME FlagTypeOK, NEW w \in Want, NEW f \in Flag PROVE Cleared(w, f) \in SUBSET Bit
<1>1. w.clear \in {"no", "own", "all"}
  BY FlagAssumption
<1>2. bits[f] \in SUBSET Bit
  BY DEF FlagTypeOK
<1> QED
  BY <1>1, <1>2 DEF Cleared

(* The calls keep the types and the record of who is in a call. *)
LEMMA FlagStaticStep ==
    ThreadInv /\ FlagInv /\ [Next]_vars => FlagTypeOK' /\ HandleInv'
<1> SUFFICES ASSUME ThreadInv, FlagInv, [Next]_vars PROVE FlagTypeOK' /\ HandleInv'
  OBVIOUS
<1> DEFINE Static == FlagTypeOK' /\ HandleInv'
<1> USE ThreadsAssumption, FlagAssumption
    DEF FlagInv, FlagTypeOK, HandleInv, ThreadInv, TypeOK, Caller
<1>1. CASE UNCHANGED flagVars /\ InCalls
  BY <1>1 DEF flagVars, InCalls
<1>2. CASE ThreadNext /\ UNCHANGED flagVars
  BY <1>1, <1>2, ThreadKeepsCalls
<1>3. ASSUME NEW a \in Thread, NEW f \in Flag, NEW many \in BOOLEAN, NEW init \in SUBSET Bit,
             CreateEventFlag(a, f, many, init)
      PROVE  Static
  BY <1>3 DEF CreateEventFlag, threadVars
<1>4. ASSUME NEW c \in Caller, NEW f \in Flag, DeleteEventFlag(c, f) PROVE Static
  BY <1>4 DEF DeleteEventFlag, threadVars
<1>5. ASSUME NEW c \in Caller, NEW f \in Flag, LookupFlag(c, f) PROVE Static
  BY <1>5 DEF LookupFlag, BeginCall, Running, Goto, Free
<1>6. ASSUME NEW c \in Caller, NEW l \in {"guest", "check"}, EndCall(c, l),
             bits' \in [Flag -> SUBSET Bit]
      PROVE  Static
  <2>1. UNCHANGED <<known, deleted, shared, waiters, want>>
    BY <1>6 DEF EndCall
  <2>2. /\ handle[c] \in Flag
        /\ handle' = [handle EXCEPT ![c] = None]
        /\ c \in Thread => pc[c] = "call"
        /\ \A t \in Thread : /\ pc'[t] = "wait" <=> pc[t] = "wait"
                             /\ pc'[t] = "call" <=> pc[t] = "call" /\ t # c
    <3> HIDE DEF ThreadInv, FlagInv
    <3> QED
      BY <1>6, CallEnds
  <2> QED
    BY <1>6, <2>1, <2>2
<1>7. ASSUME NEW c \in Caller, Refused(c) \/ \E b \in SUBSET Bit : SetEventFlag(c, b)
                                                            \/ ClearEventFlag(c, b)
      PROVE  Static
  <2>1. EndCall(c, "guest")
    BY <1>7 DEF Refused, SetEventFlag, ClearEventFlag
  <2>2. bits' \in [Flag -> SUBSET Bit]
    BY <1>7 DEF Refused, SetEventFlag, ClearEventFlag
  <2> QED
    BY <1>6, <2>1, <2>2
<1>8. ASSUME NEW c \in Caller, NEW w \in Want, PollEventFlag(c, w) PROVE Static
  <2>1. EndCall(c, "guest")
    BY <1>8 DEF PollEventFlag
  <2>2. handle[c] \in Flag
    BY <2>1 DEF EndCall
  <2>3. Cleared(w, handle[c]) \in SUBSET Bit
    BY <2>2, ClearedIsBits
  <2>4. bits' \in [Flag -> SUBSET Bit]
    BY <1>8, <2>3 DEF PollEventFlag
  <2> QED
    BY <1>6, <2>1, <2>4
<1>9. ASSUME NEW t \in Thread, NEW w \in Want, WaitTakes(t, w) PROVE Static
  <2>1. EndCall(t, "check")
    BY <1>9 DEF WaitTakes
  <2>2. handle[t] \in Flag
    BY <2>1 DEF EndCall
  <2>3. Cleared(w, handle[t]) \in SUBSET Bit
    BY <2>2, ClearedIsBits
  <2>4. bits' \in [Flag -> SUBSET Bit]
    BY <1>9, <2>3 DEF WaitTakes, Taken
  <2> QED
    BY <1>6, <2>1, <2>4
<1>10. ASSUME NEW t \in Thread, WaitThrows(t) PROVE Static
  BY <1>10 DEF WaitThrows, CallThrows, Throw, Goto
<1>11. ASSUME NEW t \in Thread, NEW w \in Want, WaitParks(t, w) PROVE Static
  BY <1>11 DEF WaitParks, ParkOn, Park, Goto
<1>12. ASSUME NEW t \in Thread, WaitDone(t) PROVE Static
  <2>1. /\ handle[t] \in Flag /\ want[t] \in Want
        /\ waiters[handle[t]] - 1 \in Nat
    BY <1>12, ParkedShrinks, CountedWaiter
  <2>2. Cleared(want[t], handle[t]) \in SUBSET Bit
    BY <2>1, ClearedIsBits
  <2>3. FlagTypeOK'
    BY <1>12, <2>1, <2>2 DEF WaitDone, WaitersLeft, TakenUnlessReleased, Taken
  <2>4. HandleInv'
    BY <1>12 DEF WaitDone, FinishWait, Goto
  <2> QED
    BY <2>3, <2>4
<1>13. CASE UNCHANGED vars
  BY <1>1, <1>13 DEF vars, flagVars, InCalls
<1> HIDE DEF FlagInv, ThreadInv, Static
<1> QED
  BY <1>2, <1>3, <1>4, <1>5, <1>7, <1>8, <1>9, <1>10, <1>11, <1>12, <1>13
     DEF Next, FlagNext, WaitEventFlag, Static

(* Both invariants together are inductive. *)
LEMMA FlagInvStep == ThreadInv /\ FlagInv /\ [Next]_vars => ThreadInv' /\ FlagInv'
<1> SUFFICES ASSUME ThreadInv, FlagInv, [Next]_vars PROVE ThreadInv' /\ FlagInv'
  OBVIOUS
<1>1. ThreadInv'
  BY ThreadInvStep, FlagKeepsThreadInv DEF Next, vars, threadVars
<1>2. FlagInv'
  BY FlagStaticStep, CountStep DEF FlagInv
<1> QED
  BY <1>1, <1>2

(* Every reachable state satisfies both invariants. *)
THEOREM FlagInvariant == Spec => [](ThreadInv /\ FlagInv)
BY FlagInvInit, FlagInvStep, PTL DEF Spec

(* The event flags' types: the waiters counter never falls below zero. *)
THEOREM FlagTypes == Spec => []FlagTypeOK
BY FlagInvariant, PTL DEF FlagInv

(* The waiters counter is exact, however waits end. *)
THEOREM FlagWaitersAreCounted == Spec => []WaitersCounted
BY FlagInvariant, PTL DEF FlagInv, CountInv

(* A flag made for one waiter never has two. *)
THEOREM OnlyOneWaiter == Spec => []OneWaiter
BY FlagInvariant, PTL DEF FlagInv

(* A waiter that is not shown waiting has been released. *)
LEMMA FlagInvWakes == ThreadInv => ReadyWaiterWakes
BY DEF ThreadInv, WaitInv, WaitShownTruly, WaiterInv, ReadyWaiterWakes, Satisfied, ShownWaiting

(* No waiter is shown READY or SUSPEND without its predicate holding. *)
THEOREM ReadyFlagWaiterWillWake == Spec => []ReadyWaiterWakes
BY FlagInvariant, FlagInvWakes, PTL
-----------------------------------------------------------------------------
(* Refinement of the abstract event flags.                                 *)

(* The initial states are initial states of the abstract flags. *)
LEMMA FlagsInitial == Init /\ FlagInit => Abstract!Init
BY ThreadsAssumption, FlagAssumption DEF Init, FlagInit, Abstract!Init, Parked

(* The pattern tests and what they leave are the same in both. *)
LEMMA SamePatterns ==
    ASSUME NEW w, NEW f
    PROVE  /\ Matches(w, f) <=> Abstract!There(w, f)
           /\ Cleared(w, f) = Abstract!Left(w, f)
BY DEF Matches, Cleared, Abstract!There, Abstract!Left

(* Who is admitted by the counter is admitted by the queue. *)
LEMMA AdmitsAbstractly ==
    ASSUME FlagInv, NEW f \in Flag, Admits(f) PROVE Abstract!Admits(f)
BY AdmitsNobodyElse DEF Abstract!Admits

(* A call that ends without waiting ends in the abstract flags. *)
LEMMA CallEndsAbstractly ==
    ASSUME ThreadInv, FlagInv, NEW c \in Caller, NEW l \in {"guest", "check"}, EndCall(c, l)
    PROVE  handle[c] \in Flag /\ Abstract!Ends(c, handle[c])
<1>1. handle[c] \in Flag /\ handle' = [handle EXCEPT ![c] = None]
  BY CallEnds
<1>2. \A f \in Flag : Parked(f)' = Parked(f)
  <2>1. \A t \in Thread : /\ pc'[t] = "wait" <=> pc[t] = "wait"
                          /\ pc[t] = "wait" => handle'[t] = handle[t]
    BY CallEnds
  <2> QED
    BY <2>1, ParkedKept
<1>3. c \notin Parked(handle[c])
  BY CallEnds DEF Parked
<1> QED
  BY <1>1, <1>2, <1>3 DEF Abstract!Ends, EndCall

(* Parking is queueing. *)
LEMMA ParkMaps ==
    ASSUME ThreadInv, FlagInv, NEW t \in Thread, NEW w \in Want, WaitParks(t, w)
    PROVE  \E f \in Flag : Abstract!Queue(t, f, w)
<1> DEFINE queue == [f \in Flag |-> Parked(f)]
<1>1. PICK f \in Flag : f = handle[t]
  BY ParkedGrows
<1>2. t \notin Parked(f) /\ queue' = [queue EXCEPT ![f] = @ \cup {t}]
  BY <1>1, ParkedGrows
<1>3. Abstract!Admits(f) /\ ~Abstract!There(w, f)
  BY <1>1, AdmitsAbstractly, SamePatterns DEF WaitParks, Satisfied
<1> QED
  BY <1>1, <1>2, <1>3 DEF WaitParks, Abstract!Queue

(* A wait that ends takes its pattern, which is there, or nothing. *)
LEMMA DoneMaps ==
    ASSUME ThreadInv, FlagInv, NEW t \in Thread, WaitDone(t)
    PROVE  \E f \in Flag : Abstract!Grant(t, f) \/ Abstract!Leave(t, f)
<1> DEFINE queue == [f \in Flag |-> Parked(f)]
<1>1. PICK f \in Flag : f = handle[t]
  BY ParkedShrinks
<1>2. t \in Parked(f) /\ queue' = [queue EXCEPT ![f] = @ \ {t}]
  BY <1>1, ParkedShrinks
<1>3. Abstract!Dequeue(t, f)
  BY <1>2 DEF WaitDone, Abstract!Dequeue
<1>4. CASE term[t] \/ force[t] \/ f \in deleted
  BY <1>1, <1>3, <1>4 DEF WaitDone, TakenUnlessReleased, Taken, Abstract!Leave
<1>5. CASE ~(term[t] \/ force[t] \/ f \in deleted)
  <2>1. Abstract!There(want[t], f)
    BY <1>1, <1>5, SamePatterns DEF WaitDone, Satisfied
  <2>2. bits' = [bits EXCEPT ![f] = Abstract!Left(want[t], f)]
    BY <1>1, <1>5, SamePatterns DEF WaitDone, TakenUnlessReleased, Taken
  <2>3. f \in known
    BY <1>1, <1>2, <1>5, FlagAssumption DEF FlagInv, HandleInv, Caller
  <2> QED
    BY <1>3, <1>5, <2>1, <2>2, <2>3 DEF Abstract!Grant, Abstract!Open
<1> QED
  BY <1>4, <1>5

(* A call that does not wait takes its pattern, which is there, or nothing. *)
LEMMA CallMaps ==
    ASSUME ThreadInv, FlagInv, NEW c \in Caller,
           NEW w \in Want, PollEventFlag(c, w) \/ (c \in Thread /\ WaitTakes(c, w))
    PROVE  \E f \in Flag : Abstract!Take(c, f, w) \/ Abstract!GiveUp(c, f)
<1>0. \E l \in {"guest", "check"} : EndCall(c, l)
  BY DEF PollEventFlag, WaitTakes
<1>1. PICK f \in Flag : f = handle[c] /\ Abstract!Ends(c, f)
  BY <1>0, CallEndsAbstractly
<1>2. Abstract!Admits(f)
  BY <1>1, AdmitsAbstractly DEF PollEventFlag, WaitTakes
<1>3. CASE PollEventFlag(c, w)
  <2>1. CASE Matches(w, f)
    BY <1>1, <1>2, <1>3, <2>1, SamePatterns DEF PollEventFlag, Abstract!Take
  <2>2. CASE ~Matches(w, f)
    BY <1>1, <1>3, <2>2 DEF PollEventFlag, Abstract!GiveUp
  <2> QED
    BY <2>1, <2>2
<1>4. CASE c \in Thread /\ WaitTakes(c, w)
  <2>1. pc[c] = "call" /\ ~term[c]
    BY <1>4, CallEnds DEF WaitTakes
  <2>2. ~force[c]
    BY <1>4, <2>1 DEF ThreadInv, NoStaleRelease
  <2>3. CASE f \in deleted
    BY <1>1, <1>4, <2>3 DEF WaitTakes, Taken, Abstract!GiveUp
  <2>4. CASE f \notin deleted
    <3>1. Matches(w, f)
      BY <1>1, <1>4, <2>1, <2>2, <2>4 DEF WaitTakes, Satisfied
    <3> QED
      BY <1>1, <1>2, <1>4, <2>4, <3>1, SamePatterns DEF WaitTakes, Taken, Abstract!Take
  <2> QED
    BY <2>3, <2>4
<1> QED
  BY <1>3, <1>4

(* Every step of the kernel is a step of one flag or a stutter. *)
LEMMA FlagsStepMaps ==
    ThreadInv /\ FlagInv /\ [Next]_vars => [Abstract!Next]_Abstract!vars
<1> SUFFICES ASSUME ThreadInv, FlagInv, [Next]_vars
             PROVE  [Abstract!Next]_Abstract!vars
  OBVIOUS
<1> DEFINE queue == [f \in Flag |-> Parked(f)]
<1> USE DEF Caller
<1>1. ASSUME NEW t \in Thread, NEW w \in Want, WaitParks(t, w) PROVE Abstract!Next
  BY <1>1, ParkMaps DEF Abstract!Next
<1>2. ASSUME NEW t \in Thread, WaitDone(t) PROVE Abstract!Next
  BY <1>2, DoneMaps DEF Abstract!Next
<1>3. CASE Quiet
  <2>q. queue' = queue
    BY <1>3, QuietStepsKeepParked
  <2>1. CASE UNCHANGED flagVars
    BY <2>1, <2>q DEF flagVars, Abstract!vars
  <2>2. ASSUME NEW a \in Thread, NEW f \in Flag, NEW many \in BOOLEAN,
               NEW init \in SUBSET Bit, CreateEventFlag(a, f, many, init)
        PROVE  Abstract!Next
    <3>1. Abstract!Make(f, many, init)
      BY <2>2, <2>q DEF CreateEventFlag, Abstract!Make
    <3> QED
      BY <3>1 DEF Abstract!Next
  <2>3. ASSUME NEW c \in Caller, NEW f \in Flag, DeleteEventFlag(c, f) PROVE Abstract!Next
    <3>1. f \notin deleted
      BY <2>3 DEF DeleteEventFlag, FlagInv, HandleInv
    <3>2. known' \cup deleted' = known \cup deleted
      BY <2>3 DEF DeleteEventFlag
    <3>3. Abstract!Close(f)
      BY <2>3, <2>q, <3>1, <3>2 DEF DeleteEventFlag, Abstract!Close, Abstract!Open
    <3> QED
      BY <3>3 DEF Abstract!Next
  <2>4. ASSUME NEW c \in Caller, NEW f \in Flag, LookupFlag(c, f) PROVE Abstract!Next
    <3>1. f \notin deleted
      BY <2>4 DEF LookupFlag, FlagInv, HandleInv
    <3>2. Abstract!Call(c, f)
      BY <2>4, <2>q, <3>1 DEF LookupFlag, Free, Abstract!Call, Abstract!Open
    <3> QED
      BY <3>2 DEF Abstract!Next
  <2>5. ASSUME NEW c \in Caller, Refused(c) PROVE Abstract!Next
    <3>1. handle[c] \in Flag /\ Abstract!GiveUp(c, handle[c])
      BY <2>5, CallEndsAbstractly DEF Refused, Abstract!GiveUp
    <3> QED
      BY <3>1 DEF Abstract!Next
  <2>6. ASSUME NEW c \in Caller, NEW b \in SUBSET Bit, SetEventFlag(c, b) \/ ClearEventFlag(c, b)
        PROVE  Abstract!Next
    <3>1. PICK f \in Flag : f = handle[c] /\ Abstract!Ends(c, f)
      BY <2>6, CallEndsAbstractly DEF SetEventFlag, ClearEventFlag
    <3>2. Abstract!Set(c, f, b) \/ Abstract!Clear(c, f, b)
      BY <2>6, <3>1 DEF SetEventFlag, ClearEventFlag, Abstract!Set, Abstract!Clear
    <3> QED
      BY <3>2 DEF Abstract!Next
  <2>7. ASSUME NEW c \in Caller, NEW w \in Want,
               PollEventFlag(c, w) \/ (c \in Thread /\ WaitTakes(c, w))
        PROVE  Abstract!Next
    BY <2>7, CallMaps DEF Abstract!Next
  <2>8. ASSUME NEW t \in Thread, WaitThrows(t) PROVE Abstract!Next
    <3>1. handle[t] \in Flag /\ t \notin Parked(handle[t])
      BY <2>8, FlagAssumption
         DEF WaitThrows, CallThrows, Parked, FlagInv, FlagTypeOK, HandleInv
    <3>2. Abstract!GiveUp(t, handle[t])
      BY <2>8, <2>q, <3>1 DEF WaitThrows, Abstract!GiveUp, Abstract!Ends
    <3> QED
      BY <3>1, <3>2 DEF Abstract!Next
  <2> HIDE DEF queue
  <2> QED
    BY <1>3, <2>1, <2>2, <2>3, <2>4, <2>5, <2>6, <2>7, <2>8
       DEF Quiet, Next, FlagNext, WaitEventFlag, vars, flagVars
<1> QED
  BY <1>1, <1>2, <1>3 DEF Quiet

(* The kernel's event flags implement the abstract ones. *)
THEOREM KernelImplementsFlags == Spec => ImplementsFlags
BY FlagsInitial, FlagsStepMaps, FlagInvariant, PTL
   DEF Spec, ImplementsFlags, Abstract!Spec
=============================================================================
