------------------------ MODULE GuestScheduler_proofs ------------------------
(***************************************************************************)
(* Proofs about the guest scheduler, for every set of threads, quantum,    *)
(* nesting depth and configuration.  The inductive invariant is SchedInv.  *)
(***************************************************************************)
EXTENDS GuestScheduler, TLAPS, FiniteSetTheorems, WellFoundedInduction

(* A non-empty set of naturals has a least member: the intervals 1..k are *)
(* finite and well-founded under strict inclusion.                         *)
LEMMA NatMin ==
    ASSUME NEW T, T \subseteq Nat, T # {}
    PROVE  \E m \in T : \A k \in T : m <= k
<1> DEFINE F == {1 .. k : k \in T}
<1> DEFINE R == StrictSubsetOrdering(Nat)
<1>1. F \subseteq FiniteSubsetsOf(Nat)
  <2> SUFFICES ASSUME NEW k \in T PROVE 1 .. k \in FiniteSubsetsOf(Nat)
    OBVIOUS
  <2>1. IsFiniteSet(1 .. k)
    BY FS_Interval
  <2> QED
    BY <2>1 DEF FiniteSubsetsOf
<1>2. F # {}
  OBVIOUS
<1>3. PICK X \in F : \A Y \in F : <<Y, X>> \notin R
  <2> HIDE DEF F, R
  <2>1. IsWellFoundedOn(R, FiniteSubsetsOf(Nat))
    BY FS_StrictSubsetOrderingWellFounded DEF R
  <2> QED
    BY <1>1, <1>2, <2>1, WFMin
<1>4. PICK m \in T : X = 1 .. m
  OBVIOUS
<1>5. ASSUME NEW k \in T, k < m PROVE FALSE
  <2>1. 1 .. k \subseteq 1 .. m /\ 1 .. k # 1 .. m
    <3>1. m \in 1 .. m /\ m \notin 1 .. k
      BY <1>5
    <3> QED
      BY <1>5, <3>1
  <2>2. <<1 .. k, 1 .. m>> \in R
    BY <2>1 DEF StrictSubsetOrdering
  <2> QED
    BY <1>3, <1>4, <2>2
<1> QED
  BY <1>5

(* First picks a least member of a non-empty set of threads. *)
LEMMA FirstIsLeast ==
    ASSUME order \in [Thread -> Nat], NEW S, S \subseteq Thread, S # {}
    PROVE  First(S) \in S /\ \A u \in S : order[First(S)] <= order[u]
<1> DEFINE T == {order[t] : t \in S}
<1>1. T \subseteq Nat /\ T # {}
  OBVIOUS
<1>2. PICK m \in T : \A k \in T : m <= k
  BY <1>1, NatMin
<1>3. PICK t \in S : m = order[t]
  OBVIOUS
<1>4. \A u \in S : order[t] <= order[u]
  BY <1>2, <1>3
<1> QED
  BY <1>4 DEF First

(* PickNext answers a member of a non-empty set of candidates. *)
LEMMA PickIsCandidate ==
    ASSUME order \in [Thread -> Nat], NEW S, S \subseteq Thread, NEW a
    PROVE  /\ S = {} => PickNext(a, S) = NoTid
           /\ S # {} => PickNext(a, S) \in S
<1> DEFINE later == {t \in S : order[t] > OrderOf(a)}
<1>1. S # {} => First(S) \in S
  BY FirstIsLeast
<1>2. later # {} => First(later) \in S
  BY FirstIsLeast, later \subseteq Thread
<1> QED
  BY <1>1, <1>2 DEF PickNext
-----------------------------------------------------------------------------
(* Type correctness.                                                       *)

(* The initial state is well-typed. *)
LEMMA TypeInit == Init => TypeOK
<1> SUFFICES ASSUME Init PROVE TypeOK
  OBVIOUS
<1>1. pc \in [Thread -> Location]
  BY DEF Init, Location
<1>2. /\ order \in [Thread -> Nat] /\ saved \in [Thread -> Nat]
      /\ steps \in [Thread -> Nat]
  BY DEF Init
<1>3. /\ present \in SUBSET Thread /\ blocked \in SUBSET Thread
      /\ asleep \in SUBSET Thread /\ exiting \in SUBSET Thread
  <2>1. present = {} /\ blocked = {} /\ asleep = {} /\ exiting = {}
    BY DEF Init
  <2> QED
    BY <2>1
<1>4. current \in Thread \cup {NoTid} /\ owner \in Thread \cup {Host, NoTid}
  BY DEF Init
<1>5. nextOrder \in Nat \ {0} /\ depth \in Nat
  <2>1. nextOrder = 1 /\ depth = 0
    BY DEF Init
  <2> QED
    BY <2>1
<1>6. stop \in BOOLEAN
  BY DEF Init
<1> QED
  BY <1>1, <1>2, <1>3, <1>4, <1>5, <1>6 DEF TypeOK

(* Every step keeps the types. *)
LEMMA TypeStep == TypeOK /\ [Next]_vars => TypeOK'
<1> SUFFICES ASSUME TypeOK, [Next]_vars PROVE TypeOK'
  OBVIOUS
<1> USE SchedAssumption DEF TypeOK, Location
<1>p. \A a, S : S \subseteq Thread => PickNext(a, S) \in Thread \cup {NoTid}
  BY PickIsCandidate
<1>r. Runnable \subseteq Thread
  BY DEF Runnable
<1>1. ASSUME NEW t \in Thread, Start(t) PROVE TypeOK'
  BY <1>1 DEF Start, Goto, tokenVars, lockVars
<1>2. ASSUME NEW t \in Thread, LoopStep(t) PROVE TypeOK'
  <2>1. CASE Step(t)
    BY <2>1 DEF Step, Goto, tokenVars, lockVars
  <2>2. CASE End(t)
    BY <2>2 DEF End, Goto, tokenVars, lockVars
  <2>3. CASE Finish(t)
    BY <2>3 DEF Finish, Goto, tokenVars, lockVars
  <2>4. CASE YieldAtQuantum(t)
    BY <2>4, <1>p, <1>r DEF YieldAtQuantum, YieldTo, Handover, Goto, lockVars
  <2>5. CASE Suspended(t)
    BY <2>5 DEF Suspended, Goto, tokenVars, lockVars
  <2> QED
    BY <1>2, <2>1, <2>2, <2>3, <2>4, <2>5 DEF LoopStep
<1>3. ASSUME NEW t \in Thread, GuestStep(t) PROVE TypeOK'
  <2>1. CASE Nest(t)
    BY <2>1 DEF Nest, tokenVars
  <2>2. CASE Unnest(t)
    BY <2>2 DEF Unnest, tokenVars
  <2>3. CASE Leave(t)
    BY <2>3 DEF Leave, Unlock, Goto, tokenVars
  <2>4. CASE Throw(t)
    BY <2>4 DEF Throw, Unlock, Goto, tokenVars
  <2>5. CASE Release(t)
    BY <2>5 DEF Release, Unlock, Goto, tokenVars
  <2>6. CASE YieldInGuest(t)
    BY <2>6, <1>p, <1>r DEF YieldInGuest, YieldTo, Handover, Goto, lockVars
  <2> QED
    BY <1>3, <2>1, <2>2, <2>3, <2>4, <2>5, <2>6 DEF GuestStep
<1>4. ASSUME NEW t \in Thread, TokenStep(t) PROVE TypeOK'
  <2>1. CASE AcquireEnter(t)
    BY <2>1 DEF AcquireEnter, JoinToken, Goto, lockVars
  <2>2. CASE AcquireDone(t)
    BY <2>2 DEF AcquireDone, Resume, Goto, tokenVars, lockVars
  <2>3. CASE AcquireTimeout(t)
    BY <2>3, <1>p, <1>r DEF AcquireTimeout, Handover, lockVars
  <2>4. CASE YieldRelease(t)
    BY <2>4 DEF YieldRelease, Unlock, Goto, tokenVars
  <2>5. CASE YieldPark(t)
    BY <2>5 DEF YieldPark, Resume, Goto, lockVars
  <2>6. CASE YieldWake(t)
    BY <2>6 DEF YieldWake, Resume, Goto, lockVars
  <2>7. CASE BeginBlock(t)
    BY <2>7, <1>p, <1>r DEF BeginBlock, PassOn, Handover, Goto, lockVars
  <2>8. CASE Unregister(t)
    BY <2>8, <1>p, <1>r DEF Unregister, PassOn, Handover, Goto, lockVars
  <2> QED
    BY <1>4, <2>1, <2>2, <2>3, <2>4, <2>5, <2>6, <2>7, <2>8 DEF TokenStep
<1>5. ASSUME NEW t \in Thread, Enter(t) PROVE TypeOK'
  BY <1>5 DEF Enter, Goto, tokenVars
<1>6. ASSUME NEW t \in Thread, Relock(t) PROVE TypeOK'
  BY <1>6 DEF Relock, Goto, tokenVars
<1>7. CASE HostEnter
  BY <1>7 DEF HostEnter, tokenVars
<1>8. CASE HostLeave
  BY <1>8 DEF HostLeave, Unlock, tokenVars
<1>9. CASE RequestStop
  BY <1>9 DEF RequestStop, tokenVars, lockVars
<1>10. CASE UNCHANGED vars
  BY <1>10 DEF vars
<1> QED
  BY <1>1, <1>2, <1>3, <1>4, <1>5, <1>6, <1>7, <1>8, <1>9, <1>10 DEF Next, ThreadNext

(* Every reachable state of the scheduler has the types TypeOK gives. *)
THEOREM TypeCorrect == Spec => []TypeOK
BY TypeInit, TypeStep, PTL DEF Spec
-----------------------------------------------------------------------------
(* The guest-execution mutex.                                              *)

(* A thread that retakes the lock retakes at least one level of it. *)
LockInv ==
    /\ GuestCodeLocked
    /\ \A t \in Thread : pc[t] = "relock" => saved[t] # 0

(* Every step keeps the lock invariant: where a thread stands tells whether *)
(* it owns the guest-execution mutex and what it has to take back.         *)
LEMMA LockStep == TypeOK /\ LockInv /\ [Next]_vars => LockInv'
<1> SUFFICES ASSUME TypeOK, LockInv, [Next]_vars PROVE LockInv'
  OBVIOUS
<1> USE SchedAssumption DEF TypeOK, LockInv, GuestCodeLocked, Location
<1>1. ASSUME NEW t \in Thread, Start(t) PROVE LockInv'
  BY <1>1 DEF Start, Goto, lockVars
<1>2. ASSUME NEW t \in Thread, LoopStep(t) PROVE LockInv'
  BY <1>2 DEF LoopStep, Step, End, Finish, YieldAtQuantum, Suspended, Goto, lockVars
<1>3. ASSUME NEW t \in Thread, GuestStep(t) PROVE LockInv'
  BY <1>3 DEF GuestStep, Nest, Unnest, Leave, Throw, Release, YieldInGuest, Unlock,
              Goto, lockVars
<1>4. ASSUME NEW t \in Thread, TokenStep(t) PROVE LockInv'
  BY <1>4 DEF TokenStep, AcquireEnter, AcquireDone, AcquireTimeout, YieldRelease,
              YieldPark, YieldWake, BeginBlock, Unregister, Resume, Unlock, Goto, lockVars
<1>5. ASSUME NEW t \in Thread, Enter(t) PROVE LockInv'
  BY <1>5 DEF Enter, Goto
<1>6. ASSUME NEW t \in Thread, Relock(t) PROVE LockInv'
  BY <1>6 DEF Relock, Goto
<1>7. CASE HostEnter
  BY <1>7 DEF HostEnter
<1>8. CASE HostLeave
  BY <1>8 DEF HostLeave, Unlock
<1>9. CASE RequestStop
  BY <1>9 DEF RequestStop, lockVars
<1>10. CASE UNCHANGED vars
  BY <1>10 DEF vars
<1> QED
  BY <1>1, <1>2, <1>3, <1>4, <1>5, <1>6, <1>7, <1>8, <1>9, <1>10 DEF Next, ThreadNext

-----------------------------------------------------------------------------
(* The token.                                                              *)

(* A guest thread between its first schedAcquire and its schedUnregister   *)
(* is runnable except in a kernel wait; so is any thread in schedAcquire.  *)
Membership ==
    \A t \in Thread :
        /\ t \notin exiting /\ pc[t] \notin {"idle", "spawned", "gone", "wait"}
              => t \in Runnable
        /\ pc[t] = "acquire" => t \in Runnable

(* A runnable thread that does not wait for the token has it. *)
Holding ==
    ~stop => \A t \in Runnable : pc[t] \in HasToken => current = t

Sleepers == \A t \in asleep : pc[t] = "parked"

TokenInv ==
    /\ HolderRunnable
    /\ Membership
    /\ Holding
    /\ Sleepers
    /\ NoLostHandover

(* Nobody is registered at first, and nobody holds the token. *)
LEMMA TokenInit == Init => TokenInv
BY SchedAssumption
   DEF Init, TokenInv, HolderRunnable, Membership, Holding, Sleepers, NoLostHandover,
       Runnable, HasToken

(* The watchdog of schedAcquire has nothing to do. *)
LEMMA WatchdogIdle ==
    ASSUME TypeOK, TokenInv, NEW t \in Thread, pc[t] = "acquire"
    PROVE  ~HolderDead
BY DEF TypeOK, TokenInv, HolderRunnable, Membership, HolderDead, Runnable

(* Every step keeps the token invariant: membership of the round-robin, the *)
(* holder, and the sleepers stay consistent with where the threads stand.   *)
LEMMA TokenStepInv == TypeOK /\ TokenInv /\ [Next]_vars => TokenInv'
<1> SUFFICES ASSUME TypeOK, TokenInv, [Next]_vars PROVE TokenInv'
  OBVIOUS
<1> USE SchedAssumption
    DEF TypeOK, TokenInv, HolderRunnable, Membership, Holding, Sleepers, NoLostHandover,
        Runnable, HasToken, Location
<1>p. ASSUME NEW a, NEW S, S \subseteq Thread
      PROVE  /\ S = {} => PickNext(a, S) = NoTid
             /\ S # {} => PickNext(a, S) \in S
  BY <1>p, PickIsCandidate
<1>1. ASSUME NEW t \in Thread, Start(t) PROVE TokenInv'
  BY <1>1 DEF Start, Goto, tokenVars
<1>2. ASSUME NEW t \in Thread, LoopStep(t) PROVE TokenInv'
  <2>1. CASE Step(t)
    BY <2>1 DEF Step, Goto, tokenVars
  <2>2. CASE End(t)
    BY <2>2 DEF End, Goto, tokenVars
  <2>3. CASE Finish(t)
    BY <2>3 DEF Finish, Goto, tokenVars
  <2>4. CASE YieldAtQuantum(t)
    BY <2>4, <1>p DEF YieldAtQuantum, YieldTo, Handover, Goto
  <2>5. CASE Suspended(t)
    BY <2>5 DEF Suspended, Goto, tokenVars
  <2> QED
    BY <1>2, <2>1, <2>2, <2>3, <2>4, <2>5 DEF LoopStep
<1>3. ASSUME NEW t \in Thread, GuestStep(t) PROVE TokenInv'
  <2>1. CASE Nest(t) \/ Unnest(t)
    BY <2>1 DEF Nest, Unnest, tokenVars
  <2>2. CASE Leave(t)
    BY <2>2 DEF Leave, Goto, tokenVars
  <2>3. CASE Throw(t)
    BY <2>3 DEF Throw, Goto, tokenVars
  <2>4. CASE Release(t)
    BY <2>4 DEF Release, Goto, tokenVars
  <2>5. CASE YieldInGuest(t)
    BY <2>5, <1>p DEF YieldInGuest, YieldTo, Handover, Goto
  <2> QED
    BY <1>3, <2>1, <2>2, <2>3, <2>4, <2>5 DEF GuestStep
<1>4. ASSUME NEW t \in Thread, TokenStep(t) PROVE TokenInv'
  <2>1. CASE AcquireEnter(t)
    BY <2>1 DEF AcquireEnter, JoinToken, Goto
  <2>2. CASE AcquireDone(t)
    BY <2>2 DEF AcquireDone, Resume, Goto, tokenVars
  <2>3. CASE AcquireTimeout(t)
    BY <2>3, WatchdogIdle DEF AcquireTimeout
  <2>4. CASE YieldRelease(t)
    BY <2>4 DEF YieldRelease, Goto, tokenVars
  <2>5. CASE YieldPark(t)
    BY <2>5 DEF YieldPark, Resume, Goto
  <2>6. CASE YieldWake(t)
    BY <2>6 DEF YieldWake, Resume, Goto
  <2>7. CASE BeginBlock(t)
    <3> DEFINE S == Runnable \ {t}
    <3>1. S \subseteq Thread /\ Runnable' = S
      BY <2>7 DEF BeginBlock
    <3>2. \/ current = t /\ current' = PickNext(t, S) /\ asleep' = asleep \ {current'}
          \/ current # t /\ current' = current /\ asleep' = asleep
      BY <2>7 DEF BeginBlock, PassOn, Handover
    <3>3. pc[t] = "released" /\ pc' = [pc EXCEPT ![t] = "wait"] /\ stop' = stop
          /\ exiting' = exiting
      BY <2>7 DEF BeginBlock, Goto
    <3>4. (S = {} => PickNext(t, S) = NoTid) /\ (S # {} => PickNext(t, S) \in S)
      BY <3>1, <1>p
    <3> HIDE DEF S
    <3>5. HolderRunnable'
      BY <3>1, <3>2, <3>4 DEF S
    <3>6. Membership'
      BY <3>1, <3>3 DEF S
    <3>7. Holding'
      BY <3>1, <3>2, <3>3, <3>4 DEF S
    <3>8. Sleepers' /\ NoLostHandover'
      BY <3>2, <3>3
    <3> QED
      BY <3>5, <3>6, <3>7, <3>8
  <2>8. CASE Unregister(t)
    BY <2>8, <1>p DEF Unregister, PassOn, Handover, Goto
  <2> QED
    BY <1>4, <2>1, <2>2, <2>3, <2>4, <2>5, <2>6, <2>7, <2>8 DEF TokenStep
<1>5. ASSUME NEW t \in Thread, Enter(t) \/ Relock(t) PROVE TokenInv'
  BY <1>5 DEF Enter, Relock, Goto, tokenVars
<1>6. CASE HostEnter \/ HostLeave
  BY <1>6 DEF HostEnter, HostLeave, tokenVars
<1>7. CASE RequestStop
  BY <1>7 DEF RequestStop, tokenVars
<1>8. CASE UNCHANGED vars
  BY <1>8 DEF vars
<1> QED
  BY <1>1, <1>2, <1>3, <1>4, <1>5, <1>6, <1>7, <1>8 DEF Next, ThreadNext
-----------------------------------------------------------------------------
(* The invariant and what follows from it.                                 *)

SchedInv == TypeOK /\ LockInv /\ TokenInv

(* The inductive invariant of the scheduler holds in every reachable state. *)
LEMMA SchedInvariant == Spec => []SchedInv
<1>1. Init => SchedInv
  <2>1. Init => LockInv
    BY SchedAssumption DEF Init, LockInv, GuestCodeLocked
  <2> QED
    BY <2>1, TypeInit, TokenInit DEF SchedInv
<1>2. SchedInv /\ [Next]_vars => SchedInv'
  BY TypeStep, LockStep, TokenStepInv DEF SchedInv
<1> QED
  BY <1>1, <1>2, PTL DEF Spec

(* Guest code runs on one host thread at a time, and no thread that waits  *)
(* owns the guest-execution mutex.                                         *)
THEOREM GuestCodeIsLocked == Spec => []GuestCodeLocked
<1>1. SchedInv => GuestCodeLocked
  BY DEF SchedInv, LockInv
<1> QED
  BY <1>1, SchedInvariant, PTL

(* Until a stop is requested, a guest thread outside a wait has the token. *)
THEOREM OnlyCurrentRunsAlways == Spec => []OnlyCurrentRuns
<1>1. SchedInv => OnlyCurrentRuns
  BY DEF SchedInv, TokenInv, Membership, Holding, OnlyCurrentRuns, HasToken
<1> QED
  BY <1>1, SchedInvariant, PTL

(* The holder is runnable, and the token is free only when nobody wants it *)
(* - in every configuration, even those that leave it on a dead thread.    *)
THEOREM HolderIsRunnable == Spec => []HolderRunnable
<1>1. SchedInv => HolderRunnable
  BY DEF SchedInv, TokenInv
<1> QED
  BY <1>1, SchedInvariant, PTL

(* The thread that has the token does not sleep through it. *)
THEOREM HandoverIsNotLost == Spec => []NoLostHandover
<1>1. SchedInv => NoLostHandover
  BY DEF SchedInv, TokenInv
<1> QED
  BY <1>1, SchedInvariant, PTL
-----------------------------------------------------------------------------
(* Ending a thread.                                                        *)

(* Exit handlers that do not block stay out of the round-robin, and then   *)
(* only live threads are in it.                                            *)
ExitInv ==
    /\ ~HandlersMayBlock =>
          \A t \in exiting : t \notin present /\ pc[t] \in {"loop", "enter", "guest"}
    /\ ~HandlersMayBlock /\ ~MainMayExit =>
          \A t \in present : pc[t] \notin {"idle", "spawned", "gone"}

(* Without blocking handlers and an exit of the main thread, every step keeps *)
(* ExitInv: a registered thread has not ended.                                *)
LEMMA ExitStep == SchedInv /\ ExitInv /\ [Next]_vars => ExitInv'
<1> SUFFICES ASSUME SchedInv, ExitInv, [Next]_vars, ~HandlersMayBlock PROVE ExitInv'
  BY DEF ExitInv
<1> USE SchedAssumption DEF SchedInv, TypeOK, ExitInv, Location
<1>1. ASSUME NEW t \in Thread, Start(t) PROVE ExitInv'
  BY <1>1 DEF Start, Goto, tokenVars
<1>2. ASSUME NEW t \in Thread, LoopStep(t) PROVE ExitInv'
  BY <1>2 DEF LoopStep, Step, End, Finish, YieldAtQuantum, Suspended, Goto, tokenVars
<1>3. ASSUME NEW t \in Thread, GuestStep(t) PROVE ExitInv'
  <2>1. CASE YieldInGuest(t)
    BY <2>1 DEF YieldInGuest, YieldTo, Goto, TokenInv, HolderRunnable, Runnable
  <2> QED
    BY <1>3, <2>1 DEF GuestStep, Nest, Unnest, Leave, Throw, Release, Goto, tokenVars
<1>4. ASSUME NEW t \in Thread, TokenStep(t) PROVE ExitInv'
  BY <1>4 DEF TokenStep, AcquireEnter, AcquireDone, AcquireTimeout, YieldRelease, JoinToken,
              YieldPark, YieldWake, BeginBlock, Unregister, Resume, Goto, tokenVars
<1>5. ASSUME NEW t \in Thread, Enter(t) \/ Relock(t) PROVE ExitInv'
  BY <1>5 DEF Enter, Relock, Goto, tokenVars
<1>6. CASE HostEnter \/ HostLeave \/ RequestStop
  BY <1>6 DEF HostEnter, HostLeave, RequestStop, tokenVars
<1>7. CASE UNCHANGED vars
  BY <1>7 DEF vars
<1> QED
  BY <1>1, <1>2, <1>3, <1>4, <1>5, <1>6, <1>7 DEF Next, ThreadNext

(* Where exit handlers do not block and the main thread does not exit, the *)
(* token never stays on a thread that has ended.                           *)
THEOREM NoCorpse == Spec => []TidyExit
<1>1. Init => ExitInv
  BY DEF Init, ExitInv
<1>2. SchedInv /\ ExitInv => TidyExit
  BY DEF SchedInv, TypeOK, TokenInv, HolderRunnable, Runnable, ExitInv, TidyExit,
         NoCorpseHolder
<1> QED
  BY <1>1, <1>2, ExitStep, SchedInvariant, PTL DEF Spec
-----------------------------------------------------------------------------
(* Round-robin.                                                            *)

(* PickNext passes over no candidate. *)
LEMMA PickSkipsNobody ==
    ASSUME order \in [Thread -> Nat], NEW S, S \subseteq Thread,
           NEW c \in Thread, NoTid \notin Thread, NEW t \in S
    PROVE  ~Between(c, t, PickNext(c, S))
<1> DEFINE later == {u \in S : order[u] > order[c]}
<1> DEFINE n == PickNext(c, S)
<1>1. n = IF later # {} THEN First(later) ELSE First(S)
  BY DEF PickNext, OrderOf
<1>2. CASE later # {}
  <2>1. n \in later /\ \A u \in later : order[n] <= order[u]
    BY <1>1, <1>2, FirstIsLeast, later \subseteq Thread
  <2> QED
    BY <2>1 DEF Between
<1>3. CASE later = {}
  <2>1. n \in S /\ \A u \in S : order[n] <= order[u]
    BY <1>1, <1>3, FirstIsLeast
  <2>2. \A u \in S : order[u] <= order[c]
    BY <1>3
  <2> QED
    BY <2>1, <2>2 DEF Between
<1> QED
  BY <1>2, <1>3

(* When the token moves, it passes over no runnable thread. *)
THEOREM RoundRobinAlways == Spec => RoundRobin
<1> DEFINE NoSkip ==
        \A c, n \in Thread : current = c /\ current' = n /\ c # n
            => \A t \in Runnable \cap Runnable' : ~Between(c, t, n)
<1>1. SchedInv /\ [Next]_vars => [NoSkip]_vars
  <2> SUFFICES ASSUME SchedInv, Next, NEW c \in Thread, NEW n \in Thread,
                      current = c, current' = n, c # n,
                      NEW x \in Runnable \cap Runnable'
               PROVE  ~Between(c, x, n)
    OBVIOUS
  <2> USE SchedAssumption DEF SchedInv, TypeOK
  <2>1. PICK t \in Thread : YieldAtQuantum(t) \/ YieldInGuest(t) \/ TokenStep(t)
    BY DEF Next, ThreadNext, LoopStep, GuestStep, Start, Step, End, Finish, Suspended,
           Nest, Unnest, Leave, Throw, Release, Enter, Relock, HostEnter, HostLeave,
           RequestStop, tokenVars
  <2>2. CASE YieldAtQuantum(t) \/ YieldInGuest(t)
    <3>1. t = c /\ n = PickNext(c, Runnable)
      BY <2>2 DEF YieldAtQuantum, YieldInGuest, YieldTo, Handover
    <3> QED
      BY <3>1, PickSkipsNobody DEF Runnable
  <2>3. CASE BeginBlock(t) \/ Unregister(t)
    <3>1. t = c /\ n = PickNext(c, Runnable \ {c}) /\ x \in Runnable \ {c}
      BY <2>3 DEF BeginBlock, Unregister, PassOn, Handover, Runnable
    <3> QED
      BY <3>1, PickSkipsNobody DEF Runnable
  <2>4. CASE AcquireTimeout(t)
    BY <2>4, WatchdogIdle DEF AcquireTimeout
  <2> QED
    BY <2>1, <2>2, <2>3, <2>4
       DEF TokenStep, AcquireEnter, JoinToken, AcquireDone, YieldRelease, YieldPark,
           YieldWake, tokenVars
<1> QED
  BY <1>1, SchedInvariant, PTL DEF Spec, RoundRobin
-----------------------------------------------------------------------------
(* Refinement of the abstract token.                                       *)

(* The scheduler's initial states are initial states of the token. *)
LEMMA TokenInitial == Init => Token!Init
BY DEF Init, Token!Init, Runnable

(* A step that leaves the token, the members and the stop flag alone is a *)
(* stutter of the abstract token.                                         *)
LEMMA TokenStutter ==
    ASSUME UNCHANGED <<current, present, blocked, stop>>
    PROVE  UNCHANGED Token!vars
BY DEF Token!vars, Runnable

(* Every step of the scheduler is a step of the token or a stutter. *)
LEMMA TokenStepMaps == SchedInv /\ [Next]_vars => [Token!Next]_Token!vars
<1> SUFFICES ASSUME SchedInv, [Next]_vars PROVE [Token!Next]_Token!vars
  OBVIOUS
<1> USE SchedAssumption DEF SchedInv, TypeOK
<1>1. CASE UNCHANGED <<current, present, blocked, stop>>
  BY <1>1, TokenStutter
<1>2. CASE RequestStop
  BY <1>2 DEF RequestStop, tokenVars, Token!Next, Token!Stop, Runnable
<1>3. ASSUME NEW t \in Thread, AcquireEnter(t) PROVE [Token!Next]_Token!vars
  <2>1. /\ Runnable' = Runnable \cup {t} /\ stop' = stop
        /\ current' = IF current = NoTid THEN t ELSE current
    BY <1>3 DEF AcquireEnter, JoinToken, Runnable
  <2>2. (current = NoTid => Runnable = {}) /\ (current # NoTid => current \in Runnable)
    BY DEF TokenInv, HolderRunnable
  <2>3. CASE t \in Runnable
    BY <2>1, <2>2, <2>3 DEF Token!vars
  <2>4. CASE t \notin Runnable
    <3>1. Token!Join(t)
      BY <2>1, <2>2, <2>4 DEF Token!Join
    <3> QED
      BY <3>1 DEF Token!Next
  <2> QED
    BY <2>3, <2>4
<1>4. ASSUME NEW t \in Thread, YieldAtQuantum(t) \/ YieldInGuest(t)
      PROVE  [Token!Next]_Token!vars
  <2>1. CASE current' = current
    BY <1>4, <2>1, TokenStutter DEF YieldAtQuantum, YieldInGuest
  <2>2. CASE current' # current
    <3>1. current = t /\ current' = PickNext(t, Runnable) /\ Runnable' = Runnable
          /\ stop' = stop /\ current' # NoTid
      BY <1>4, <2>2 DEF YieldAtQuantum, YieldInGuest, YieldTo, Handover, Runnable
    <3>2. current' \in Runnable /\ current \in Runnable
      BY <3>1, PickIsCandidate DEF TokenInv, HolderRunnable, Runnable
    <3>3. Token!Pass(current')
      BY <2>2, <3>1, <3>2 DEF Token!Pass
    <3> QED
      BY <3>2, <3>3 DEF Token!Next, Runnable
  <2> QED
    BY <2>1, <2>2
<1>5. ASSUME NEW t \in Thread, BeginBlock(t) \/ Unregister(t)
      PROVE  [Token!Next]_Token!vars
  <2>1. Runnable' = Runnable \ {t} /\ stop' = stop /\ pc[t] \in HasToken
    BY <1>5 DEF BeginBlock, Unregister, Runnable, HasToken
  <2>2. CASE current = t
    <3>1. current' = PickNext(t, Runnable \ {t})
      BY <1>5, <2>2 DEF BeginBlock, Unregister, PassOn, Handover
    <3>2. /\ Runnable \ {t} = {} => current' = NoTid
          /\ Runnable \ {t} # {} => current' \in Runnable \ {t}
      BY <3>1, PickIsCandidate DEF Runnable
    <3>3. Token!Drop
      BY <2>1, <2>2, <3>2 DEF Token!Drop
    <3> QED
      BY <3>3 DEF Token!Next
  <2>3. CASE current # t /\ t \in Runnable
    <3>1. stop /\ current' = current
      BY <1>5, <2>1, <2>3 DEF BeginBlock, Unregister, PassOn, TokenInv, Holding
    <3>2. Token!Withdraw(t)
      BY <2>1, <2>3, <3>1 DEF Token!Withdraw
    <3> QED
      BY <3>2 DEF Token!Next
  <2>4. CASE current # t /\ t \notin Runnable
    <3>1. current' = current
      BY <1>5, <2>4 DEF BeginBlock, Unregister, PassOn
    <3> QED
      BY <2>1, <2>4, <3>1 DEF Token!vars
  <2> QED
    BY <2>2, <2>3, <2>4
<1>6. ASSUME NEW t \in Thread, AcquireTimeout(t) PROVE [Token!Next]_Token!vars
  BY <1>6, WatchdogIdle, TokenStutter DEF AcquireTimeout
<1> QED
  BY <1>1, <1>2, <1>3, <1>4, <1>5, <1>6
     DEF Next, ThreadNext, LoopStep, GuestStep, TokenStep, Start, Step, End, Finish,
         Suspended, Nest, Unnest, Leave, Throw, Release, Enter, Relock, HostEnter,
         HostLeave, AcquireDone, YieldRelease, YieldPark, YieldWake, tokenVars, vars

(* The scheduler implements the abstract token. *)
THEOREM SchedulerImplementsToken == Spec => ImplementsToken
BY TokenInitial, TokenStepMaps, SchedInvariant, PTL DEF Spec, ImplementsToken, Token!Spec
=============================================================================
