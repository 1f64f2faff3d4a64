------------------------------- MODULE Netplay -------------------------------
(***************************************************************************)
(* Netplay: two machines run the same program and exchange only the inputs *)
(* of their players, in UDP datagrams that repeat the last few frames.     *)
(* With Window = 0 a peer waits for the other's input (lockstep); with     *)
(* Window > 0 it guesses the missing input, keeps a snapshot per frame     *)
(* and, at a frame boundary, goes back to the first frame it guessed wrong *)
(* (rollback).  The state of the simulation is what it was computed from:  *)
(* the inputs of both players, frame after frame.  A snapshot is a copy of *)
(* that history.  Frames are relative to the session (relFrame); the model *)
(* starts with both peers connected, and synchronised if they roll back.   *)
(*                                                                         *)
(* One host thread per peer does all of it; pump() drains the socket at    *)
(* several points of each frame, between which nothing reads what it       *)
(* wrote, so a datagram may be received between any two actions.           *)
(*                                                                         *)
(* pc[p] is where peer p stands in its frame Frame(p):                     *)
(*   gate    parked at the frame gate, the controller has the boundary     *)
(*   stall   in the controller's wait for the other's input                *)
(*   submit  before the game reads p's own pad                             *)
(*   read    before the game reads the other's pad                         *)
(***************************************************************************)
EXTENDS Integers, Sequences

CONSTANTS
    Input,       \* what a pad shows in a frame
    Neutral,     \* kNeutral: nothing pressed
    None,        \* no input
    Delay,       \* Delay[p]: g.delay of p; sampled in f, applied in f + Delay[p]
    Redundancy,  \* kRedundancy: inputs repeated per datagram
    Window,      \* g.rbWindow: frames that can be rolled back; 0: lockstep
    LastFrame,   \* bound on the frames that are run
    Pad,         \* Pad[p]: what the pad of player p may show
    MaxFaults    \* bound on the datagrams that are lost or delivered again

Peer == {1, 2}

ASSUME NetplayAssumption ==
    /\ Neutral \in Input
    /\ None \notin Input
    /\ Delay \in [Peer -> Nat]
    /\ Redundancy \in Nat \ {0}
    /\ Window \in Nat
    /\ LastFrame \in Nat
    /\ Pad \in [Peer -> SUBSET Input]
    /\ MaxFaults \in Nat

Longest == IF Delay[1] < Delay[2] THEN Delay[2] ELSE Delay[1]
Frames == 0 .. (LastFrame + Longest)

(* 0xFFFFFFFF, later than any frame. *)
Never == LastFrame + Longest + 1

VARIABLES
    pc,          \* see above
    used,        \* used[p][q]: the inputs of player q that peer p has simulated
    local,       \* local[p]: its own inputs, by the frame they are applied in
    remote,      \* remote[p]: the inputs received
    predicted,   \* predicted[p]: the guesses that p has run on
    rollbackTo,  \* the earliest frame that a guess turned out wrong for
    ring,        \* ring[p]: the snapshots, by frame
    resim,       \* resimTarget: the frame up to which p simulates again
    net,         \* the datagrams in flight
    faults,      \* how many have been lost or delivered again
    gaveUp       \* the peers that went on after a timeout without an input

peerVars == <<used, local, remote, predicted, rollbackTo, ring, resim>>
vars == <<pc, used, local, remote, predicted, rollbackTo, ring, resim, net, faults, gaveUp>>

Other(p) == 3 - p

(* The frame that p is about to run, or runs. *)
Frame(p) == IF Len(used[p][1]) < Len(used[p][2]) THEN Len(used[p][1]) ELSE Len(used[p][2])

Inputs == [Frames -> Input \cup {None}]
History == [Peer -> Seq(Input)]
Nothing == [f \in Frames |-> None]

Datagram(m) ==
    /\ m.from \in Peer
    /\ DOMAIN m.inputs \subseteq Frames
    /\ \A f \in DOMAIN m.inputs : m.inputs[f] \in Input

TypeOK ==
    /\ pc \in [Peer -> {"gate", "stall", "submit", "read"}]
    /\ used \in [Peer -> History]
    /\ local \in [Peer -> Inputs]
    /\ remote \in [Peer -> Inputs]
    /\ predicted \in [Peer -> Inputs]
    /\ rollbackTo \in [Peer -> Frames \cup {Never}]
    /\ \A p \in Peer :
        /\ DOMAIN ring[p] \subseteq Frames
        /\ \A f \in DOMAIN ring[p] : ring[p][f] \in History
    /\ resim \in [Peer -> Frames]
    /\ \A m \in net : Datagram(m)
    /\ faults \in 0 .. MaxFaults
    /\ gaveUp \subseteq Peer

Empty == [q \in Peer |-> <<>>]

Init ==
    /\ pc = [p \in Peer |-> "gate"]
    /\ used = [p \in Peer |-> Empty]
    /\ local = [p \in Peer |-> Nothing]
    /\ remote = [p \in Peer |-> Nothing]
    /\ predicted = [p \in Peer |-> Nothing]
    /\ rollbackTo = [p \in Peer |-> Never]
    /\ ring = [p \in Peer |-> [f \in {} |-> Empty]]
    /\ resim = [p \in Peer |-> 0]
    /\ net = {} /\ faults = 0 /\ gaveUp = {}

Goto(p, l) == pc' = [pc EXCEPT ![p] = l]
-----------------------------------------------------------------------------
(* The pads, which the game reads in the order of the ports in each frame. *)

Run(p) == Goto(p, IF p = 1 THEN "submit" ELSE "read")
AfterSubmit(p) == Goto(p, IF p = 1 THEN "read" ELSE "gate")
AfterRead(p) == Goto(p, IF p = 1 THEN "gate" ELSE "submit")

(* The game runs on with input i of player q. *)
Simulate(p, q, i) == used' = [used EXCEPT ![p][q] = Append(@, i)]

(* What a peer uses and sends for a frame it has no sample for. *)
OrNeutral(i) == IF i = None THEN Neutral ELSE i

(* Bug: the newest frame alone. *)
PacketOnce(p, inputs, f) ==
    [from |-> p, inputs |-> [g \in {h \in Frames : h = f} |-> OrNeutral(inputs[g])]]

(* Bug: one frame that is not sampled yet. *)
PacketAhead(p, inputs, f) ==
    [from |-> p,
     inputs |-> [g \in {h \in Frames : h <= f + 1 /\ f < h + Redundancy} |-> OrNeutral(inputs[g])]]

(* sendOurs: frame f and those before it. *)
Packet(p, inputs, f) ==
    [from |-> p,
     inputs |-> [g \in {h \in Frames : h <= f /\ f < h + Redundancy} |-> OrNeutral(inputs[g])]]

(* Bug: the last sample wins. *)
SubmitAgain(p, i) ==
    LET f == Frame(p)
        ours == [local[p] EXCEPT ![f + Delay[p]] = i]
    IN /\ pc[p] = "submit"
       /\ local' = [local EXCEPT ![p] = ours]
       /\ net' = net \cup {Packet(p, ours, f + Delay[p])}
       /\ Simulate(p, p, OrNeutral(ours[f]))
       /\ AfterSubmit(p)
       /\ UNCHANGED <<remote, predicted, rollbackTo, ring, resim, faults, gaveUp>>

(* p's own pad: ps2NetSubmitLocal, where the first sample for a frame wins, *)
(* and ps2NetGetInput for the local player.                                *)
Submit(p, i) ==
    LET f == Frame(p)
        ours == IF local[p][f + Delay[p]] = None
                THEN [local[p] EXCEPT ![f + Delay[p]] = i] ELSE local[p]
    IN /\ pc[p] = "submit"
       /\ local' = [local EXCEPT ![p] = ours]
       /\ net' = net \cup {Packet(p, ours, f + Delay[p])}
       /\ Simulate(p, p, OrNeutral(ours[f]))
       /\ AfterSubmit(p)
       /\ UNCHANGED <<remote, predicted, rollbackTo, ring, resim, faults, gaveUp>>

(* The other's pad (ps2NetGetInput): its input is here, or the frame is    *)
(* before the first sample.                                                *)
Known(p, f) == remote[p][f] # None \/ f < Delay[p]

ReadKnown(p) ==
    LET f == Frame(p)
    IN /\ pc[p] = "read"
       /\ Known(p, f)
       /\ Simulate(p, Other(p), OrNeutral(remote[p][f]))
       /\ AfterRead(p)
       /\ UNCHANGED <<local, remote, predicted, rollbackTo, ring, resim, net, faults, gaveUp>>

(* The newest input known before frame f. *)
Guess(p, f) ==
    LET known == {g \in Frames : g < f /\ remote[p][g] # None}
    IN IF known = {} THEN Neutral
       ELSE remote[p][CHOOSE g \in known : \A h \in known : h <= g]

(* Bug: the guess is not written down. *)
ReadForgetfully(p) ==
    LET f == Frame(p)
    IN /\ pc[p] = "read"
       /\ Window > 0 /\ ~Known(p, f)
       /\ Simulate(p, Other(p), Guess(p, f))
       /\ AfterRead(p)
       /\ UNCHANGED <<local, remote, predicted, rollbackTo, ring, resim, net, faults, gaveUp>>

(* It is not, and a peer that can roll back guesses. *)
ReadGuess(p) ==
    LET f == Frame(p)
    IN /\ pc[p] = "read"
       /\ Window > 0 /\ ~Known(p, f)
       /\ predicted' = [predicted EXCEPT ![p][f] = Guess(p, f)]
       /\ Simulate(p, Other(p), Guess(p, f))
       /\ AfterRead(p)
       /\ UNCHANGED <<local, remote, rollbackTo, ring, resim, net, faults, gaveUp>>

(* In lockstep it waits, pumping, but no longer than timeoutMs.            *)
ReadTimeout(p) ==
    LET f == Frame(p)
    IN /\ pc[p] = "read"
       /\ Window = 0 /\ ~Known(p, f)
       /\ gaveUp' = gaveUp \cup {p}
       /\ Simulate(p, Other(p), Neutral)
       /\ AfterRead(p)
       /\ UNCHANGED <<local, remote, predicted, rollbackTo, ring, resim, net, faults>>
-----------------------------------------------------------------------------
(* The network.                                                            *)

Earlier(f, g) == IF f < g THEN f ELSE g

(* The first frame of S, or Never. *)
FirstOf(S) == IF S = {} THEN Never ELSE CHOOSE f \in S : \A g \in S : f <= g

(* applyInputs. *)
ApplyInputs(p, m) ==
    LET here == DOMAIN m.inputs
        wrong == {f \in here : predicted[p][f] \notin {None, m.inputs[f]}}
    IN /\ rollbackTo' = [rollbackTo EXCEPT ![p] = Earlier(@, FirstOf(wrong))]
       /\ predicted' = [predicted EXCEPT ![p] =
            [f \in Frames |-> IF f \in here THEN None ELSE @[f]]]
       /\ remote' = [remote EXCEPT ![p] =
            [f \in Frames |-> IF f \in here THEN m.inputs[f] ELSE @[f]]]

(* pump takes a datagram out of the socket; the network may have another   *)
(* copy of it.                                                             *)
Receive(p, m) ==
    /\ m \in net
    /\ m.from = Other(p)
    /\ ApplyInputs(p, m)
    /\ \/ net' = net \ {m} /\ UNCHANGED faults
       \/ faults < MaxFaults /\ faults' = faults + 1 /\ UNCHANGED net
    /\ UNCHANGED <<pc, used, local, ring, resim, gaveUp>>

Lose(m) ==
    /\ m \in net
    /\ faults < MaxFaults
    /\ net' = net \ {m}
    /\ faults' = faults + 1
    /\ UNCHANGED <<pc, peerVars, gaveUp>>
-----------------------------------------------------------------------------
(* The frame boundary, in lockstep.                                        *)

NextFrame(p) ==
    /\ pc[p] = "gate"
    /\ Window = 0
    /\ Frame(p) < LastFrame
    /\ Run(p)
    /\ UNCHANGED <<peerVars, net, faults, gaveUp>>

(* The frame boundary, in rollback: netAtBoundary.                         *)

(* captureInto: the snapshot of the frame about to run; those older than   *)
(* the window go.                                                          *)
Capture(p) ==
    LET f == Frame(p)
    IN [g \in {h \in DOMAIN ring[p] : h + Window >= f} \cup {f} |->
            IF g = f THEN used[p] ELSE ring[p][g]]

(* ps2NetRollbackPoll: the frame to go back to; every poll forgets it.     *)
Due(p) == IF rollbackTo[p] < Frame(p) /\ Frame(p) <= rollbackTo[p] + Window
          THEN rollbackTo[p] ELSE Never

Poll(p) == rollbackTo' = [rollbackTo EXCEPT ![p] = Never]

(* Bug: one frame too late. *)
StallsLate(p) == \E g \in Frames : predicted[p][g] # None /\ g + Window < Frame(p)

(* ps2NetRollbackPoll: a guess is as old as the window.                    *)
Stalls(p) == \E g \in Frames : predicted[p][g] # None /\ g + Window <= Frame(p)

(* Bug: the corrected state is not kept. *)
ResimulateStale(p) ==
    /\ pc[p] = "gate"
    /\ Frame(p) < resim[p]
    /\ Run(p)
    /\ UNCHANGED <<used, local, remote, predicted, rollbackTo, ring, resim, net, faults, gaveUp>>

(* On the way back to the frame it came from.                              *)
Resimulate(p) ==
    /\ pc[p] = "gate"
    /\ Frame(p) < resim[p]
    /\ ring' = [ring EXCEPT ![p] = Capture(p)]
    /\ Run(p)
    /\ UNCHANGED <<used, local, remote, predicted, rollbackTo, resim, net, faults, gaveUp>>

(* It is at the front of its own simulation, in the gate or in the wait.   *)
AtFront(p) ==
    /\ Window > 0
    /\ pc[p] \in {"gate", "stall"}
    /\ Frame(p) >= resim[p]

(* The snapshots, with the corrected one if it has just come back.         *)
Settled(p) == IF resim[p] = 0 THEN ring[p] ELSE Capture(p)

(* The first poll says to wait; what else it says is lost: the loop's own  *)
(* polls overwrite rbTo.                                                   *)
StartStall(p) ==
    /\ AtFront(p)
    /\ pc[p] = "gate"
    /\ Stalls(p)
    /\ Poll(p)
    /\ ring' = [ring EXCEPT ![p] = Settled(p)]
    /\ resim' = [resim EXCEPT ![p] = 0]
    /\ Goto(p, "stall")
    /\ UNCHANGED <<used, local, remote, predicted, net, faults, gaveUp>>

(* A poll of the loop that changes nothing.                                *)
KeepWaiting(p) ==
    /\ pc[p] = "stall"
    /\ Stalls(p) /\ Due(p) = Never
    /\ Poll(p)
    /\ UNCHANGED <<pc, used, local, remote, predicted, ring, resim, net, faults, gaveUp>>

(* A guess was wrong: back to the snapshot of that frame.                  *)
RollBack(p) ==
    /\ AtFront(p)
    /\ Stalls(p) => pc[p] = "stall"
    /\ Due(p) \in DOMAIN ring[p]
    /\ Poll(p)
    /\ used' = [used EXCEPT ![p] = ring[p][Due(p)]]
    /\ ring' = [ring EXCEPT ![p] = Settled(p)]
    /\ resim' = [resim EXCEPT ![p] = Frame(p)]
    /\ Run(p)
    /\ UNCHANGED <<local, remote, predicted, net, faults, gaveUp>>

(* Nothing to go back to: the frame is captured and run.                   *)
RunFrame(p) ==
    /\ Frame(p) < LastFrame
    /\ Poll(p)
    /\ ring' = [ring EXCEPT ![p] = Capture(p)]
    /\ resim' = [resim EXCEPT ![p] = 0]
    /\ Run(p)
    /\ UNCHANGED <<used, local, remote, predicted, net, faults>>

GoOn(p) ==
    /\ AtFront(p)
    /\ Due(p) \notin DOMAIN ring[p]
    /\ Stalls(p) => pc[p] = "stall" /\ Due(p) # Never
    /\ RunFrame(p)
    /\ UNCHANGED gaveUp

(* Two seconds have passed.                                                *)
StallTimeout(p) ==
    /\ pc[p] = "stall"
    /\ Stalls(p) /\ Due(p) = Never
    /\ RunFrame(p)
    /\ gaveUp' = gaveUp \cup {p}
-----------------------------------------------------------------------------
GameStep(p) ==
    \/ \E i \in Pad[p] : Submit(p, i)
    \/ ReadKnown(p)
    \/ ReadGuess(p)

BoundaryStep(p) ==
    \/ NextFrame(p)
    \/ Resimulate(p)
    \/ StartStall(p)
    \/ KeepWaiting(p)
    \/ RollBack(p)
    \/ GoOn(p)

TimeoutStep(p) == ReadTimeout(p) \/ StallTimeout(p)

Next ==
    \/ \E p \in Peer : GameStep(p) \/ BoundaryStep(p) \/ TimeoutStep(p)
    \/ \E m \in net : Receive(Other(m.from), m) \/ Lose(m)

Spec == Init /\ [][Next]_vars

(* The host thread of each peer runs, and a datagram that is not lost      *)
(* arrives.                                                                *)
Fairness ==
    \A p \in Peer :
        /\ WF_vars(GameStep(p))
        /\ WF_vars(BoundaryStep(p))
        /\ WF_vars(\E m \in net : Receive(p, m))

FairSpec == Spec /\ Fairness
-----------------------------------------------------------------------------
(* Properties.                                                             *)

(* What player q really pressed for frame f. *)
Real(q, f) == OrNeutral(local[q][f])

(* Two peers that have run a frame have run it with the same inputs, in    *)
(* lockstep: whatever the network loses, repeats or reorders, short of a   *)
(* timeout ("THIS WILL DESYNC").                                           *)
SameInputs ==
    Window = 0 /\ gaveUp = {} =>
        \A q \in Peer : \A n \in DOMAIN used[1][q] \cap DOMAIN used[2][q] :
            used[1][q][n] = used[2][q][n]

(* A peer never simulates on an input that its owner did not press without *)
(* knowing it: the guess is still written down, or the rollback that       *)
(* corrects it is still due ("when the real one arrives and differs, the   *)
(* frame-boundary controller restores that frame's snapshot").             *)
GuessesAccounted ==
    \A p \in Peer \ gaveUp : \A n \in DOMAIN used[p][Other(p)] :
        LET i == used[p][Other(p)][n]
        IN \/ i = Real(Other(p), n - 1)
           \/ predicted[p][n - 1] = i
           \/ rollbackTo[p] <= n - 1

(* The rollback that is due at a boundary is one that the next poll will   *)
(* report, never "beyond the window", and it has its snapshot, of the      *)
(* frame it is for ("no snapshot" is never printed).                       *)
SnapshotThere ==
    \A p \in Peer \ gaveUp :
        AtFront(p) /\ rollbackTo[p] # Never =>
            /\ Due(p) = rollbackTo[p]
            /\ rollbackTo[p] \in DOMAIN ring[p]
            /\ \A q \in Peer : Len(ring[p][rollbackTo[p]][q]) = rollbackTo[p]

(* "the ring's oldest entry (frame - W) has every input it depends on      *)
(* known (the stall rule) and was refreshed by any rollback that reached   *)
(* it": the state that the checksum is taken from was computed from what   *)
(* the players really pressed.                                             *)
ConfirmedIsReal ==
    \A p \in Peer \ gaveUp :
        Frame(p) >= resim[p] =>
            LET g == Frame(p) - Window
            IN g \in DOMAIN ring[p] =>
                 \A q \in Peer : \A n \in 1 .. g : ring[p][g][q][n] = Real(q, n - 1)

(* A rollback never reaches behind the window: what was simulated more     *)
(* than Window frames ago is never simulated again.                        *)
ConfirmedStays ==
    [][\A p \in Peer, q \in Peer : \A n \in 1 .. (Frame(p) - Window) :
            used'[p][q][n] = used[p][q][n]]_vars

(* The frame that a peer waits for the other's input of. *)
Waiting(p, f) ==
    \/ /\ pc[p] = "read" /\ Window = 0
       /\ Frame(p) = f /\ ~Known(p, f)
    \/ /\ pc[p] = "stall"
       /\ predicted[p][f] # None

(* "Each packet repeats the last kRedundancy frames of input, so a dropped *)
(* datagram heals on the next arrival with no retransmit": a peer does not *)
(* wait for an input forever, nor until it gives up.  The frames at the    *)
(* end of the run, whose inputs no later datagram repeats, do not count.   *)
StallHeals ==
    \A p \in Peer, f \in Frames :
        f + Longest < LastFrame => (Waiting(p, f) ~> ~Waiting(p, f) \/ gaveUp # {})
=============================================================================
