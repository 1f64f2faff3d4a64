--------------------------- MODULE Netplay_proofs ---------------------------
(***************************************************************************)
(* What netplay promises, for every delay, redundancy, window and length   *)
(* of the run, whatever the network loses, repeats or reorders.            *)
(*                                                                         *)
(* NetInv holds in every session.  A frame that a player has sampled is    *)
(* never sampled again, so a datagram, and what is received from it, holds *)
(* what was really pressed; the frame that a peer has come to, Front, is   *)
(* moved by no rollback; the snapshots of the past are prefixes of what    *)
(* was simulated, and those of the window are all there.                   *)
(*                                                                         *)
(* Rolling is what a peer that guesses relies on besides.  It needs the    *)
(* datagrams to leave no gaps: what is known of the other comes before     *)
(* what is not.  Then a peer that has to wait, because a guess is as old   *)
(* as the window, has no rollback due, and the poll that says "wait" loses *)
(* nothing.  The last part shows how much redundancy leaves no gaps.       *)
(***************************************************************************)
EXTENDS Netplay, SequenceTheorems, FiniteSetTheorems, WellFoundedInduction, TLAPS

(* The frames that player q has sampled, or that come before its samples. *)
Sampled(q) == {f \in Frames : f < Delay[q] \/ local[q][f] # None}

AtGate(p) == pc[p] \in {"gate", "stall"}

(* The frame after the newest that p has begun: a rollback leaves it alone. *)
Front(p) ==
    LET f == IF AtGate(p) THEN Frame(p) ELSE Frame(p) + 1
    IN IF f < resim[p] THEN resim[p] ELSE f

(* Where a peer stands in its frame, and how much of it is simulated. *)
Place(p) ==
    /\ AtGate(p) => Len(used[p][p]) = Len(used[p][Other(p)])
    /\ pc[p] = "submit" =>
         Len(used[p][Other(p)]) = IF p = 1 THEN Len(used[p][p]) ELSE Len(used[p][p]) + 1
    /\ pc[p] = "read" =>
         Len(used[p][p]) = IF p = 1 THEN Len(used[p][Other(p)]) + 1
                                    ELSE Len(used[p][Other(p)])
    /\ Front(p) <= LastFrame
    /\ resim[p] # 0 => IF AtGate(p) THEN Frame(p) <= resim[p] ELSE Frame(p) < resim[p]
    /\ pc[p] = "stall" => resim[p] = 0
    /\ Window = 0 => pc[p] # "stall" /\ resim[p] = 0 /\ DOMAIN ring[p] = {}

PlaceInv == \A p \in Peer : Place(p)

(* No frame is sampled twice, and none before its time. *)
LocalInv ==
    \A q \in Peer : \A f \in Frames :
        /\ local[q][f] # None => Delay[q] <= f /\ f < Front(q) + Delay[q]
        /\ f < Len(used[q][q]) + Delay[q] => f \in Sampled(q)

WireInv ==
    \A m \in net :
        /\ m.from \in Peer
        /\ DOMAIN m.inputs \subseteq Sampled(m.from)
        /\ \A f \in DOMAIN m.inputs : m.inputs[f] = Real(m.from, f)

RemoteInv ==
    \A p \in Peer : \A f \in Frames :
        remote[p][f] # None => f \in Sampled(Other(p)) /\ remote[p][f] = Real(Other(p), f)

OwnInv == \A p \in Peer : \A n \in 1 .. Len(used[p][p]) : used[p][p][n] = Real(p, n - 1)

(* A snapshot is as long as its frame says, and those of the past are what *)
(* was run; the window is covered.                                         *)
RingInv(p) ==
    /\ \A g \in DOMAIN ring[p] : \A q \in Peer :
         /\ Len(ring[p][g][q]) = g
         /\ g < Frame(p) \/ (g = Frame(p) /\ ~AtGate(p)) =>
              \A n \in 1 .. g : ring[p][g][q][n] = used[p][q][n]
    /\ Window > 0 => \A g \in Nat : g < Front(p) /\ Front(p) <= g + Window => g \in DOMAIN ring[p]

RingsInv == DOMAIN ring = Peer /\ \A p \in Peer : RingInv(p)

(* The inductive invariant of every session. *)
NetInv == TypeOK /\ PlaceInv /\ LocalInv /\ WireInv /\ RemoteInv /\ OwnInv /\ RingsInv
-----------------------------------------------------------------------------
(* Numbers, peers and frames.                                              *)

(* The constants and the frames. *)
LEMMA Numbers ==
    /\ Longest \in Nat /\ LastFrame \in Nat /\ Window \in Nat /\ Redundancy \in Nat
    /\ \A p \in Peer : Delay[p] \in Nat /\ Delay[p] <= Longest
    /\ \A f \in Frames : f \in Nat /\ f < Never
    /\ Never \in Nat /\ Never \notin Frames
    /\ \A f \in Nat : f <= LastFrame => f \in Frames
    /\ \A f \in Nat, p \in Peer : f < LastFrame => f + Delay[p] \in Frames
    BY NetplayAssumption DEF Longest, Peer, Frames, Never

(* The two peers. *)
LEMMA Others == \A p \in Peer : /\ Other(p) \in Peer /\ Other(p) # p /\ Other(Other(p)) = p
                                /\ \A q \in Peer : q = p \/ q = Other(p)
                                /\ p = 1 => Other(p) = 2
                                /\ p = 2 => Other(p) = 1
                                /\ p = 1 \/ p = 2
    BY DEF Other, Peer

(* A non-empty set of naturals has a least member: the intervals 1..k are *)
(* finite and well-founded under strict inclusion.                         *)
LEMMA NatMin ==
    ASSUME NEW T, T \subseteq Nat, T # {}
    PROVE  \E m \in T : \A k \in T : m <= k
<1> DEFINE F == {1 .. k : k \in T}
           R == StrictSubsetOrdering(Nat)
<1>1. F \subseteq FiniteSubsetsOf(Nat)
    <2> SUFFICES ASSUME NEW k \in T PROVE 1 .. k \in FiniteSubsetsOf(Nat)
        OBVIOUS
    <2>1. IsFiniteSet(1 .. k)
        BY FS_Interval
    <2> QED BY <2>1 DEF FiniteSubsetsOf
<1>2. F # {}
    OBVIOUS
<1>3. PICK X \in F : \A Y \in F : <<Y, X>> \notin R
    <2> HIDE DEF F, R
    <2>1. IsWellFoundedOn(R, FiniteSubsetsOf(Nat))
        BY FS_StrictSubsetOrderingWellFounded DEF R
    <2> QED BY <1>1, <1>2, <2>1, WFMin
<1>4. PICK m \in T : X = 1 .. m
    OBVIOUS
<1>5. ASSUME NEW k \in T, k < m PROVE FALSE
    <2>1. 1 .. k \subseteq 1 .. m /\ 1 .. k # 1 .. m
        <3>1. m \in 1 .. m /\ m \notin 1 .. k
            BY <1>5
        <3> QED BY <1>5, <3>1
    <2>2. <<1 .. k, 1 .. m>> \in R
        BY <2>1 DEF StrictSubsetOrdering
    <2> QED BY <1>3, <1>4, <2>2
<1> QED BY <1>5

(* The first of some frames. *)
LEMMA FirstIs ==
    ASSUME NEW S, S \subseteq Frames
    PROVE  /\ FirstOf(S) \in S \cup {Never}
           /\ \A f \in S : FirstOf(S) <= f
           /\ FirstOf(S) = Never => S = {}
<1>1. CASE S = {}
    BY <1>1 DEF FirstOf
<1>2. CASE S # {}
    <2>1. \E f \in S : \A g \in S : f <= g
        BY <1>2, NatMin, Numbers
    <2>2. FirstOf(S) = CHOOSE f \in S : \A g \in S : f <= g
        BY <1>2 DEF FirstOf
    <2>3. FirstOf(S) \in S /\ \A g \in S : FirstOf(S) <= g
        BY <2>1, <2>2
    <2>4. FirstOf(S) # Never
        BY <2>3, Numbers
    <2> QED BY <2>3, <2>4
<1> QED BY <1>1, <1>2

(* A guess is an input. *)
LEMMA GuessTyped ==
    ASSUME TypeOK, NEW p \in Peer, NEW f \in Frames
    PROVE  Guess(p, f) \in Input
<1> DEFINE known == {g \in Frames : g < f /\ remote[p][g] # None}
           back == {Never - g : g \in known}
<1>1. CASE known = {}
    BY <1>1, NetplayAssumption DEF Guess
<1>2. CASE known # {}
    <2>1. back \subseteq Nat /\ back # {}
        BY <1>2, Numbers
    <2>2. PICK b \in back : \A c \in back : b <= c
        <3> HIDE DEF back
        <3> QED BY <2>1, NatMin
    <2>3. PICK g \in known : b = Never - g
        OBVIOUS
    <2>4. \A h \in known : Never - g <= Never - h
        BY <2>2, <2>3
    <2>5. \A h \in known : h <= g
        BY <2>4, Numbers
    <2>6. (CHOOSE k \in known : \A h \in known : h <= k) \in known
        BY <2>5
    <2>7. \A k \in known : remote[p][k] \in Input
        BY DEF TypeOK, Inputs
    <2>8. Guess(p, f) = remote[p][CHOOSE k \in known : \A h \in known : h <= k]
        BY <1>2 DEF Guess
    <2> QED BY <2>6, <2>7, <2>8
<1> QED BY <1>1, <1>2

(* What Place says of lengths and frames. *)
LEMMA FrameOf ==
    ASSUME TypeOK, NEW p \in Peer, Place(p)
    PROVE  /\ \A q \in Peer : /\ used[p][q] \in Seq(Input) /\ Len(used[p][q]) \in Nat
                              /\ Frame(p) <= Len(used[p][q]) /\ Len(used[p][q]) <= Front(p)
                              /\ AtGate(p) => Len(used[p][q]) = Frame(p)
           /\ Frame(p) \in Nat /\ Front(p) \in Nat /\ resim[p] \in Nat
           /\ Frame(p) <= Front(p) /\ Front(p) <= LastFrame /\ resim[p] <= Front(p)
           /\ pc[p] = "submit" => Frame(p) = Len(used[p][p])
           /\ pc[p] = "read" => Frame(p) = Len(used[p][Other(p)])
           /\ ~AtGate(p) => Frame(p) < Front(p) /\ Frame(p) < LastFrame /\ Frame(p) \in Frames
           /\ AtGate(p) /\ Frame(p) >= resim[p] => Front(p) = Frame(p)
           /\ AtGate(p) \/ pc[p] = "submit" \/ pc[p] = "read"
<1>1. \A q \in Peer : used[p][q] \in Seq(Input) /\ Len(used[p][q]) \in Nat
    BY DEF TypeOK, History
<1>2. Frame(p) \in Nat /\ \A q \in Peer : Frame(p) <= Len(used[p][q])
    BY <1>1, Others DEF Frame, Peer
<1>3. resim[p] \in Nat /\ Front(p) \in Nat
    BY <1>2, Numbers DEF TypeOK, Front
<1>4. AtGate(p) \/ pc[p] = "submit" \/ pc[p] = "read"
    BY DEF TypeOK, AtGate
<1>5. /\ AtGate(p) => \A q \in Peer : Len(used[p][q]) = Frame(p)
      /\ pc[p] = "submit" => Frame(p) = Len(used[p][p]) /\ Len(used[p][Other(p)]) <= Frame(p) + 1
      /\ pc[p] = "read" => Frame(p) = Len(used[p][Other(p)]) /\ Len(used[p][p]) <= Frame(p) + 1
    BY <1>1, Others DEF Place, Frame, Peer
<1>6. /\ Frame(p) <= Front(p) /\ Front(p) <= LastFrame /\ resim[p] <= Front(p)
      /\ ~AtGate(p) => Frame(p) + 1 <= Front(p)
      /\ AtGate(p) /\ Frame(p) >= resim[p] => Front(p) = Frame(p)
    BY <1>2, <1>3 DEF Place, Front
<1>7. \A q \in Peer : Len(used[p][q]) <= Front(p)
    BY <1>1, <1>2, <1>3, <1>4, <1>5, <1>6, Others DEF AtGate
<1>8. ~AtGate(p) => Frame(p) < Front(p) /\ Frame(p) < LastFrame /\ Frame(p) \in Frames
    BY <1>2, <1>3, <1>6, Numbers
<1> QED BY <1>1, <1>2, <1>3, <1>4, <1>5, <1>6, <1>7, <1>8
-----------------------------------------------------------------------------
(* What the steps of each kind do to the simulation of a peer.             *)

(* A step leaves peer r where it is in its simulation. *)
Same(r) == pc'[r] = pc[r] /\ used'[r] = used[r] /\ resim'[r] = resim[r] /\ ring'[r] = ring[r]

(* Then it stays in its place, and so do its snapshots. *)
LEMMA SameKeeps ==
    ASSUME NEW r \in Peer, Same(r)
    PROVE  /\ Frame(r)' = Frame(r) /\ Front(r)' = Front(r) /\ AtGate(r)' = AtGate(r)
           /\ Place(r) => Place(r)'
           /\ RingInv(r) => RingInv(r)'
<1>1. Frame(r)' = Frame(r)
    BY DEF Same, Frame
<1>2. AtGate(r)' = AtGate(r)
    BY DEF Same, AtGate
<1>3. Front(r)' = Front(r)
    BY <1>1, <1>2 DEF Same, Front
<1>4. Place(r) => Place(r)'
    BY <1>1, <1>2, <1>3 DEF Same, Place
<1>5. RingInv(r) => RingInv(r)'
    BY <1>1, <1>2, <1>3 DEF Same, RingInv
<1> QED BY <1>1, <1>2, <1>3, <1>4, <1>5

(* One input more of player q is simulated: the frame is half way, or over. *)
LEMMA SimulateStep ==
    ASSUME TypeOK, NEW p \in Peer, Place(p), RingInv(p), NEW q \in Peer, NEW j \in Input,
           \/ pc[p] = "submit" /\ q = p /\ AfterSubmit(p)
           \/ pc[p] = "read" /\ q = Other(p) /\ AfterRead(p),
           Simulate(p, q, j), UNCHANGED <<resim, ring>>
    PROVE  /\ pc' \in [Peer -> {"gate", "stall", "submit", "read"}]
           /\ used' \in [Peer -> History]
           /\ \A r \in Peer : r # p => Same(r)
           /\ \A r \in Peer : r # q => used'[p][r] = used[p][r]
           /\ Len(used[p][q]) = Frame(p)
           /\ Len(used'[p][q]) = Frame(p) + 1
           /\ used'[p][q][Frame(p) + 1] = j
           /\ \A n \in 1 .. Frame(p) : used'[p][q][n] = used[p][q][n]
           /\ ~AtGate(p) /\ Frame(p) \in Frames /\ Frame(p) < LastFrame /\ Frame(p) < Front(p)
           /\ Front(p)' = Front(p)
           /\ Place(p)'
           /\ RingInv(p)'
<1> DEFINE f == Frame(p)
           o == Other(p)
<1>1. /\ o \in Peer /\ o # p /\ Other(o) = p /\ (p = 1 => o = 2) /\ (p = 2 => o = 1)
      /\ p = 1 \/ p = 2
      /\ \A r \in Peer : r = p \/ r = o
      /\ \A r, s \in Peer : used[r][s] \in Seq(Input) /\ Len(used[r][s]) \in Nat
    BY Others DEF TypeOK, History
<1>2. /\ f \in Nat /\ f \in Frames /\ f < LastFrame /\ f < Front(p) /\ ~AtGate(p)
      /\ f = Len(used[p][q]) /\ resim[p] \in Nat /\ Front(p) \in Nat
      /\ Front(p) <= LastFrame
    BY FrameOf DEF AtGate
<1>3. used' = [used EXCEPT ![p][q] = Append(@, j)]
    BY DEF Simulate
<1>4. /\ pc[p] = "submit" => pc' = [pc EXCEPT ![p] = IF p = 1 THEN "read" ELSE "gate"]
      /\ pc[p] = "read" => pc' = [pc EXCEPT ![p] = IF p = 1 THEN "gate" ELSE "submit"]
    BY DEF AfterSubmit, AfterRead, Goto
<1>5. pc' \in [Peer -> {"gate", "stall", "submit", "read"}]
    BY <1>2, <1>4 DEF TypeOK
<1>6. /\ used'[p][q] = Append(used[p][q], j)
      /\ \A r, s \in Peer : <<r, s>> # <<p, q>> => used'[r][s] = used[r][s]
      /\ \A r \in Peer : r # p => used'[r] = used[r]
    BY <1>3 DEF TypeOK, History
<1>7. used' \in [Peer -> History]
    BY <1>1, <1>3 DEF TypeOK, History
<1>8. \A r \in Peer : r # p => Same(r)
    BY <1>4, <1>6 DEF TypeOK, Same
<1>9. /\ Len(used'[p][q]) = f + 1
      /\ used'[p][q][f + 1] = j
      /\ \A n \in 1 .. f : used'[p][q][n] = used[p][q][n]
    BY <1>1, <1>2, <1>6
<1>10. /\ p = 1 /\ pc[p] = "submit" =>
            pc'[p] = "read" /\ Len(used'[p][p]) = f + 1 /\ Len(used'[p][o]) = f
       /\ p = 2 /\ pc[p] = "read" =>
            pc'[p] = "submit" /\ Len(used'[p][p]) = f /\ Len(used'[p][o]) = f + 1
       /\ (p = 1 /\ pc[p] = "read") \/ (p = 2 /\ pc[p] = "submit") =>
            pc'[p] = "gate" /\ Len(used'[p][p]) = f + 1 /\ Len(used'[p][o]) = f + 1
    <2>1. p = 1 /\ pc[p] = "submit" => Len(used[p][o]) = f
        BY <1>1, <1>2 DEF Place
    <2>2. p = 2 /\ pc[p] = "read" => Len(used[p][p]) = f
        BY <1>1, <1>2 DEF Place
    <2>3. p = 1 /\ pc[p] = "read" => Len(used[p][p]) = f + 1
        BY <1>1, <1>2 DEF Place
    <2>4. p = 2 /\ pc[p] = "submit" => Len(used[p][o]) = f + 1
        BY <1>1, <1>2 DEF Place
    <2>5. pc \in [Peer -> {"gate", "stall", "submit", "read"}]
        BY DEF TypeOK
    <2>6. \A s \in Peer : s # q => used'[p][s] = used[p][s]
        BY <1>6
    <2> QED BY <1>1, <1>2, <1>4, <1>9, <2>1, <2>2, <2>3, <2>4, <2>5, <2>6
<1>11. \/ /\ pc'[p] \in {"read", "submit"} /\ ~AtGate(p)' /\ Frame(p)' = f
       \/ /\ pc'[p] = "gate" /\ AtGate(p)' /\ Frame(p)' = f + 1
    <2>1. CASE p = 1
        BY <2>1, <1>1, <1>2, <1>10 DEF Frame, AtGate
    <2>2. CASE p = 2
        BY <2>2, <1>1, <1>2, <1>10 DEF Frame, AtGate
    <2> QED BY <2>1, <2>2, <1>1
<1>12. Front(p)' = Front(p)
    BY <1>2, <1>11 DEF Front
<1>13. Place(p)'
    <2>1. pc[p] \in {"submit", "read"}
        OBVIOUS
    <2>2. resim[p] # 0 => f < resim[p]
        BY <1>2 DEF Place
    <2>3. resim[p] # 0 => IF AtGate(p)' THEN Frame(p)' <= resim[p] ELSE Frame(p)' < resim[p]
        BY <2>2, <1>2, <1>11
    <2>4. /\ AtGate(p)' => Len(used'[p][p]) = Len(used'[p][o])
          /\ pc'[p] = "submit" =>
                Len(used'[p][o]) = IF p = 1 THEN Len(used'[p][p]) ELSE Len(used'[p][p]) + 1
          /\ pc'[p] = "read" =>
                Len(used'[p][p]) = IF p = 1 THEN Len(used'[p][o]) + 1 ELSE Len(used'[p][o])
        BY <2>1, <1>1, <1>10, <1>11
    <2>5. pc'[p] # "stall"
        BY <2>1, <1>1, <1>10
    <2>6. Window = 0 => resim'[p] = 0 /\ DOMAIN ring'[p] = {}
        BY DEF Place
    <2> QED BY <2>3, <2>4, <2>5, <2>6, <1>2, <1>12 DEF Place
<1>14. RingInv(p)'
    <2>1. ASSUME NEW g \in DOMAIN ring[p], NEW s \in Peer,
                 g < Frame(p)' \/ (g = Frame(p)' /\ ~AtGate(p)'), NEW n \in 1 .. g
          PROVE  ring[p][g][s][n] = used'[p][s][n]
        <3>1. g \in Nat
            BY Numbers DEF TypeOK
        <3>2. g <= f
            BY <3>1, <2>1, <1>2, <1>11
        <3>3. ring[p][g][s][n] = used[p][s][n]
            BY <3>1, <3>2, <1>2 DEF RingInv
        <3>4. used'[p][s][n] = used[p][s][n]
            BY <3>1, <3>2, <1>2, <1>6, <1>9
        <3> QED BY <3>3, <3>4
    <2> QED BY <2>1, <1>12 DEF RingInv
<1> QED BY <1>2, <1>5, <1>6, <1>7, <1>8, <1>9, <1>12, <1>13, <1>14

(* The snapshots after a capture. *)
LEMMA CaptureIs ==
    ASSUME TypeOK, NEW p \in Peer, Place(p), RingInv(p), AtGate(p)
    PROVE  /\ \A g \in DOMAIN Capture(p) :
                /\ g \in Frames /\ g \in Nat /\ Capture(p)[g] \in History
                /\ \A q \in Peer :
                     /\ Len(Capture(p)[g][q]) = g
                     /\ g <= Frame(p) => \A n \in 1 .. g : Capture(p)[g][q][n] = used[p][q][n]
           /\ Frame(p) \in DOMAIN Capture(p)
           /\ \A g \in DOMAIN ring[p] : g + Window >= Frame(p) => g \in DOMAIN Capture(p)
<1> DEFINE f == Frame(p)
           C == Capture(p)
<1>1. /\ f \in Nat /\ f \in Frames
      /\ \A q \in Peer : Len(used[p][q]) = f
    BY FrameOf, Numbers
<1>2. /\ DOMAIN C = {h \in DOMAIN ring[p] : h + Window >= f} \cup {f}
      /\ \A g \in DOMAIN C : C[g] = IF g = f THEN used[p] ELSE ring[p][g]
    BY DEF Capture
<1>3. \A g \in DOMAIN ring[p] : g \in Frames /\ g \in Nat /\ ring[p][g] \in History
    BY Numbers DEF TypeOK
<1>4. ASSUME NEW g \in DOMAIN C
      PROVE  /\ g \in Frames /\ g \in Nat /\ C[g] \in History
             /\ \A q \in Peer :
                     /\ Len(C[g][q]) = g
                     /\ g <= f => \A n \in 1 .. g : C[g][q][n] = used[p][q][n]
    <2> HIDE DEF C
    <2>1. CASE g = f
        BY <2>1, <1>1, <1>2 DEF TypeOK
    <2>2. CASE g # f
        <3>1. g \in DOMAIN ring[p] /\ C[g] = ring[p][g]
            BY <2>2, <1>2
        <3>2. g <= f => g < f
            BY <2>2, <3>1, <1>1, <1>3
        <3>3. \A q \in Peer :
                     /\ Len(ring[p][g][q]) = g
                     /\ g < f => \A n \in 1 .. g : ring[p][g][q][n] = used[p][q][n]
            BY <3>1 DEF RingInv
        <3> QED BY <3>1, <3>2, <3>3, <1>3
    <2> QED BY <2>1, <2>2
<1>5. \A g \in DOMAIN ring[p] : g + Window >= f => g \in DOMAIN C
    BY <1>2
<1> QED BY <1>2, <1>4, <1>5

(* The snapshots when the peer is at its front again. *)
LEMMA SettledIs ==
    ASSUME TypeOK, NEW p \in Peer, Place(p), RingInv(p), AtGate(p)
    PROVE  /\ \A g \in DOMAIN Settled(p) :
                /\ g \in Frames /\ g \in Nat /\ Settled(p)[g] \in History
                /\ \A q \in Peer :
                     /\ Len(Settled(p)[g][q]) = g
                     /\ g < Frame(p) => \A n \in 1 .. g : Settled(p)[g][q][n] = used[p][q][n]
           /\ \A g \in DOMAIN ring[p] : g + Window >= Frame(p) => g \in DOMAIN Settled(p)
<1>1. CASE resim[p] = 0
    <2>1. Settled(p) = ring[p]
        BY <1>1 DEF Settled
    <2>2. \A g \in DOMAIN ring[p] : g \in Frames /\ g \in Nat /\ ring[p][g] \in History
        BY Numbers DEF TypeOK
    <2> QED BY <2>1, <2>2 DEF RingInv
<1>2. CASE resim[p] # 0
    <2>1. Settled(p) = Capture(p)
        BY <1>2 DEF Settled
    <2>2. Frame(p) \in Nat
        BY FrameOf
    <2>3. \A g \in DOMAIN Capture(p) : g \in Nat /\ (g < Frame(p) => g <= Frame(p))
        BY <2>2, CaptureIs
    <2> QED BY <2>1, <2>3, CaptureIs
<1> QED BY <1>1, <1>2

(* The types of what a boundary changes. *)
BoundaryTypes ==
    /\ pc \in [Peer -> {"gate", "stall", "submit", "read"}]
    /\ used \in [Peer -> History]
    /\ resim \in [Peer -> Frames]
    /\ \A p \in Peer :
        /\ DOMAIN ring[p] \subseteq Frames
        /\ \A f \in DOMAIN ring[p] : ring[p][f] \in History
    /\ DOMAIN ring = Peer

(* A frame is begun: a new one, or one of those on the way back. *)
LEMMA BeginStep ==
    ASSUME TypeOK, NEW p \in Peer, Place(p), RingInv(p), DOMAIN ring = Peer,
           AtGate(p), Frame(p) < LastFrame, Run(p), used' = used,
           \/ Window = 0 /\ UNCHANGED <<ring, resim>>
           \/ /\ Window > 0
              /\ ring' = [ring EXCEPT ![p] = Capture(p)]
              /\ \/ Frame(p) >= resim[p] /\ resim' = [resim EXCEPT ![p] = 0]
                 \/ Frame(p) < resim[p] /\ resim' = resim
    PROVE  /\ BoundaryTypes'
           /\ \A r \in Peer : r # p => Same(r)
           /\ Place(p)' /\ RingInv(p)'
           /\ Front(p)' = IF Frame(p) < resim[p] THEN Front(p) ELSE Front(p) + 1
<1> DEFINE f == Frame(p)
<1>1. /\ f \in Nat /\ f \in Frames /\ resim[p] \in Nat /\ Front(p) \in Nat
      /\ f <= Front(p) /\ Front(p) <= LastFrame
      /\ \A q \in Peer : Len(used[p][q]) = f
      /\ f >= resim[p] => Front(p) = f
      /\ f < resim[p] => Front(p) = resim[p]
      /\ 0 \in Frames /\ LastFrame \in Nat /\ Window \in Nat
    BY FrameOf, Numbers DEF Front
<1>2. /\ pc' = [pc EXCEPT ![p] = IF p = 1 THEN "submit" ELSE "read"]
    BY DEF Run, Goto
<1>3. BoundaryTypes'
    <2>1. pc' \in [Peer -> {"gate", "stall", "submit", "read"}]
        BY <1>2 DEF TypeOK
    <2>2. resim' \in [Peer -> Frames]
        BY <1>1 DEF TypeOK
    <2>3. \A g \in DOMAIN Capture(p) : g \in Frames /\ Capture(p)[g] \in History
        BY CaptureIs
    <2>4. DOMAIN ring' = Peer
        OBVIOUS
    <2>5. ASSUME NEW r \in Peer
          PROVE  /\ DOMAIN ring'[r] \subseteq Frames
                 /\ \A g \in DOMAIN ring'[r] : ring'[r][g] \in History
        <3>1. ring'[r] = ring[r] \/ (r = p /\ ring'[r] = Capture(p))
            OBVIOUS
        <3> QED BY <2>3, <3>1 DEF TypeOK
    <2> QED BY <2>1, <2>2, <2>4, <2>5 DEF BoundaryTypes, TypeOK
<1>4. \A r \in Peer : r # p => Same(r)
    BY <1>2 DEF TypeOK, Same
<1>5. /\ pc'[p] = IF p = 1 THEN "submit" ELSE "read"
      /\ ~AtGate(p)'
      /\ Frame(p)' = f
    BY <1>2 DEF TypeOK, AtGate, Frame
<1>6. resim'[p] = IF f < resim[p] THEN resim[p] ELSE 0
    BY <1>1 DEF TypeOK, Place
<1>7. Front(p)' = IF f < resim[p] THEN Front(p) ELSE Front(p) + 1
    BY <1>1, <1>5, <1>6 DEF Front
<1>8. Place(p)'
    <2>1. Front(p)' <= LastFrame
        BY <1>1, <1>7
    <2>2. Len(used'[p][p]) = Len(used'[p][Other(p)])
        BY <1>1, Others
    <2>3. Window = 0 => resim'[p] = 0 /\ DOMAIN ring'[p] = {}
        BY DEF Place
    <2>4. resim'[p] # 0 => Frame(p)' < resim'[p]
        BY <1>1, <1>5, <1>6
    <2>5. pc'[p] = "submit" => p = 1
        BY <1>5
    <2>6. pc'[p] = "read" => p # 1
        BY <1>5
    <2>7. pc'[p] # "stall"
        BY <1>5
    <2> QED BY <2>1, <2>2, <2>3, <2>4, <2>5, <2>6, <2>7, <1>5 DEF Place
<1>9. RingInv(p)'
    <2>1. CASE Window = 0
        <3>1. DOMAIN ring'[p] = {}
            BY <2>1 DEF Place
        <3> QED BY <2>1, <3>1 DEF RingInv
    <2>2. CASE Window > 0
        <3>1. ring'[p] = Capture(p)
            BY <2>2
        <3>2. ASSUME NEW g \in DOMAIN ring'[p], NEW q \in Peer
              PROVE  /\ Len(ring'[p][g][q]) = g
                     /\ g < Frame(p)' \/ (g = Frame(p)' /\ ~AtGate(p)') =>
                          \A n \in 1 .. g : ring'[p][g][q][n] = used'[p][q][n]
            BY <1>1, <1>5, <3>1, CaptureIs
        <3>3. ASSUME NEW g \in Nat, g < Front(p)', Front(p)' <= g + Window
              PROVE  g \in DOMAIN ring'[p]
            <4>1. g = f => g \in DOMAIN ring'[p]
                BY <3>1, CaptureIs
            <4>2. g # f => g < Front(p) /\ Front(p) <= g + Window /\ g + Window >= f
                BY <1>1, <1>7, <3>3
            <4>3. g # f => g \in DOMAIN ring[p]
                BY <4>2, <2>2 DEF RingInv
            <4> QED BY <3>1, <4>1, <4>2, <4>3, CaptureIs
        <3> QED BY <3>2, <3>3 DEF RingInv
    <2> QED BY <2>1, <2>2, <1>1
<1> QED BY <1>3, <1>4, <1>7, <1>8, <1>9

(* The wait for an input begins. *)
LEMMA StartStallStep ==
    ASSUME TypeOK, NEW p \in Peer, Place(p), RingInv(p), DOMAIN ring = Peer, StartStall(p)
    PROVE  /\ BoundaryTypes'
           /\ \A r \in Peer : r # p => Same(r)
           /\ Place(p)' /\ RingInv(p)'
           /\ Front(p)' = Front(p)
<1> DEFINE f == Frame(p)
<1>1. /\ pc' = [pc EXCEPT ![p] = "stall"] /\ used' = used
      /\ ring' = [ring EXCEPT ![p] = Settled(p)]
      /\ resim' = [resim EXCEPT ![p] = 0]
      /\ Window > 0 /\ f >= resim[p] /\ pc[p] = "gate" /\ AtGate(p)
    BY DEF StartStall, Goto, AtFront, AtGate
<1>2. /\ f \in Nat /\ resim[p] \in Nat /\ Front(p) = f /\ f <= LastFrame
      /\ \A q \in Peer : Len(used[p][q]) = f
      /\ 0 \in Frames
    BY <1>1, FrameOf, Numbers
<1>3. BoundaryTypes'
    <2>1. pc' \in [Peer -> {"gate", "stall", "submit", "read"}]
        BY <1>1 DEF TypeOK
    <2>2. resim' \in [Peer -> Frames]
        BY <1>1, <1>2 DEF TypeOK
    <2>3. \A g \in DOMAIN Settled(p) : g \in Frames /\ Settled(p)[g] \in History
        BY <1>1, SettledIs
    <2>4. DOMAIN ring' = Peer
        BY <1>1
    <2>5. ASSUME NEW r \in Peer
          PROVE  /\ DOMAIN ring'[r] \subseteq Frames
                 /\ \A g \in DOMAIN ring'[r] : ring'[r][g] \in History
        <3>1. ring'[r] = ring[r] \/ (r = p /\ ring'[r] = Settled(p))
            BY <1>1
        <3> QED BY <2>3, <3>1 DEF TypeOK
    <2> QED BY <1>1, <2>1, <2>2, <2>4, <2>5 DEF BoundaryTypes, TypeOK
<1>4. \A r \in Peer : r # p => Same(r)
    BY <1>1 DEF TypeOK, Same
<1>5. /\ pc'[p] = "stall" /\ AtGate(p)' /\ Frame(p)' = f /\ resim'[p] = 0
      /\ ring'[p] = Settled(p)
    BY <1>1 DEF TypeOK, AtGate, Frame
<1>6. Front(p)' = Front(p)
    BY <1>2, <1>5 DEF Front
<1>7. Place(p)'
    <2>1. Len(used'[p][p]) = Len(used'[p][Other(p)])
        BY <1>1, <1>2, Others
    <2> QED BY <2>1, <1>1, <1>2, <1>5, <1>6 DEF Place
<1>8. RingInv(p)'
    <2>1. ASSUME NEW g \in DOMAIN ring'[p], NEW q \in Peer
          PROVE  /\ Len(ring'[p][g][q]) = g
                 /\ g < Frame(p)' \/ (g = Frame(p)' /\ ~AtGate(p)') =>
                      \A n \in 1 .. g : ring'[p][g][q][n] = used'[p][q][n]
        BY <1>1, <1>5, SettledIs
    <2>2. ASSUME NEW g \in Nat, g < Front(p)', Front(p)' <= g + Window
          PROVE  g \in DOMAIN ring'[p]
        <3>1. g \in DOMAIN ring[p] /\ g + Window >= f
            BY <1>1, <1>2, <1>6, <2>2, Numbers DEF RingInv
        <3> QED BY <3>1, <1>1, <1>5, SettledIs
    <2> QED BY <2>1, <2>2 DEF RingInv
<1> QED BY <1>3, <1>4, <1>6, <1>7, <1>8

(* A peer goes back to the snapshot of a frame: what it has simulated is   *)
(* cut there.                                                              *)
LEMMA RollBackStep ==
    ASSUME TypeOK, NEW p \in Peer, Place(p), RingInv(p), DOMAIN ring = Peer, RollBack(p)
    PROVE  /\ BoundaryTypes'
           /\ \A r \in Peer : r # p => Same(r)
           /\ Place(p)' /\ RingInv(p)'
           /\ Front(p)' = Front(p) /\ Frame(p) = Front(p) /\ AtGate(p)
           /\ Due(p) = rollbackTo[p] /\ Due(p) \in Frames
           /\ Due(p) < Frame(p) /\ Frame(p) <= Due(p) + Window
           /\ resim'[p] = Frame(p)
           /\ \A q \in Peer :
                /\ Len(used[p][q]) = Frame(p)
                /\ Len(used'[p][q]) = Due(p)
                /\ \A n \in 1 .. Due(p) : used'[p][q][n] = used[p][q][n]
<1> DEFINE f == Frame(p)
           d == Due(p)
<1>1. /\ pc' = [pc EXCEPT ![p] = IF p = 1 THEN "submit" ELSE "read"]
      /\ used' = [used EXCEPT ![p] = ring[p][d]]
      /\ ring' = [ring EXCEPT ![p] = Settled(p)]
      /\ resim' = [resim EXCEPT ![p] = f]
      /\ Window > 0 /\ f >= resim[p] /\ AtGate(p)
      /\ d \in DOMAIN ring[p]
    BY DEF RollBack, Run, Goto, AtFront, AtGate
<1>2. /\ f \in Nat /\ resim[p] \in Nat /\ Front(p) = f /\ f <= LastFrame /\ f \in Frames
      /\ \A q \in Peer : Len(used[p][q]) = f
    BY <1>1, FrameOf, Numbers
<1>3. d \in Frames /\ d \in Nat /\ d # Never /\ ring[p][d] \in History
    BY <1>1, Numbers DEF TypeOK
<1>4. d = rollbackTo[p] /\ d < f /\ f <= d + Window
    BY <1>3 DEF Due
<1>5. \A q \in Peer :
        /\ Len(ring[p][d][q]) = d
        /\ \A n \in 1 .. d : ring[p][d][q][n] = used[p][q][n]
    BY <1>1, <1>4 DEF RingInv
<1>6. BoundaryTypes'
    <2>1. pc' \in [Peer -> {"gate", "stall", "submit", "read"}]
        BY <1>1 DEF TypeOK
    <2>2. resim' \in [Peer -> Frames]
        BY <1>1, <1>2 DEF TypeOK
    <2>3. \A g \in DOMAIN Settled(p) : g \in Frames /\ Settled(p)[g] \in History
        BY <1>1, SettledIs
    <2>4. DOMAIN ring' = Peer
        BY <1>1
    <2>5. ASSUME NEW r \in Peer
          PROVE  /\ DOMAIN ring'[r] \subseteq Frames
                 /\ \A g \in DOMAIN ring'[r] : ring'[r][g] \in History
        <3>1. ring'[r] = ring[r] \/ (r = p /\ ring'[r] = Settled(p))
            BY <1>1
        <3> QED BY <2>3, <3>1 DEF TypeOK
    <2>6. used' \in [Peer -> History]
        BY <1>1, <1>3 DEF TypeOK
    <2> QED BY <1>1, <2>1, <2>2, <2>4, <2>5, <2>6 DEF BoundaryTypes
<1>7. \A r \in Peer : r # p => Same(r)
    BY <1>1 DEF TypeOK, Same
<1>8. /\ pc'[p] = IF p = 1 THEN "submit" ELSE "read"
      /\ ~AtGate(p)'
      /\ used'[p] = ring[p][d] /\ resim'[p] = f /\ ring'[p] = Settled(p)
    BY <1>1 DEF TypeOK, AtGate
<1>9. Frame(p)' = d
    BY <1>3, <1>5, <1>8 DEF Frame, Peer
<1>10. Front(p)' = Front(p)
    BY <1>2, <1>3, <1>4, <1>8, <1>9 DEF Front
<1>11. Place(p)'
    <2>1. Len(used'[p][p]) = Len(used'[p][Other(p)])
        BY <1>5, <1>8, Others
    <2>2. pc'[p] = "submit" => p = 1
        BY <1>8
    <2>3. pc'[p] = "read" => p # 1
        BY <1>8
    <2>4. pc'[p] # "stall"
        BY <1>8
    <2>5. Front(p)' <= LastFrame /\ Frame(p)' < resim'[p] /\ Window # 0
        BY <1>1, <1>2, <1>4, <1>8, <1>9, <1>10
    <2> QED BY <2>1, <2>2, <2>3, <2>4, <2>5, <1>8 DEF Place
<1>12. RingInv(p)'
    <2>1. ASSUME NEW g \in DOMAIN ring'[p], NEW q \in Peer
          PROVE  /\ Len(ring'[p][g][q]) = g
                 /\ g < Frame(p)' \/ (g = Frame(p)' /\ ~AtGate(p)') =>
                      \A n \in 1 .. g : ring'[p][g][q][n] = used'[p][q][n]
        <3>1. /\ g \in Nat
              /\ Len(ring'[p][g][q]) = g
              /\ g < f => \A n \in 1 .. g : ring'[p][g][q][n] = used[p][q][n]
            BY <1>1, <1>8, SettledIs
        <3>2. g <= d => g < f /\ \A n \in 1 .. g : n \in 1 .. d
            BY <3>1, <1>2, <1>3, <1>4
        <3>3. \A n \in 1 .. d : used'[p][q][n] = used[p][q][n]
            BY <1>5, <1>8
        <3>4. g <= d => \A n \in 1 .. g : ring'[p][g][q][n] = used'[p][q][n]
            BY <3>1, <3>2, <3>3
        <3> QED BY <3>1, <3>4, <1>3, <1>9
    <2>2. ASSUME NEW g \in Nat, g < Front(p)', Front(p)' <= g + Window
          PROVE  g \in DOMAIN ring'[p]
        <3>1. g \in DOMAIN ring[p] /\ g + Window >= f
            BY <1>1, <1>2, <1>10, <2>2, Numbers DEF RingInv
        <3> QED BY <3>1, <1>1, <1>8, SettledIs
    <2> QED BY <2>1, <2>2 DEF RingInv
<1> QED BY <1>1, <1>2, <1>3, <1>4, <1>5, <1>6, <1>7, <1>8, <1>10, <1>11, <1>12
-----------------------------------------------------------------------------
(* NetInv: the steps keep it.                                              *)

(* The initial state. *)
LEMMA NetInitially == Init => NetInv
<1> SUFFICES ASSUME Init PROVE NetInv
    OBVIOUS
<1> USE NetplayAssumption
<1>1. /\ \A p, q \in Peer : Len(used[p][q]) = 0 /\ used[p][q] = <<>>
      /\ \A p \in Peer : pc[p] = "gate" /\ resim[p] = 0 /\ DOMAIN ring[p] = {}
      /\ \A p \in Peer, f \in Frames : local[p][f] = None /\ remote[p][f] = None
      /\ DOMAIN ring = Peer /\ net = {}
    BY DEF Init, Empty, Nothing
<1>2. \A p \in Peer : Frame(p) = 0 /\ AtGate(p) /\ Front(p) = 0
    BY <1>1 DEF Frame, AtGate, Front, Peer
<1>3. TypeOK
    <2>1. 0 \in Frames /\ Never \in Frames \cup {Never}
        BY Numbers
    <2>2. [f \in Frames |-> None] \in Inputs
        BY DEF Inputs
    <2>3. Empty \in History
        BY DEF Empty, History
    <2> QED BY <1>1, <2>1, <2>2, <2>3 DEF Init, TypeOK, Nothing
<1>4. PlaceInv
    BY <1>1, <1>2, Others, Numbers DEF PlaceInv, Place
<1>5. LocalInv
    BY <1>1, <1>2, Numbers DEF LocalInv, Sampled
<1>6. WireInv /\ RemoteInv
    BY <1>1 DEF WireInv, RemoteInv
<1>7. OwnInv
    BY <1>1 DEF OwnInv
<1>8. RingsInv
    BY <1>1, <1>2 DEF RingsInv, RingInv
<1> QED BY <1>3, <1>4, <1>5, <1>6, <1>7, <1>8 DEF NetInv

(* What is sampled stays sampled, and what was pressed stays pressed. *)
LEMMA RealStays ==
    ASSUME LocalInv, LocalInv',
           \A q \in Peer, g \in Frames : local[q][g] # None => local'[q][g] = local[q][g]
    PROVE  \A q \in Peer :
             /\ Sampled(q) \subseteq Sampled(q)'
             /\ \A g \in Sampled(q) : Real(q, g)' = Real(q, g)
<1> SUFFICES ASSUME NEW q \in Peer, NEW g \in Sampled(q)
             PROVE  g \in Sampled(q)' /\ Real(q, g)' = Real(q, g)
    OBVIOUS
<1>1. g \in Frames /\ (g < Delay[q] \/ local[q][g] # None)
    BY DEF Sampled
<1>2. CASE local[q][g] # None
    BY <1>1, <1>2 DEF Sampled, Real
<1>3. CASE g < Delay[q]
    <2>1. ~(Delay[q] <= g)
        BY <1>1, <1>3, Numbers
    <2>2. local[q][g] = None /\ local'[q][g] = None
        BY <1>1, <2>1 DEF LocalInv
    <2> QED BY <1>1, <1>3, <2>2 DEF Sampled, Real
<1> QED BY <1>1, <1>2, <1>3

(* A step that samples no input. *)
LEMMA QuietStep ==
    ASSUME NetInv, TypeOK', PlaceInv', local' = local, net' \subseteq net,
           \A q \in Peer : Front(q) <= Front(q)',
           \A q \in Peer : /\ Len(used'[q][q]) <= Len(used[q][q])
                           /\ \A n \in 1 .. Len(used'[q][q]) : used'[q][q][n] = used[q][q][n]
    PROVE  /\ LocalInv' /\ WireInv' /\ OwnInv'
           /\ remote' = remote => RemoteInv'
           /\ \A q \in Peer : Sampled(q)' = Sampled(q) /\ \A f : Real(q, f)' = Real(q, f)
<1>1. \A q \in Peer : /\ Len(used[q][q]) \in Nat /\ Len(used'[q][q]) \in Nat
                      /\ Front(q) \in Nat /\ Front(q)' \in Nat
    <2>1. \A q \in Peer : Len(used[q][q]) \in Nat /\ Front(q) \in Nat
        BY FrameOf DEF NetInv, PlaceInv
    <2>2. \A q \in Peer : Len(used'[q][q]) \in Nat
        BY DEF TypeOK, History
    <2>3. \A q \in Peer : Frame(q)' \in Nat /\ resim'[q] \in Nat
        <3>1. \A q, r \in Peer : Len(used'[q][r]) \in Nat
            BY DEF TypeOK, History
        <3> QED BY <3>1, Numbers DEF Frame, TypeOK, Peer
    <2>4. \A q \in Peer : Front(q)' \in Nat
        BY <2>3 DEF Front
    <2> QED BY <2>1, <2>2, <2>4
<1>2. \A q \in Peer : Sampled(q)' = Sampled(q) /\ \A f : Real(q, f)' = Real(q, f)
    BY DEF Sampled, Real
<1>3. LocalInv'
    <2> SUFFICES ASSUME NEW q \in Peer, NEW f \in Frames
                 PROVE  /\ local[q][f] # None => Delay[q] <= f /\ f < Front(q)' + Delay[q]
                        /\ f < Len(used'[q][q]) + Delay[q] => f \in Sampled(q)
        BY <1>2 DEF LocalInv
    <2>1. /\ local[q][f] # None => Delay[q] <= f /\ f < Front(q) + Delay[q]
          /\ f < Len(used[q][q]) + Delay[q] => f \in Sampled(q)
        BY DEF NetInv, LocalInv
    <2>2. f \in Nat /\ Delay[q] \in Nat
        BY Numbers
    <2>3. Front(q) \in Nat /\ Front(q)' \in Nat /\ Front(q) <= Front(q)'
        BY <1>1
    <2>4. f < Front(q) + Delay[q] => f < Front(q)' + Delay[q]
        <3>1. \A a, b, c, e \in Nat : a <= b /\ c < a + e => c < b + e
            OBVIOUS
        <3> QED BY <2>2, <2>3, <3>1
    <2>5. f < Len(used'[q][q]) + Delay[q] => f < Len(used[q][q]) + Delay[q]
        <3>1. \A a, b, c, e \in Nat : a <= b /\ c < a + e => c < b + e
            OBVIOUS
        <3>2. Len(used'[q][q]) <= Len(used[q][q])
            OBVIOUS
        <3> QED BY <1>1, <2>2, <3>1, <3>2
    <2> QED BY <2>1, <2>4, <2>5
<1>4. WireInv'
    <2> SUFFICES ASSUME NEW m \in net
                 PROVE  /\ m.from \in Peer
                        /\ DOMAIN m.inputs \subseteq Sampled(m.from)'
                        /\ \A f \in DOMAIN m.inputs : m.inputs[f] = Real(m.from, f)'
        BY DEF WireInv
    <2>1. /\ m.from \in Peer
          /\ DOMAIN m.inputs \subseteq Sampled(m.from)
          /\ \A f \in DOMAIN m.inputs : m.inputs[f] = Real(m.from, f)
        BY DEF NetInv, WireInv
    <2> QED BY <1>2, <2>1
<1>5. OwnInv'
    <2> SUFFICES ASSUME NEW q \in Peer, NEW n \in 1 .. Len(used'[q][q])
                 PROVE  used'[q][q][n] = Real(q, n - 1)'
        BY DEF OwnInv
    <2>1. n \in 1 .. Len(used[q][q]) /\ used'[q][q][n] = used[q][q][n]
        BY <1>1
    <2>2. used[q][q][n] = Real(q, n - 1)
        BY <2>1 DEF NetInv, OwnInv
    <2> QED BY <1>2, <2>1, <2>2
<1>6. ASSUME remote' = remote PROVE RemoteInv'
    <2> SUFFICES ASSUME NEW p \in Peer, NEW f \in Frames, remote[p][f] # None
                 PROVE  f \in Sampled(Other(p))' /\ remote[p][f] = Real(Other(p), f)'
        BY <1>6 DEF RemoteInv
    <2>1. f \in Sampled(Other(p)) /\ remote[p][f] = Real(Other(p), f)
        BY DEF NetInv, RemoteInv
    <2> QED BY <1>2, <2>1, Others
<1> QED BY <1>2, <1>3, <1>4, <1>5, <1>6

(* A peer reads the other's input: it simulates j. *)
LEMMA ReadStep ==
    ASSUME NetInv, NEW p \in Peer, pc[p] = "read", NEW j \in Input,
           Simulate(p, Other(p), j), AfterRead(p),
           predicted' \in [Peer -> Inputs], gaveUp' \subseteq Peer,
           UNCHANGED <<local, remote, rollbackTo, ring, resim, net, faults>>
    PROVE  /\ NetInv'
           /\ \A r \in Peer : Front(r)' = Front(r)
           /\ \A q \in Peer : Sampled(q)' = Sampled(q) /\ \A f : Real(q, f)' = Real(q, f)
<1>0. TypeOK /\ Place(p) /\ RingInv(p) /\ Other(p) \in Peer
    BY Others DEF NetInv, PlaceInv, RingsInv
<1>1. /\ pc' \in [Peer -> {"gate", "stall", "submit", "read"}]
      /\ used' \in [Peer -> History]
      /\ \A r \in Peer : r # p => Same(r)
      /\ \A r \in Peer : r # Other(p) => used'[p][r] = used[p][r]
      /\ Front(p)' = Front(p) /\ Place(p)' /\ RingInv(p)'
    BY <1>0, SimulateStep
<1>2. \A r \in Peer : Front(r)' = Front(r) /\ Place(r)' /\ RingInv(r)'
    BY <1>1, SameKeeps DEF NetInv, PlaceInv, RingsInv
<1>3. TypeOK'
    BY <1>1 DEF NetInv, TypeOK
<1>4. PlaceInv' /\ RingsInv'
    BY <1>2 DEF NetInv, PlaceInv, RingsInv
<1>5. \A q \in Peer : used'[q][q] = used[q][q]
    BY <1>1, Others DEF Same
<1>6. \A q \in Peer : Front(q) <= Front(q)' /\ Len(used'[q][q]) <= Len(used[q][q])
    BY <1>2, <1>5, FrameOf DEF NetInv, PlaceInv
<1>7. LocalInv' /\ WireInv' /\ OwnInv' /\ RemoteInv'
      /\ \A q \in Peer : Sampled(q)' = Sampled(q) /\ \A f : Real(q, f)' = Real(q, f)
    BY <1>3, <1>4, <1>5, <1>6, QuietStep
<1> QED BY <1>2, <1>3, <1>4, <1>7 DEF NetInv

(* What every step at a frame boundary does. *)
LEMMA BoundaryFacts ==
    ASSUME NetInv, NEW p \in Peer, BoundaryStep(p) \/ StallTimeout(p)
    PROVE  /\ BoundaryTypes'
           /\ \A r \in Peer : r # p => Same(r)
           /\ Place(p)' /\ RingInv(p)'
           /\ rollbackTo' = rollbackTo \/ Poll(p)
           /\ UNCHANGED <<local, remote, predicted, net, faults>>
           /\ gaveUp' = gaveUp \/ (gaveUp' = gaveUp \cup {p} /\ StallTimeout(p))
           /\ AtGate(p)
           /\ Front(p)' = IF NextFrame(p) \/ GoOn(p) \/ StallTimeout(p)
                          THEN Front(p) + 1 ELSE Front(p)
           /\ RollBack(p) \/ used' = used
<1>0. /\ TypeOK /\ Place(p) /\ RingInv(p) /\ DOMAIN ring = Peer
      /\ Frame(p) \in Nat /\ resim[p] \in Nat /\ Window \in Nat
      /\ Front(p) \in Nat /\ Front(p) <= LastFrame /\ LastFrame \in Nat
      /\ Frame(p) < resim[p] => Front(p) = resim[p]
      /\ Window = 0 => pc[p] # "stall" /\ resim[p] = 0
    <2>1. TypeOK /\ Place(p) /\ RingInv(p) /\ DOMAIN ring = Peer
        BY DEF NetInv, PlaceInv, RingsInv
    <2>2. /\ Frame(p) \in Nat /\ resim[p] \in Nat /\ Front(p) \in Nat /\ Front(p) <= LastFrame
          /\ resim[p] <= Front(p)
        BY <2>1, FrameOf
    <2>3. Frame(p) < resim[p] => Front(p) = resim[p]
        BY <2>1, <2>2 DEF Front, Place
    <2> QED BY <2>1, <2>2, <2>3, Numbers DEF Place
<1>1. CASE NextFrame(p)
    <2>1. /\ Window = 0 /\ Frame(p) < LastFrame /\ Run(p) /\ AtGate(p) /\ resim[p] = 0
          /\ UNCHANGED <<used, local, remote, predicted, rollbackTo, ring, resim, net, faults, gaveUp>>
        BY <1>0, <1>1 DEF NextFrame, peerVars, AtGate
    <2> QED BY <1>0, <1>1, <2>1, BeginStep
<1>2. CASE Resimulate(p)
    <2>1. /\ Window > 0 /\ Run(p) /\ AtGate(p) /\ Frame(p) < resim[p] /\ Frame(p) < LastFrame
          /\ ring' = [ring EXCEPT ![p] = Capture(p)]
          /\ UNCHANGED <<used, local, remote, predicted, rollbackTo, resim, net, faults, gaveUp>>
        BY <1>0, <1>2 DEF Resimulate, AtGate
    <2>2. ~NextFrame(p) /\ ~GoOn(p) /\ ~StallTimeout(p)
        BY <1>0, <2>1, <1>2 DEF NextFrame, GoOn, AtFront, StallTimeout, Resimulate
    <2> QED BY <1>0, <2>1, <2>2, BeginStep
<1>3. CASE StartStall(p)
    <2>1. /\ UNCHANGED <<used, local, remote, predicted, net, faults, gaveUp>> /\ Poll(p)
          /\ AtGate(p) /\ pc'[p] = "stall"
        BY <1>0, <1>3 DEF StartStall, AtGate, Goto, TypeOK
    <2>2. ~NextFrame(p) /\ ~GoOn(p) /\ ~StallTimeout(p)
        BY <1>0, <2>1 DEF NextFrame, GoOn, StallTimeout, RunFrame, Run, Goto, TypeOK
    <2> QED BY <1>0, <1>3, <2>1, <2>2, StartStallStep
<1>4. CASE KeepWaiting(p)
    <2>1. /\ UNCHANGED <<pc, used, local, remote, predicted, ring, resim, net, faults, gaveUp>>
          /\ Poll(p) /\ pc[p] = "stall" /\ AtGate(p)
        BY <1>4 DEF KeepWaiting, AtGate
    <2>2. \A r \in Peer : Same(r)
        BY <2>1 DEF Same
    <2>3. ~NextFrame(p) /\ ~GoOn(p) /\ ~StallTimeout(p)
        BY <1>0, <2>1 DEF NextFrame, GoOn, StallTimeout, RunFrame, Run, Goto, TypeOK
    <2>4. Place(p)' /\ RingInv(p)' /\ Front(p)' = Front(p)
        BY <1>0, <2>2, SameKeeps
    <2>5. BoundaryTypes'
        BY <1>0, <2>1 DEF BoundaryTypes, TypeOK
    <2> QED BY <2>1, <2>2, <2>3, <2>4, <2>5
<1>5. CASE RollBack(p)
    <2>1. /\ UNCHANGED <<local, remote, predicted, net, faults, gaveUp>> /\ Poll(p)
          /\ Due(p) \in DOMAIN ring[p] /\ Window > 0
        BY <1>5 DEF RollBack, AtFront
    <2>2. Due(p) # Never
        BY <1>0, <2>1, Numbers DEF TypeOK
    <2>3. ~NextFrame(p) /\ ~GoOn(p) /\ ~StallTimeout(p)
        BY <2>1, <2>2 DEF NextFrame, GoOn, StallTimeout
    <2> QED BY <1>0, <1>5, <2>1, <2>3, RollBackStep
<1>6. CASE GoOn(p)
    <2>1. /\ Window > 0 /\ Frame(p) < LastFrame /\ Run(p) /\ AtGate(p) /\ Frame(p) >= resim[p]
          /\ ring' = [ring EXCEPT ![p] = Capture(p)] /\ resim' = [resim EXCEPT ![p] = 0]
          /\ Poll(p)
          /\ UNCHANGED <<used, local, remote, predicted, net, faults, gaveUp>>
        BY <1>6 DEF GoOn, RunFrame, AtFront, AtGate
    <2>2. ~(Frame(p) < resim[p])
        BY <1>0, <2>1
    <2> QED BY <1>0, <1>6, <2>1, <2>2, BeginStep
<1>7. CASE StallTimeout(p)
    <2>1. /\ Window > 0 /\ Frame(p) < LastFrame /\ Run(p) /\ AtGate(p) /\ Frame(p) >= resim[p]
          /\ ring' = [ring EXCEPT ![p] = Capture(p)] /\ resim' = [resim EXCEPT ![p] = 0]
          /\ Poll(p)
          /\ UNCHANGED <<used, local, remote, predicted, net, faults>>
          /\ gaveUp' = gaveUp \cup {p}
        BY <1>0, <1>7 DEF StallTimeout, RunFrame, Place, AtGate
    <2>2. ~(Frame(p) < resim[p])
        BY <1>0, <2>1
    <2> QED BY <1>0, <1>7, <2>1, <2>2, BeginStep
<1> QED BY <1>1, <1>2, <1>3, <1>4, <1>5, <1>6, <1>7 DEF BoundaryStep

(* A peer samples its pad, sends, and simulates its own input. *)
LEMMA SubmitStep ==
    ASSUME NetInv, NEW p \in Peer, NEW i \in Pad[p], Submit(p, i)
    PROVE  /\ NetInv'
           /\ \A r \in Peer : Front(r)' = Front(r)
           /\ \A r \in Peer : /\ used'[r][Other(r)] = used[r][Other(r)]
                              /\ r # p => Same(r)
           /\ \A q \in Peer : /\ Sampled(q) \subseteq Sampled(q)'
                              /\ \A g \in Sampled(q) : Real(q, g)' = Real(q, g)
<1> PICK f \in Frames : f = Frame(p)
    <2>1. TypeOK /\ Place(p) /\ pc[p] = "submit"
        BY DEF NetInv, PlaceInv, Submit
    <2> QED BY <2>1, FrameOf DEF AtGate
<1> DEFINE o == Other(p)
           s == f + Delay[p]
           ours == IF local[p][s] = None THEN [local[p] EXCEPT ![s] = i] ELSE local[p]
           j == OrNeutral(ours[f])
<1>0. /\ TypeOK /\ PlaceInv /\ Place(p) /\ RingInv(p) /\ pc[p] = "submit"
      /\ o \in Peer /\ o # p /\ Other(o) = p
      /\ \A r \in Peer : r = p \/ r = o
    BY Others DEF NetInv, PlaceInv, RingsInv, Submit
<1>1. /\ f \in Frames /\ f \in Nat /\ f < LastFrame /\ f = Len(used[p][p]) /\ f < Front(p)
      /\ s \in Frames /\ s \in Nat /\ Delay[p] \in Nat /\ LastFrame \in Nat
    BY <1>0, FrameOf, Numbers DEF AtGate
<1>2. /\ local' = [local EXCEPT ![p] = ours]
      /\ net' = net \cup {Packet(p, ours, s)}
      /\ Simulate(p, p, j)
      /\ AfterSubmit(p)
      /\ UNCHANGED <<remote, predicted, rollbackTo, ring, resim, faults, gaveUp>>
    BY DEF Submit
<1>3. ours \in Inputs /\ j \in Input
    <2>1. local[p] \in Inputs /\ i \in Input
        BY NetplayAssumption DEF NetInv, TypeOK
    <2>2. ours \in Inputs
        BY <2>1 DEF Inputs
    <2> QED BY <2>2, <1>1, NetplayAssumption DEF Inputs, OrNeutral
<1> HIDE DEF ours, j
<1>4. /\ pc' \in [Peer -> {"gate", "stall", "submit", "read"}]
      /\ used' \in [Peer -> History]
      /\ \A r \in Peer : r # p => Same(r)
      /\ \A r \in Peer : r # p => used'[p][r] = used[p][r]
      /\ Len(used'[p][p]) = f + 1
      /\ used'[p][p][f + 1] = j
      /\ \A n \in 1 .. f : used'[p][p][n] = used[p][p][n]
      /\ Front(p)' = Front(p) /\ Place(p)' /\ RingInv(p)'
    BY <1>0, <1>2, <1>3, SimulateStep
<1>5. \A r \in Peer : Front(r)' = Front(r) /\ Place(r)' /\ RingInv(r)'
    BY <1>4, SameKeeps DEF NetInv, PlaceInv, RingsInv
<1>6. PlaceInv' /\ RingsInv'
    BY <1>2, <1>5 DEF NetInv, PlaceInv, RingsInv
<1>7. TypeOK'
    <2>1. local' \in [Peer -> Inputs]
        BY <1>2, <1>3 DEF NetInv, TypeOK
    <2>2. Datagram(Packet(p, ours, s))
        BY <1>3, NetplayAssumption DEF Datagram, Packet, Inputs, OrNeutral
    <2>3. \A m \in net' : Datagram(m)
        BY <1>2, <2>2 DEF NetInv, TypeOK
    <2>4. /\ remote' \in [Peer -> Inputs] /\ predicted' \in [Peer -> Inputs]
          /\ rollbackTo' \in [Peer -> Frames \cup {Never}]
          /\ resim' \in [Peer -> Frames]
          /\ \A r \in Peer :
                /\ DOMAIN ring'[r] \subseteq Frames
                /\ \A g \in DOMAIN ring'[r] : ring'[r][g] \in History
          /\ faults' \in 0 .. MaxFaults /\ gaveUp' \subseteq Peer
        BY <1>2 DEF NetInv, TypeOK
    <2> QED BY <1>4, <2>1, <2>3, <2>4 DEF TypeOK
<1>8. /\ \A g \in Frames : g # s => ours[g] = local[p][g]
      /\ local[p][s] # None => ours[s] = local[p][s]
      /\ ours[s] # None
      /\ local'[p] = ours
      /\ \A q \in Peer : q # p => local'[q] = local[q]
    <2>1. i # None
        BY NetplayAssumption
    <2> QED BY <1>1, <1>2, <2>1 DEF ours, NetInv, TypeOK, Inputs
<1>9. \A q \in Peer, g \in Frames : local[q][g] # None => local'[q][g] = local[q][g]
    BY <1>8
<1>10. LocalInv'
    <2> SUFFICES ASSUME NEW q \in Peer, NEW g \in Frames
                 PROVE  /\ local'[q][g] # None => Delay[q] <= g /\ g < Front(q) + Delay[q]
                        /\ g < Len(used'[q][q]) + Delay[q] => g < Delay[q] \/ local'[q][g] # None
        BY <1>5 DEF LocalInv, Sampled
    <2>1. /\ local[q][g] # None => Delay[q] <= g /\ g < Front(q) + Delay[q]
          /\ g < Len(used[q][q]) + Delay[q] => g < Delay[q] \/ local[q][g] # None
        BY DEF NetInv, LocalInv, Sampled
    <2>2. CASE q # p
        BY <2>1, <2>2, <1>4, <1>8 DEF Same
    <2>3. CASE q = p /\ g = s
        <3>1. \A a, b, c \in Nat : b < c => a <= b + a /\ b + a < c + a
            OBVIOUS
        <3>2. Front(p) \in Nat
            BY <1>0, FrameOf
        <3> QED BY <2>3, <3>1, <3>2, <1>1, <1>8
    <2>4. CASE q = p /\ g # s
        <3>1. g \in Nat
            BY Numbers
        <3>2. g < f + 1 + Delay[p] => g < f + Delay[p]
            BY <3>1, <2>4, <1>1
        <3> QED BY <2>1, <2>4, <3>2, <1>1, <1>4, <1>8
    <2> QED BY <2>2, <2>3, <2>4
<1>11. \A q \in Peer : /\ Sampled(q) \subseteq Sampled(q)'
                       /\ \A g \in Sampled(q) : Real(q, g)' = Real(q, g)
    BY <1>9, <1>10, RealStays DEF NetInv
<1>12. WireInv'
    <2>1. ASSUME NEW m \in net
          PROVE  /\ m.from \in Peer
                 /\ DOMAIN m.inputs \subseteq Sampled(m.from)'
                 /\ \A g \in DOMAIN m.inputs : m.inputs[g] = Real(m.from, g)'
        BY <1>11 DEF NetInv, WireInv
    <2>2. LET m == Packet(p, ours, s)
          IN /\ m.from = p
             /\ DOMAIN m.inputs \subseteq Sampled(p)'
             /\ \A g \in DOMAIN m.inputs : m.inputs[g] = Real(p, g)'
        <3> DEFINE D == {h \in Frames : h <= s /\ s < h + Redundancy}
        <3>1. Packet(p, ours, s) = [from |-> p, inputs |-> [g \in D |-> OrNeutral(ours[g])]]
            BY DEF Packet
        <3>2. \A g \in D : g \in Sampled(p)'
            <4> SUFFICES ASSUME NEW g \in D PROVE g \in Sampled(p)'
                OBVIOUS
            <4>1. g \in Frames /\ g \in Nat /\ g < Len(used'[p][p]) + Delay[p]
                <5>1. \A a, b, c \in Nat : a <= b + c => a < b + 1 + c
                    OBVIOUS
                <5> QED BY <5>1, <1>1, <1>4, Numbers
            <4> QED BY <4>1, <1>10 DEF LocalInv
        <3>3. \A g \in D : OrNeutral(ours[g]) = Real(p, g)'
            BY <1>8 DEF Real
        <3> QED BY <3>1, <3>2, <3>3
    <2> QED BY <1>2, <2>1, <2>2 DEF WireInv
<1>13. RemoteInv'
    <2> SUFFICES ASSUME NEW r \in Peer, NEW g \in Frames, remote[r][g] # None
                 PROVE  g \in Sampled(Other(r))' /\ remote[r][g] = Real(Other(r), g)'
        BY <1>2 DEF RemoteInv
    <2>1. g \in Sampled(Other(r)) /\ remote[r][g] = Real(Other(r), g)
        BY DEF NetInv, RemoteInv
    <2> QED BY <1>11, <2>1, Others
<1>14. OwnInv'
    <2> SUFFICES ASSUME NEW q \in Peer, NEW n \in 1 .. Len(used'[q][q])
                 PROVE  used'[q][q][n] = Real(q, n - 1)'
        BY DEF OwnInv
    <2>1. CASE q = p /\ n = f + 1
        <3>1. n - 1 = f
            BY <2>1, <1>1
        <3>2. j = Real(p, f)'
            BY <1>8 DEF j, Real
        <3> QED BY <2>1, <3>1, <3>2, <1>4
    <2>2. CASE ~(q = p /\ n = f + 1)
        <3>1. n \in 1 .. Len(used[q][q]) /\ used'[q][q][n] = used[q][q][n]
            <4>1. CASE q # p
                BY <4>1, <1>4 DEF Same
            <4>2. CASE q = p
                <5>1. n \in 1 .. f
                    BY <2>2, <4>2, <1>1, <1>4
                <5> QED BY <4>2, <5>1, <1>1, <1>4
            <4> QED BY <4>1, <4>2
        <3>2. used[q][q][n] = Real(q, n - 1)
            BY <3>1 DEF NetInv, OwnInv
        <3>3. n - 1 \in Sampled(q)
            <4>1. Len(used[q][q]) \in Nat /\ Len(used[q][q]) <= LastFrame /\ Delay[q] \in Nat
                BY FrameOf, Numbers DEF NetInv, PlaceInv
            <4>2. n - 1 \in Nat /\ n - 1 <= LastFrame /\ n - 1 < Len(used[q][q]) + Delay[q]
                BY <3>1, <4>1, <1>1
            <4> QED BY <4>2, Numbers DEF NetInv, LocalInv
        <3> QED BY <3>1, <3>2, <3>3, <1>11
    <2> QED BY <2>1, <2>2
<1>15. NetInv'
    BY <1>6, <1>7, <1>10, <1>12, <1>13, <1>14 DEF NetInv
<1>16. \A r \in Peer : used'[r][Other(r)] = used[r][Other(r)]
    BY <1>4, Others DEF Same
<1> QED BY <1>4, <1>5, <1>11, <1>15, <1>16

(* What a datagram changes. *)
LEMMA ReceiveFacts ==
    ASSUME NetInv, NEW p \in Peer, NEW m \in net, Receive(p, m)
    PROVE  LET here == DOMAIN m.inputs
               wrong == {f \in here : predicted[p][f] \notin {None, m.inputs[f]}}
           IN /\ m.from = Other(p) /\ here \subseteq Sampled(Other(p))
              /\ \A f \in here : /\ m.inputs[f] \in Input
                                 /\ m.inputs[f] = Real(Other(p), f)
              /\ \A r \in Peer : r # p => /\ remote'[r] = remote[r]
                                          /\ predicted'[r] = predicted[r]
                                          /\ rollbackTo'[r] = rollbackTo[r]
              /\ \A f \in Frames :
                   /\ remote'[p][f] = IF f \in here THEN m.inputs[f] ELSE remote[p][f]
                   /\ predicted'[p][f] = IF f \in here THEN None ELSE predicted[p][f]
              /\ remote' \in [Peer -> Inputs] /\ predicted' \in [Peer -> Inputs]
              /\ rollbackTo' \in [Peer -> Frames \cup {Never}]
              /\ rollbackTo'[p] <= rollbackTo[p]
              /\ \A f \in wrong : rollbackTo'[p] <= f
              /\ rollbackTo'[p] = rollbackTo[p] \/ rollbackTo'[p] \in wrong
              /\ UNCHANGED <<pc, used, local, ring, resim, gaveUp>>
              /\ net' \subseteq net /\ faults' \in 0 .. MaxFaults
<1> DEFINE here == DOMAIN m.inputs
           wrong == {f \in here : predicted[p][f] \notin {None, m.inputs[f]}}
<1>1. /\ m.from = Other(p) /\ here \subseteq Sampled(Other(p))
      /\ \A f \in here : f \in Frames /\ m.inputs[f] \in Input /\ m.inputs[f] = Real(Other(p), f)
      /\ UNCHANGED <<pc, used, local, ring, resim, gaveUp>>
      /\ ApplyInputs(p, m)
    BY DEF Receive, NetInv, WireInv, TypeOK, Datagram
<1>2. net' \subseteq net /\ faults' \in 0 .. MaxFaults
    <2>1. faults \in 0 .. MaxFaults /\ MaxFaults \in Nat
        BY NetplayAssumption DEF NetInv, TypeOK
    <2> QED BY <2>1 DEF Receive
<1>3. /\ rollbackTo' = [rollbackTo EXCEPT ![p] = Earlier(@, FirstOf(wrong))]
      /\ predicted' = [predicted EXCEPT ![p] = [f \in Frames |-> IF f \in here THEN None ELSE @[f]]]
      /\ remote' = [remote EXCEPT ![p] = [f \in Frames |-> IF f \in here THEN m.inputs[f] ELSE @[f]]]
    BY <1>1 DEF ApplyInputs
<1>4. /\ \A r \in Peer : r # p => /\ remote'[r] = remote[r]
                                  /\ predicted'[r] = predicted[r]
                                  /\ rollbackTo'[r] = rollbackTo[r]
      /\ \A f \in Frames :
           /\ remote'[p][f] = IF f \in here THEN m.inputs[f] ELSE remote[p][f]
           /\ predicted'[p][f] = IF f \in here THEN None ELSE predicted[p][f]
      /\ rollbackTo'[p] = Earlier(rollbackTo[p], FirstOf(wrong))
    BY <1>3 DEF NetInv, TypeOK, Inputs
<1>5. remote' \in [Peer -> Inputs] /\ predicted' \in [Peer -> Inputs]
    BY <1>1, <1>3 DEF NetInv, TypeOK, Inputs
<1>6. /\ wrong \subseteq Frames
      /\ FirstOf(wrong) \in wrong \cup {Never}
      /\ \A f \in wrong : FirstOf(wrong) <= f
    <2>1. wrong \subseteq Frames
        BY <1>1
    <2> QED BY <2>1, FirstIs
<1>7. /\ rollbackTo[p] \in Frames \cup {Never}
      /\ \A f \in Frames \cup {Never} : f \in Nat /\ f <= Never
    BY Numbers DEF NetInv, TypeOK
<1>8. /\ rollbackTo'[p] <= rollbackTo[p]
      /\ \A f \in wrong : rollbackTo'[p] <= f
      /\ rollbackTo'[p] = rollbackTo[p] \/ rollbackTo'[p] \in wrong
      /\ rollbackTo'[p] \in Frames \cup {Never}
    <2> HIDE DEF wrong
    <2>1. /\ FirstOf(wrong) \in Nat /\ rollbackTo[p] \in Nat
          /\ \A f \in wrong : f \in Nat
          /\ rollbackTo[p] <= Never
          /\ FirstOf(wrong) \in Frames \cup {Never}
        BY <1>6, <1>7
    <2>2. CASE rollbackTo[p] < FirstOf(wrong)
        <3>1. rollbackTo'[p] = rollbackTo[p]
            BY <2>2, <1>4 DEF Earlier
        <3> QED BY <3>1, <2>1, <2>2, <1>6, <1>7
    <2>3. CASE ~(rollbackTo[p] < FirstOf(wrong))
        <3>1. rollbackTo'[p] = FirstOf(wrong) /\ FirstOf(wrong) <= rollbackTo[p]
            BY <2>1, <2>3, <1>4 DEF Earlier
        <3>2. FirstOf(wrong) = Never => rollbackTo[p] = Never
            BY <3>1, <2>1
        <3> QED BY <3>1, <3>2, <2>1, <1>6
    <2> QED BY <2>2, <2>3
<1>9. rollbackTo' \in [Peer -> Frames \cup {Never}]
    BY <1>3, <1>4, <1>8 DEF NetInv, TypeOK
<1> QED BY <1>1, <1>2, <1>4, <1>5, <1>8, <1>9

(* A datagram arrives, or is lost. *)
LEMMA NetworkStep ==
    ASSUME NetInv, NEW m \in net, NEW p \in Peer, Receive(p, m) \/ Lose(m)
    PROVE  /\ NetInv'
           /\ \A r \in Peer : Front(r)' = Front(r) /\ Same(r)
           /\ \A q \in Peer : Sampled(q)' = Sampled(q) /\ \A f : Real(q, f)' = Real(q, f)
<1>1. /\ UNCHANGED <<pc, used, local, ring, resim, gaveUp>>
      /\ net' \subseteq net /\ faults' \in 0 .. MaxFaults
      /\ remote' \in [Peer -> Inputs] /\ predicted' \in [Peer -> Inputs]
      /\ rollbackTo' \in [Peer -> Frames \cup {Never}]
    <2>1. CASE Receive(p, m)
        BY <2>1, ReceiveFacts
    <2>2. CASE Lose(m)
        <3>1. faults \in 0 .. MaxFaults /\ MaxFaults \in Nat
            BY NetplayAssumption DEF NetInv, TypeOK
        <3>2. faults' \in 0 .. MaxFaults
            BY <2>2, <3>1 DEF Lose
        <3> QED BY <2>2, <3>2 DEF Lose, peerVars, NetInv, TypeOK
    <2> QED BY <2>1, <2>2
<1>2. \A r \in Peer : Same(r)
    BY <1>1 DEF Same
<1>3. \A r \in Peer : Front(r)' = Front(r) /\ Place(r)' /\ RingInv(r)'
    BY <1>2, SameKeeps DEF NetInv, PlaceInv, RingsInv
<1>4. TypeOK'
    BY <1>1 DEF NetInv, TypeOK
<1>5. PlaceInv' /\ RingsInv'
    BY <1>1, <1>3 DEF NetInv, PlaceInv, RingsInv
<1>6. \A q \in Peer : Front(q) <= Front(q)' /\ Len(used'[q][q]) <= Len(used[q][q])
    BY <1>1, <1>3, FrameOf DEF NetInv, PlaceInv
<1>7. /\ LocalInv' /\ WireInv' /\ OwnInv'
      /\ remote' = remote => RemoteInv'
      /\ \A q \in Peer : Sampled(q)' = Sampled(q) /\ \A f : Real(q, f)' = Real(q, f)
    BY <1>1, <1>4, <1>5, <1>6, QuietStep
<1>8. RemoteInv'
    <2>1. CASE Receive(p, m)
        <3> SUFFICES ASSUME NEW r \in Peer, NEW f \in Frames, remote'[r][f] # None
                     PROVE  f \in Sampled(Other(r))' /\ remote'[r][f] = Real(Other(r), f)'
            BY DEF RemoteInv
        <3>1. Other(r) \in Peer
            BY Others
        <3>2. CASE remote'[r][f] = remote[r][f]
            BY <3>1, <3>2, <1>7 DEF NetInv, RemoteInv
        <3>3. CASE remote'[r][f] # remote[r][f]
            <4>1. /\ r = p /\ f \in DOMAIN m.inputs /\ remote'[r][f] = m.inputs[f]
                  /\ f \in Sampled(Other(p)) /\ m.inputs[f] = Real(Other(p), f)
                BY <2>1, <3>3, ReceiveFacts
            <4> QED BY <3>1, <4>1, <1>7
        <3> QED BY <3>2, <3>3
    <2>2. CASE Lose(m)
        BY <2>2, <1>7 DEF Lose, peerVars
    <2> QED BY <2>1, <2>2
<1> QED BY <1>2, <1>3, <1>4, <1>5, <1>7, <1>8 DEF NetInv

(* A step at a frame boundary. *)
LEMMA BoundaryNet ==
    ASSUME NetInv, NEW p \in Peer, BoundaryStep(p) \/ StallTimeout(p)
    PROVE  /\ NetInv'
           /\ \A q \in Peer : Sampled(q)' = Sampled(q) /\ \A f : Real(q, f)' = Real(q, f)
<1>1. /\ BoundaryTypes'
      /\ \A r \in Peer : r # p => Same(r)
      /\ Place(p)' /\ RingInv(p)'
      /\ rollbackTo' = rollbackTo \/ Poll(p)
      /\ UNCHANGED <<local, remote, predicted, net, faults>>
      /\ gaveUp' = gaveUp \/ gaveUp' = gaveUp \cup {p}
      /\ Front(p)' = Front(p) + 1 \/ Front(p)' = Front(p)
      /\ RollBack(p) \/ used' = used
    BY BoundaryFacts
<1>2. /\ TypeOK /\ PlaceInv /\ RingsInv /\ Place(p) /\ RingInv(p) /\ DOMAIN ring = Peer
    BY DEF NetInv, PlaceInv, RingsInv
<1>3. TypeOK'
    <2>1. rollbackTo' \in [Peer -> Frames \cup {Never}]
        BY <1>1, <1>2 DEF TypeOK, Poll
    <2>2. gaveUp' \subseteq Peer
        BY <1>1, <1>2 DEF TypeOK
    <2> QED BY <1>1, <1>2, <2>1, <2>2 DEF TypeOK, BoundaryTypes
<1>4. \A r \in Peer : r # p => Place(r)' /\ RingInv(r)' /\ Front(r)' = Front(r)
    BY <1>1, <1>2, SameKeeps DEF PlaceInv, RingsInv
<1>5. PlaceInv' /\ RingsInv'
    BY <1>1, <1>4 DEF PlaceInv, RingsInv, BoundaryTypes
<1>6. \A q \in Peer : Front(q) \in Nat /\ \A r \in Peer : Len(used[q][r]) \in Nat
    BY <1>2, FrameOf DEF PlaceInv
<1>7. \A q \in Peer : Front(q) <= Front(q)'
    BY <1>1, <1>4, <1>6
<1>8. \A q \in Peer : /\ Len(used'[q][q]) <= Len(used[q][q])
                      /\ \A n \in 1 .. Len(used'[q][q]) : used'[q][q][n] = used[q][q][n]
    <2>1. CASE used' = used
        BY <2>1, <1>6
    <2>2. CASE RollBack(p)
        <3>1. /\ \A q \in Peer : q # p => used'[q] = used[q]
              /\ Len(used'[p][p]) <= Len(used[p][p])
              /\ \A n \in 1 .. Len(used'[p][p]) : used'[p][p][n] = used[p][p][n]
            <4>1. Due(p) \in Nat /\ Frame(p) \in Nat
                BY <2>2, <1>2, RollBackStep, FrameOf, Numbers
            <4> QED BY <2>2, <4>1, <1>2, RollBackStep DEF Same
        <3> QED BY <3>1, <1>6
    <2> QED BY <1>1, <2>1, <2>2
<1>9. /\ LocalInv' /\ WireInv' /\ OwnInv' /\ RemoteInv'
      /\ \A q \in Peer : Sampled(q)' = Sampled(q) /\ \A f : Real(q, f)' = Real(q, f)
    BY <1>1, <1>3, <1>5, <1>7, <1>8, QuietStep
<1> QED BY <1>3, <1>5, <1>9 DEF NetInv

(* A peer that reads simulates an input. *)
LEMMA ReadFacts ==
    ASSUME NetInv, NEW p \in Peer, ReadKnown(p) \/ ReadGuess(p) \/ ReadTimeout(p)
    PROVE  /\ Frame(p) \in Frames /\ pc[p] = "read"
           /\ OrNeutral(remote[p][Frame(p)]) \in Input
           /\ Guess(p, Frame(p)) \in Input
           /\ NetInv'
           /\ \A r \in Peer : Front(r)' = Front(r)
           /\ \A q \in Peer : Sampled(q)' = Sampled(q) /\ \A f : Real(q, f)' = Real(q, f)
<1> PICK f \in Frames : f = Frame(p) /\ pc[p] = "read"
    <2>1. TypeOK /\ Place(p) /\ pc[p] = "read"
        BY DEF NetInv, PlaceInv, ReadKnown, ReadGuess, ReadTimeout
    <2> QED BY <2>1, FrameOf DEF AtGate
<1>1. /\ OrNeutral(remote[p][f]) \in Input /\ Guess(p, f) \in Input /\ Neutral \in Input
      /\ predicted \in [Peer -> Inputs] /\ gaveUp \subseteq Peer
    BY GuessTyped, NetplayAssumption DEF NetInv, TypeOK, Inputs, OrNeutral
<1>2. PICK j \in Input :
        /\ Simulate(p, Other(p), j) /\ AfterRead(p)
        /\ predicted' \in [Peer -> Inputs] /\ gaveUp' \subseteq Peer
        /\ UNCHANGED <<local, remote, rollbackTo, ring, resim, net, faults>>
    <2>1. CASE ReadKnown(p)
        BY <1>1, <2>1 DEF ReadKnown
    <2>2. CASE ReadGuess(p)
        <3>1. predicted' \in [Peer -> Inputs]
            BY <1>1, <2>2 DEF ReadGuess, Inputs
        <3> QED BY <1>1, <2>2, <3>1 DEF ReadGuess
    <2>3. CASE ReadTimeout(p)
        BY <1>1, <2>3 DEF ReadTimeout
    <2> QED BY <2>1, <2>2, <2>3
<1> QED BY <1>1, <1>2, ReadStep

(* Every step keeps the invariant. *)
LEMMA NetStep ==
    ASSUME NetInv, [Next]_vars
    PROVE  NetInv'
<1>1. CASE UNCHANGED vars
    <2>1. UNCHANGED <<pc, used, local, remote, predicted, rollbackTo, ring, resim, net, faults, gaveUp>>
        BY <1>1 DEF vars
    <2>2. TypeOK'
        BY <2>1 DEF NetInv, TypeOK
    <2>3. \A r \in Peer : Same(r)
        BY <2>1 DEF Same
    <2>4. \A r \in Peer : Front(r)' = Front(r) /\ Place(r)' /\ RingInv(r)'
        BY <2>3, SameKeeps DEF NetInv, PlaceInv, RingsInv
    <2>5. PlaceInv' /\ RingsInv'
        BY <2>1, <2>4 DEF NetInv, PlaceInv, RingsInv
    <2>6. \A q \in Peer : Front(q) <= Front(q)' /\ Len(used'[q][q]) <= Len(used[q][q])
        BY <2>1, <2>4, FrameOf DEF NetInv, PlaceInv
    <2>7. LocalInv' /\ WireInv' /\ OwnInv' /\ RemoteInv'
        BY <2>1, <2>2, <2>5, <2>6, QuietStep
    <2> QED BY <2>2, <2>5, <2>7 DEF NetInv
<1>2. ASSUME NEW p \in Peer, NEW i \in Pad[p], Submit(p, i) PROVE NetInv'
    BY <1>2, SubmitStep
<1>3. ASSUME NEW p \in Peer, ReadKnown(p) \/ ReadGuess(p) \/ ReadTimeout(p) PROVE NetInv'
    BY <1>3, ReadFacts
<1>4. ASSUME NEW p \in Peer, BoundaryStep(p) \/ StallTimeout(p) PROVE NetInv'
    BY <1>4, BoundaryNet
<1>5. ASSUME NEW m \in net, Receive(Other(m.from), m) \/ Lose(m) PROVE NetInv'
    <2>1. Other(m.from) \in Peer
        BY Others DEF NetInv, WireInv
    <2> QED BY <1>5, <2>1, NetworkStep
<1> QED BY <1>1, <1>2, <1>3, <1>4, <1>5 DEF Next, GameStep, TimeoutStep

(* NetInv holds in every session, in lockstep and with any window, and     *)
(* after a peer has given up.                                              *)
THEOREM NetplayInvariant == Spec => []NetInv
BY NetInitially, NetStep, PTL DEF Spec

(* The tables of struct Net hold inputs for frames of the session, and the *)
(* snapshots of netAtBoundary are histories of inputs.                     *)
THEOREM NetplayTypes == Spec => []TypeOK
<1>1. NetInv => TypeOK
    BY DEF NetInv
<1> QED BY <1>1, NetplayInvariant, PTL

(* What a peer has received for a frame is what the other really pressed   *)
(* for it, and never changes: ps2NetSubmitLocal keeps the first sample,    *)
(* sendOurs never sends a frame that is not sampled, applyInputs enters    *)
(* the frames of a datagram, however late or repeated.                     *)
THEOREM ReceivedWasPressed == Spec => []RemoteInv
<1>1. NetInv => RemoteInv
    BY DEF NetInv
<1> QED BY <1>1, NetplayInvariant, PTL

(* Nothing that a step other than a rollback does shortens or changes what *)
(* was simulated.                                                          *)
LEMMA OnlyRollBackForgets ==
    ASSUME NetInv, [Next]_vars, NEW p \in Peer, ~RollBack(p), NEW q \in Peer,
           NEW n \in 1 .. Len(used[p][q])
    PROVE  used'[p][q][n] = used[p][q][n]
<1>1. CASE used'[p] = used[p]
    BY <1>1
<1>2. ASSUME NEW r \in Peer, NEW s \in Peer, NEW j \in Input, Simulate(r, s, j)
      PROVE  used'[p][q][n] = used[p][q][n]
    <2>1. used \in [Peer -> History] /\ used[r][s] \in Seq(Input)
        BY DEF NetInv, TypeOK, History
    <2>2. used' = [used EXCEPT ![r][s] = Append(@, j)]
        BY <1>2 DEF Simulate
    <2>3. CASE r = p /\ s = q
        <3>1. used'[p][q] = Append(used[p][q], j)
            BY <2>1, <2>2, <2>3 DEF History
        <3> QED BY <2>1, <2>3, <3>1
    <2>4. CASE ~(r = p /\ s = q)
        BY <2>1, <2>2, <2>4 DEF History
    <2> QED BY <2>3, <2>4
<1>3. ASSUME NEW r \in Peer, NEW i \in Pad[r], Submit(r, i) PROVE used'[p][q][n] = used[p][q][n]
    <2> DEFINE f == Frame(r)
               ours == IF local[r][f + Delay[r]] = None
                       THEN [local[r] EXCEPT ![f + Delay[r]] = i] ELSE local[r]
    <2>1. f \in Frames
        <3>1. TypeOK /\ Place(r) /\ pc[r] = "submit"
            BY <1>3 DEF NetInv, PlaceInv, Submit
        <3> QED BY <3>1, FrameOf DEF AtGate
    <2>2. OrNeutral(ours[f]) \in Input
        <3>1. local[r] \in Inputs /\ i \in Input
            BY NetplayAssumption DEF NetInv, TypeOK
        <3>2. ours \in Inputs
            BY <3>1 DEF Inputs
        <3> QED BY <2>1, <3>2, NetplayAssumption DEF Inputs, OrNeutral
    <2>3. Simulate(r, r, OrNeutral(ours[f]))
        BY <1>3 DEF Submit
    <2> QED BY <2>2, <2>3, <1>2
<1>4. ASSUME NEW r \in Peer, ReadKnown(r) \/ ReadGuess(r) \/ ReadTimeout(r)
      PROVE  used'[p][q][n] = used[p][q][n]
    <2>1. /\ OrNeutral(remote[r][Frame(r)]) \in Input
          /\ Guess(r, Frame(r)) \in Input
          /\ Neutral \in Input /\ Other(r) \in Peer
        BY <1>4, ReadFacts, Others, NetplayAssumption
    <2> QED BY <1>4, <2>1, <1>2 DEF ReadKnown, ReadGuess, ReadTimeout
<1>5. ASSUME NEW r \in Peer, BoundaryStep(r) \/ StallTimeout(r) PROVE used'[p][q][n] = used[p][q][n]
    <2>1. (\A s \in Peer : s # r => Same(s)) /\ (RollBack(r) \/ used' = used)
        BY <1>5, BoundaryFacts
    <2>2. used'[p] = used[p]
        BY <2>1 DEF Same
    <2> QED BY <2>2
<1>6. ASSUME NEW m \in net, Receive(Other(m.from), m) \/ Lose(m) PROVE used'[p] = used[p]
    BY <1>6 DEF Receive, Lose, peerVars
<1> QED BY <1>1, <1>3, <1>4, <1>5, <1>6 DEF Next, GameStep, TimeoutStep, vars

(* A rollback never reaches behind the window: the poll reports no frame   *)
(* older than that, and the snapshot that netAtBoundary restores is of     *)
(* what was simulated.                                                     *)
THEOREM RollbackWithinWindow == Spec => ConfirmedStays
<1> DEFINE Stay == \A p \in Peer, q \in Peer : \A n \in 1 .. (Frame(p) - Window) :
                       used'[p][q][n] = used[p][q][n]
<1>1. ASSUME NetInv, [Next]_vars PROVE Stay
    <2> SUFFICES ASSUME NEW p \in Peer, NEW q \in Peer, NEW n \in 1 .. (Frame(p) - Window)
                 PROVE  used'[p][q][n] = used[p][q][n]
        OBVIOUS
    <2>1. /\ TypeOK /\ Place(p) /\ RingInv(p) /\ DOMAIN ring = Peer
          /\ Window \in Nat /\ Frame(p) \in Nat /\ Len(used[p][q]) \in Nat
          /\ Frame(p) <= Len(used[p][q])
        BY <1>1, FrameOf, Numbers DEF NetInv, PlaceInv, RingsInv
    <2>2. CASE RollBack(p)
        <3>1. /\ Due(p) \in Nat /\ Frame(p) <= Due(p) + Window
              /\ \A k \in 1 .. Due(p) : used'[p][q][k] = used[p][q][k]
            BY <2>1, <2>2, RollBackStep, Numbers
        <3>2. n \in 1 .. Due(p)
            BY <2>1, <3>1
        <3> QED BY <3>1, <3>2
    <2>3. CASE ~RollBack(p)
        <3>1. n \in 1 .. Len(used[p][q])
            BY <2>1
        <3> QED BY <1>1, <2>3, <3>1, OnlyRollBackForgets
    <2> QED BY <2>2, <2>3
<1>2. NetInv /\ [Next]_vars => [Stay]_vars
    BY <1>1
<1>3. Spec => [][Stay]_vars
    BY <1>2, NetplayInvariant, PTL DEF Spec
<1> QED BY <1>3 DEF ConfirmedStays
-----------------------------------------------------------------------------
(* What is known of the other comes before what is not. *)
Ordered(p) == \A f, g \in Frames : Known(p, f) /\ g < f => Known(p, g)

(* A guess that is written down is of a frame that is unknown, begun, and  *)
(* still in the window.                                                    *)
Guessed(p) ==
    \A f \in Frames : predicted[p][f] # None =>
        ~Known(p, f) /\ f < Front(p) /\ (p \notin gaveUp => Front(p) <= f + Window)

(* The rollback that is due is to a known frame of the window. *)
DueInWindow(p) ==
    rollbackTo[p] # Never =>
        /\ Known(p, rollbackTo[p]) /\ rollbackTo[p] < Front(p)
        /\ p \notin gaveUp => Front(p) <= rollbackTo[p] + Window

(* A frame that was run without the other's input has its guess. *)
Unknown(p) ==
    Window > 0 =>
        \A f \in Frames : ~Known(p, f) /\ (f < Len(used[p][Other(p)]) \/ f < resim[p]) =>
            predicted[p][f] # None

(* What was simulated of the other was pressed, is a guess still written   *)
(* down, or is going to be rolled back.                                    *)
Accounted(p) ==
    p \notin gaveUp =>
        \A n \in 1 .. Len(used[p][Other(p)]) :
            LET i == used[p][Other(p)][n]
            IN \/ n - 1 \in Sampled(Other(p)) /\ i = Real(Other(p), n - 1)
               \/ predicted[p][n - 1] = i
               \/ rollbackTo[p] <= n - 1

Rolling(p) ==
    /\ Window > 0 => Ordered(p)
    /\ Guessed(p) /\ DueInWindow(p) /\ Unknown(p) /\ Accounted(p)

RollInv == \A p \in Peer : Rolling(p)

(* A datagram never has a frame whose predecessors are neither in it nor   *)
(* known: what is lost is healed before it is repeated no more.            *)
Gapless ==
    \A m \in net : \A g, h \in Frames :
        h \in DOMAIN m.inputs /\ g < h /\ g \notin DOMAIN m.inputs => Known(Other(m.from), g)
-----------------------------------------------------------------------------
(* Rolling: the steps keep it, when there are no gaps.                     *)

(* Nothing is guessed at first. *)
LEMMA RollInitially == Init => RollInv
<1> SUFFICES ASSUME Init, NEW p \in Peer PROVE Rolling(p)
    BY DEF RollInv
<1>1. /\ Len(used[p][Other(p)]) = 0 /\ resim[p] = 0 /\ rollbackTo[p] = Never
      /\ \A f \in Frames : remote[p][f] = None /\ predicted[p][f] = None
    BY Others DEF Init, Empty, Nothing
<1>2. Ordered(p)
    <2>1. \A f, g \in Frames : g < f /\ f < Delay[p] => g < Delay[p]
        BY Numbers
    <2> QED BY <1>1, <2>1 DEF Ordered, Known
<1>3. Guessed(p) /\ DueInWindow(p)
    BY <1>1 DEF Guessed, DueInWindow
<1>4. Unknown(p)
    BY <1>1, Numbers DEF Unknown
<1>5. Accounted(p)
    BY <1>1 DEF Accounted
<1> QED BY <1>2, <1>3, <1>4, <1>5 DEF Rolling

(* A step that leaves what peer r knows, guesses and simulates of the other. *)
LEMMA RollKept ==
    ASSUME NetInv, NEW r \in Peer, Rolling(r), gaveUp \subseteq gaveUp',
           remote'[r] = remote[r], predicted'[r] = predicted[r], rollbackTo'[r] = rollbackTo[r],
           used'[r][Other(r)] = used[r][Other(r)], resim'[r] = resim[r],
           Front(r)' = Front(r),
           \A q \in Peer : /\ Sampled(q) \subseteq Sampled(q)'
                           /\ \A g \in Sampled(q) : Real(q, g)' = Real(q, g)
    PROVE  Rolling(r)'
<1>1. \A f : Known(r, f)' = Known(r, f)
    BY DEF Known
<1>2. Ordered(r) => Ordered(r)'
    BY <1>1 DEF Ordered
<1>3. Guessed(r)'
    BY <1>1 DEF Rolling, Guessed
<1>4. DueInWindow(r)'
    <2>1. Known(r, rollbackTo[r])' = Known(r, rollbackTo[r])
        BY DEF Known
    <2> QED BY <2>1 DEF Rolling, DueInWindow
<1>5. Unknown(r)'
    BY <1>1 DEF Rolling, Unknown
<1>6. Accounted(r)'
    <2> SUFFICES ASSUME r \notin gaveUp, NEW n \in 1 .. Len(used[r][Other(r)])
                 PROVE  \/ /\ n - 1 \in Sampled(Other(r))'
                           /\ used[r][Other(r)][n] = Real(Other(r), n - 1)'
                        \/ predicted[r][n - 1] = used[r][Other(r)][n]
                        \/ rollbackTo[r] <= n - 1
        BY DEF Accounted
    <2>1. \/ n - 1 \in Sampled(Other(r)) /\ used[r][Other(r)][n] = Real(Other(r), n - 1)
          \/ predicted[r][n - 1] = used[r][Other(r)][n]
          \/ rollbackTo[r] <= n - 1
        BY DEF Rolling, Accounted
    <2> QED BY <2>1, Others
<1> QED BY <1>2, <1>3, <1>4, <1>5, <1>6 DEF Rolling

(* At the front of its simulation, the next poll reports the rollback that *)
(* is due, and it has its snapshot.                                        *)
LEMMA DueIs ==
    ASSUME NetInv, NEW p \in Peer, p \notin gaveUp, DueInWindow(p), AtFront(p),
           rollbackTo[p] # Never
    PROVE  Due(p) = rollbackTo[p] /\ Due(p) \in DOMAIN ring[p] /\ Due(p) \in Frames
<1>1. TypeOK /\ Place(p) /\ RingInv(p)
    BY DEF NetInv, PlaceInv, RingsInv
<1>2. /\ Window > 0 /\ Front(p) = Frame(p)
      /\ rollbackTo[p] \in Frames /\ rollbackTo[p] \in Nat
    BY <1>1, FrameOf, Numbers DEF AtFront, AtGate, TypeOK
<1>3. rollbackTo[p] < Front(p) /\ Front(p) <= rollbackTo[p] + Window
    BY DEF DueInWindow
<1>4. Due(p) = rollbackTo[p]
    BY <1>2, <1>3 DEF Due
<1> QED BY <1>1, <1>2, <1>3, <1>4 DEF RingInv

(* A peer that has to wait has no rollback due: a guess as old as the      *)
(* window is older than everything that is known.                          *)
LEMMA StalledIs ==
    ASSUME NetInv, NEW p \in Peer, p \notin gaveUp, Rolling(p), AtFront(p), Stalls(p)
    PROVE  rollbackTo[p] = Never
<1> SUFFICES ASSUME rollbackTo[p] # Never PROVE FALSE
    OBVIOUS
<1>1. TypeOK /\ Place(p)
    BY DEF NetInv, PlaceInv
<1>2. /\ Window > 0 /\ Front(p) = Frame(p) /\ Frame(p) \in Nat /\ Window \in Nat
      /\ rollbackTo[p] \in Frames /\ rollbackTo[p] \in Nat
    BY <1>1, FrameOf, Numbers DEF AtFront, AtGate, TypeOK
<1>3. Known(p, rollbackTo[p]) /\ Front(p) <= rollbackTo[p] + Window
    BY DEF Rolling, DueInWindow
<1>4. PICK g \in Frames : predicted[p][g] # None /\ g + Window <= Frame(p)
    BY DEF Stalls
<1>5. ~Known(p, g) /\ g \in Nat
    BY <1>4, Numbers DEF Rolling, Guessed
<1>6. g < rollbackTo[p] \/ g = rollbackTo[p]
    BY <1>2, <1>3, <1>4, <1>5
<1> QED BY <1>2, <1>3, <1>5, <1>6 DEF Rolling, Ordered

(* The peer whose step it is, at a frame boundary. *)
LEMMA BoundaryRolls ==
    ASSUME NetInv, NEW p \in Peer, Rolling(p), BoundaryStep(p) \/ StallTimeout(p)
    PROVE  Rolling(p)'
<1> DEFINE o == Other(p)
<1>1. /\ UNCHANGED <<local, remote, predicted>>
      /\ gaveUp \subseteq gaveUp'
      /\ rollbackTo' = rollbackTo \/ Poll(p)
      /\ AtGate(p)
      /\ Front(p)' = IF NextFrame(p) \/ GoOn(p) \/ StallTimeout(p) THEN Front(p) + 1 ELSE Front(p)
      /\ RollBack(p) \/ used' = used
    BY BoundaryFacts
<1>2. /\ TypeOK /\ Place(p) /\ RingInv(p) /\ DOMAIN ring = Peer
      /\ Front(p) \in Nat /\ Frame(p) \in Nat /\ resim[p] \in Nat /\ Window \in Nat
      /\ o \in Peer /\ Len(used[p][o]) = Frame(p) /\ Frame(p) <= Front(p)
      /\ AtFront(p) => Front(p) = Frame(p) /\ Window > 0
      /\ Window = 0 => resim[p] = 0 /\ pc[p] # "stall"
      /\ \A f \in Frames : f \in Nat /\ f # Never
    <2>1. TypeOK /\ Place(p) /\ RingInv(p) /\ DOMAIN ring = Peer
        BY DEF NetInv, PlaceInv, RingsInv
    <2> QED BY <1>1, <2>1, FrameOf, Others, Numbers DEF AtFront, AtGate, Place
<1>3. /\ \A q \in Peer : Sampled(q)' = Sampled(q) /\ \A f : Real(q, f)' = Real(q, f)
      /\ \A f : Known(p, f)' = Known(p, f)
    BY <1>1, BoundaryNet DEF Known
<1>4. (Window > 0 => Ordered(p))'
    BY <1>3 DEF Rolling, Ordered
<1>5. rollbackTo'[p] = rollbackTo[p] \/ rollbackTo'[p] = Never
    BY <1>1, <1>2 DEF Poll, TypeOK
<1>6. NextFrame(p) => /\ Window = 0 /\ rollbackTo' = rollbackTo /\ gaveUp' = gaveUp
                      /\ used' = used /\ resim' = resim
    BY DEF NextFrame, peerVars
<1>7. GoOn(p) \/ StallTimeout(p) => AtFront(p) /\ rollbackTo'[p] = Never /\ used' = used /\ resim'[p] = 0
    BY <1>2 DEF GoOn, StallTimeout, RunFrame, Poll, AtFront, TypeOK, Place
<1>8. GoOn(p) /\ p \notin gaveUp => rollbackTo[p] = Never /\ ~Stalls(p)
    <2> SUFFICES ASSUME GoOn(p), p \notin gaveUp PROVE rollbackTo[p] = Never /\ ~Stalls(p)
        OBVIOUS
    <2>1. Due(p) \notin DOMAIN ring[p] /\ (Stalls(p) => Due(p) # Never) /\ AtFront(p)
        BY DEF GoOn
    <2>2. rollbackTo[p] = Never
        BY <2>1, DueIs DEF Rolling
    <2>3. Due(p) = Never
        BY <2>2 DEF Due
    <2> QED BY <2>1, <2>2, <2>3
<1>9. Guessed(p)'
    <2> SUFFICES ASSUME NEW f \in Frames, predicted[p][f] # None
                 PROVE  /\ ~Known(p, f) /\ f < Front(p)'
                        /\ p \notin gaveUp' => Front(p)' <= f + Window
        BY <1>1, <1>3 DEF Guessed
    <2>1. /\ ~Known(p, f) /\ f < Front(p) /\ f \in Nat
          /\ p \notin gaveUp => Front(p) <= f + Window
        BY <1>2 DEF Rolling, Guessed
    <2>2. CASE Front(p)' = Front(p)
        BY <2>1, <2>2, <1>1
    <2>3. CASE StallTimeout(p)
        <3>1. p \in gaveUp' /\ Front(p)' = Front(p) + 1
            BY <2>3, <1>1 DEF StallTimeout
        <3> QED BY <2>1, <3>1, <1>2
    <2>4. CASE GoOn(p)
        <3>1. Front(p)' = Front(p) + 1
            BY <2>4, <1>1
        <3>2. p \notin gaveUp => ~(f + Window <= Frame(p)) /\ Front(p) = Frame(p)
            BY <2>4, <1>2, <1>7, <1>8 DEF Stalls
        <3> QED BY <2>1, <3>1, <3>2, <1>1, <1>2
    <2>5. CASE NextFrame(p)
        <3>1. Front(p)' = Front(p) + 1 /\ Window = 0
            BY <2>5, <1>1, <1>6
        <3> QED BY <2>1, <3>1, <1>1, <1>2
    <2> QED BY <1>1, <2>2, <2>3, <2>4, <2>5
<1>10. DueInWindow(p)'
    <2> SUFFICES ASSUME rollbackTo'[p] # Never
                 PROVE  /\ Known(p, rollbackTo[p]) /\ rollbackTo[p] < Front(p)'
                        /\ p \notin gaveUp' => Front(p)' <= rollbackTo[p] + Window
        BY <1>5, <1>1 DEF DueInWindow, Known
    <2>1. /\ rollbackTo[p] # Never /\ rollbackTo[p] \in Nat
          /\ Known(p, rollbackTo[p]) /\ rollbackTo[p] < Front(p)
          /\ p \notin gaveUp => Front(p) <= rollbackTo[p] + Window
        BY <1>2, <1>5 DEF Rolling, DueInWindow, TypeOK
    <2>2. CASE Front(p)' = Front(p)
        BY <2>1, <2>2, <1>1
    <2>3. CASE NextFrame(p)
        <3>1. Front(p)' = Front(p) + 1 /\ Window = 0 /\ gaveUp' = gaveUp
            BY <2>3, <1>1, <1>6
        <3> QED BY <2>1, <3>1, <1>2
    <2> QED BY <2>2, <2>3, <1>1, <1>7
<1>11. Unknown(p)'
    <2> SUFFICES ASSUME Window > 0, NEW f \in Frames, ~Known(p, f),
                        f < Len(used'[p][o]) \/ f < resim'[p]
                 PROVE  predicted[p][f] # None
        BY <1>1, <1>3 DEF Unknown
    <2>1. f < Len(used[p][o]) \/ f < resim[p]
        <3>1. CASE RollBack(p)
            <4>1. /\ Len(used'[p][o]) = Due(p) /\ Due(p) \in Frames /\ Due(p) < Frame(p)
                  /\ resim'[p] = Frame(p)
                BY <3>1, <1>2, RollBackStep
            <4> QED BY <4>1, <1>2
        <3>2. CASE ~RollBack(p)
            <4>1. used' = used /\ (resim'[p] = resim[p] \/ resim'[p] = 0)
                <5>1. resim' = resim \/ resim' = [resim EXCEPT ![p] = 0]
                    BY <3>2 DEF BoundaryStep, NextFrame, peerVars, Resimulate, StartStall,
                                KeepWaiting, GoOn, StallTimeout, RunFrame
                <5> QED BY <5>1, <3>2, <1>1, <1>2 DEF TypeOK
            <4> QED BY <4>1, <1>2
        <3> QED BY <3>1, <3>2
    <2> QED BY <2>1 DEF Rolling, Unknown
<1>12. Accounted(p)'
    <2> SUFFICES ASSUME p \notin gaveUp', NEW n \in 1 .. Len(used'[p][o])
                 PROVE  \/ n - 1 \in Sampled(o) /\ used'[p][o][n] = Real(o, n - 1)
                        \/ predicted[p][n - 1] = used'[p][o][n]
                        \/ rollbackTo'[p] <= n - 1
        BY <1>1, <1>2, <1>3 DEF Accounted
    <2>1. p \notin gaveUp
        BY <1>1
    <2>2. \A k \in 1 .. Len(used[p][o]) :
            \/ k - 1 \in Sampled(o) /\ used[p][o][k] = Real(o, k - 1)
            \/ predicted[p][k - 1] = used[p][o][k]
            \/ rollbackTo[p] <= k - 1
        BY <2>1 DEF Rolling, Accounted
    <2>3. CASE RollBack(p)
        <3>1. /\ Len(used'[p][o]) = Due(p) /\ Due(p) \in Nat /\ Due(p) < Frame(p)
              /\ rollbackTo[p] = Due(p)
              /\ \A k \in 1 .. Due(p) : used'[p][o][k] = used[p][o][k]
            BY <2>3, <1>2, RollBackStep
        <3>2. n \in 1 .. Len(used[p][o]) /\ ~(rollbackTo[p] <= n - 1) /\ used'[p][o][n] = used[p][o][n]
            BY <3>1, <1>2
        <3> QED BY <2>2, <3>2
    <2>4. CASE ~RollBack(p)
        <3>1. used' = used
            BY <2>4, <1>1
        <3>2. rollbackTo'[p] = rollbackTo[p] \/ rollbackTo[p] = Never
            <4>1. CASE NextFrame(p)
                BY <4>1, <1>6
            <4>2. CASE Resimulate(p)
                BY <4>2 DEF Resimulate
            <4>3. CASE StartStall(p)
                BY <4>3, <2>1, StalledIs DEF StartStall
            <4>4. CASE KeepWaiting(p)
                <5>1. Due(p) = Never /\ pc[p] = "stall"
                    BY <4>4 DEF KeepWaiting
                <5>2. AtFront(p)
                    BY <5>1, <1>2 DEF AtFront, Place
                <5> QED BY <5>1, <5>2, <2>1, <1>2, DueIs DEF Rolling
            <4>5. CASE GoOn(p)
                BY <4>5, <2>1, <1>8
            <4>6. CASE StallTimeout(p)
                BY <4>6 DEF StallTimeout
            <4> QED BY <2>4, <4>1, <4>2, <4>3, <4>4, <4>5, <4>6 DEF BoundaryStep
        <3>3. rollbackTo[p] = Never => ~(rollbackTo[p] <= n - 1)
            <4>1. Len(used[p][o]) <= LastFrame /\ LastFrame \in Nat /\ LastFrame < Never /\ Never \in Nat
                BY <1>2, FrameOf, Numbers DEF Never
            <4> QED BY <4>1, <3>1, <1>2
        <3> QED BY <2>2, <3>1, <3>2, <3>3
    <2> QED BY <2>3, <2>4
<1> QED BY <1>4, <1>9, <1>10, <1>11, <1>12 DEF Rolling

(* The peer whose step it is, when it reads the other's input. *)
LEMMA ReadRolls ==
    ASSUME NetInv, Delay[1] = Delay[2], NEW p \in Peer, Rolling(p),
           ReadKnown(p) \/ ReadGuess(p) \/ ReadTimeout(p)
    PROVE  Rolling(p)'
<1> PICK f \in Frames : f = Frame(p)
    BY ReadFacts
<1> DEFINE o == Other(p)
           j == IF ReadKnown(p) THEN OrNeutral(remote[p][f])
                ELSE IF ReadGuess(p) THEN Guess(p, f) ELSE Neutral
<1>1. /\ TypeOK /\ Place(p) /\ RingInv(p) /\ o \in Peer /\ pc[p] = "read"
      /\ f \in Nat /\ Delay[o] = Delay[p] /\ Window \in Nat
      /\ \A g \in Frames : g \in Nat
    BY ReadFacts, Others, Numbers DEF NetInv, PlaceInv, RingsInv, Peer
<1>2. /\ Simulate(p, o, j) /\ AfterRead(p)
      /\ UNCHANGED <<local, remote, rollbackTo, ring, resim>>
    BY DEF ReadKnown, ReadGuess, ReadTimeout
<1>3. j \in Input
    BY ReadFacts, NetplayAssumption
<1> HIDE DEF j
<1>4. /\ Len(used[p][o]) = f /\ Len(used'[p][o]) = f + 1
      /\ used'[p][o][f + 1] = j
      /\ \A n \in 1 .. f : used'[p][o][n] = used[p][o][n]
      /\ f < Front(p) /\ Front(p)' = Front(p) /\ ~AtGate(p)
    BY <1>1, <1>2, <1>3, SimulateStep
<1>5. /\ \A q \in Peer : Sampled(q)' = Sampled(q) /\ \A g : Real(q, g)' = Real(q, g)
      /\ \A g : Known(p, g)' = Known(p, g)
    BY <1>2, ReadFacts DEF Known
<1>6. /\ \A g \in Frames : g # f => predicted'[p][g] = predicted[p][g]
      /\ ReadGuess(p) => predicted'[p][f] = j /\ j # None /\ ~Known(p, f) /\ Window > 0
      /\ ~ReadGuess(p) => predicted' = predicted
      /\ gaveUp \subseteq gaveUp'
    <2>1. CASE ReadGuess(p)
        <3>1. predicted' = [predicted EXCEPT ![p][f] = Guess(p, f)] /\ ~ReadKnown(p)
            BY <2>1 DEF ReadGuess, ReadKnown
        <3>2. j = Guess(p, f) /\ j # None
            BY <2>1, <3>1, <1>3, NetplayAssumption DEF j
        <3> QED BY <2>1, <3>1, <3>2, <1>1 DEF ReadGuess, TypeOK, Inputs
    <2>2. CASE ~ReadGuess(p)
        BY <2>2 DEF ReadKnown, ReadTimeout
    <2> QED BY <2>1, <2>2
<1>7. (Window > 0 => Ordered(p))'
    BY <1>5 DEF Rolling, Ordered
<1>8. Guessed(p)'
    <2> SUFFICES ASSUME NEW g \in Frames, predicted'[p][g] # None
                 PROVE  /\ ~Known(p, g) /\ g < Front(p)
                        /\ p \notin gaveUp => Front(p) <= g + Window
        BY <1>4, <1>5, <1>6 DEF Guessed
    <2>1. CASE predicted[p][g] # None
        BY <2>1 DEF Rolling, Guessed
    <2>2. CASE predicted[p][g] = None
        <3>1. g = f /\ ReadGuess(p)
            BY <2>2, <1>6
        <3>2. ~Known(p, f) /\ Window > 0
            BY <3>1, <1>6
        <3>3. ~(f < resim[p])
            BY <2>2, <3>1, <3>2 DEF Rolling, Unknown
        <3>4. resim[p] \in Nat
            BY <1>1 DEF TypeOK
        <3>5. Front(p) = f + 1
            BY <3>3, <3>4, <1>1, <1>4 DEF Front
        <3> QED BY <3>1, <3>2, <3>5, <1>1, <1>4
    <2> QED BY <2>1, <2>2
<1>9. DueInWindow(p)'
    <2>1. Known(p, rollbackTo[p])' = Known(p, rollbackTo[p])
        BY <1>2 DEF Known
    <2> QED BY <2>1, <1>2, <1>4, <1>6 DEF Rolling, DueInWindow
<1>10. Unknown(p)'
    <2> SUFFICES ASSUME Window > 0, NEW g \in Frames, ~Known(p, g), g < f + 1 \/ g < resim[p]
                 PROVE  predicted'[p][g] # None
        BY <1>2, <1>4, <1>5 DEF Unknown
    <2>1. CASE g = f
        <3>1. ReadGuess(p)
            BY <2>1 DEF ReadKnown, ReadTimeout
        <3> QED BY <2>1, <3>1, <1>6
    <2>2. CASE g # f
        <3>1. g < f \/ g < resim[p]
            BY <2>2, <1>1
        <3> QED BY <2>2, <3>1, <1>4, <1>6 DEF Rolling, Unknown
    <2> QED BY <2>1, <2>2
<1>11. Accounted(p)'
    <2> SUFFICES ASSUME p \notin gaveUp', NEW n \in 1 .. f + 1
                 PROVE  \/ n - 1 \in Sampled(o) /\ used'[p][o][n] = Real(o, n - 1)
                        \/ predicted'[p][n - 1] = used'[p][o][n]
                        \/ rollbackTo[p] <= n - 1
        BY <1>1, <1>2, <1>4, <1>5 DEF Accounted
    <2>1. p \notin gaveUp
        BY <1>6
    <2>2. CASE n \in 1 .. f
        <3>1. \/ n - 1 \in Sampled(o) /\ used[p][o][n] = Real(o, n - 1)
              \/ predicted[p][n - 1] = used[p][o][n]
              \/ rollbackTo[p] <= n - 1
            BY <2>1, <2>2, <1>4 DEF Rolling, Accounted
        <3>2. n - 1 \in Frames /\ n - 1 # f
            BY <2>2, <1>1, Numbers DEF Frames
        <3> QED BY <2>2, <3>1, <3>2, <1>4, <1>6
    <2>3. CASE n = f + 1
        <3>1. n - 1 = f /\ used'[p][o][n] = j
            BY <2>3, <1>1, <1>4
        <3>2. CASE ReadKnown(p)
            <4>1. j = OrNeutral(remote[p][f]) /\ Known(p, f)
                BY <3>2 DEF j, ReadKnown
            <4>2. CASE remote[p][f] # None
                <5>1. f \in Sampled(o) /\ remote[p][f] = Real(o, f)
                    BY <4>2 DEF NetInv, RemoteInv
                <5> QED BY <3>1, <4>1, <4>2, <5>1 DEF OrNeutral
            <4>3. CASE remote[p][f] = None
                <5>1. f < Delay[o] /\ ~(Delay[o] <= f)
                    BY <4>1, <4>3, <1>1, Numbers DEF Known
                <5>2. f \in Sampled(o) /\ local[o][f] = None
                    BY <5>1, <1>1 DEF Sampled, NetInv, LocalInv
                <5>3. j = Real(o, f)
                    BY <4>1, <4>3, <5>2 DEF Real, OrNeutral
                <5> QED BY <3>1, <5>2, <5>3
            <4> QED BY <4>2, <4>3
        <3>3. CASE ReadGuess(p)
            BY <3>1, <3>3, <1>6
        <3>4. CASE ReadTimeout(p)
            BY <3>4 DEF ReadTimeout
        <3> QED BY <3>2, <3>3, <3>4
    <2> QED BY <2>2, <2>3, <1>1
<1> QED BY <1>7, <1>8, <1>9, <1>10, <1>11 DEF Rolling

(* The peer that a datagram arrives at. *)
LEMMA ReceiveRolls ==
    ASSUME NetInv, Window > 0 => Gapless, NEW p \in Peer, Rolling(p),
           NEW m \in net, Receive(p, m)
    PROVE  Rolling(p)'
<1> DEFINE o == Other(p)
           here == DOMAIN m.inputs
           wrong == {f \in here : predicted[p][f] \notin {None, m.inputs[f]}}
<1>1. /\ m.from = o /\ here \subseteq Sampled(o)
      /\ \A f \in here : m.inputs[f] \in Input /\ m.inputs[f] = Real(o, f)
      /\ \A f \in Frames :
           /\ remote'[p][f] = IF f \in here THEN m.inputs[f] ELSE remote[p][f]
           /\ predicted'[p][f] = IF f \in here THEN None ELSE predicted[p][f]
      /\ rollbackTo'[p] \in Frames \cup {Never}
      /\ rollbackTo'[p] <= rollbackTo[p]
      /\ \A f \in wrong : rollbackTo'[p] <= f
      /\ rollbackTo'[p] = rollbackTo[p] \/ rollbackTo'[p] \in wrong
      /\ UNCHANGED <<pc, used, local, ring, resim, gaveUp>>
    BY ReceiveFacts DEF TypeOK
<1>2. /\ TypeOK /\ Place(p) /\ o \in Peer /\ Other(o) = p
      /\ here \subseteq Frames /\ None \notin Input /\ rollbackTo[p] \in Nat
      /\ \A f \in Frames \cup {Never} : f \in Nat
    BY <1>1, Others, Numbers, NetplayAssumption DEF NetInv, PlaceInv, Sampled, TypeOK
<1>3. /\ Front(p)' = Front(p)
      /\ \A q \in Peer : Sampled(q)' = Sampled(q) /\ \A f : Real(q, f)' = Real(q, f)
    BY NetworkStep
<1>4. \A f \in Frames : Known(p, f)' <=> Known(p, f) \/ f \in here
    BY <1>1, <1>2 DEF Known
<1>5. (Window > 0 => Ordered(p))'
    <2> SUFFICES ASSUME Window > 0, NEW f \in Frames, NEW g \in Frames,
                        Known(p, f) \/ f \in here, g < f
                 PROVE  Known(p, g) \/ g \in here
        BY <1>4 DEF Ordered
    <2>1. CASE Known(p, f)
        BY <2>1 DEF Rolling, Ordered
    <2>2. CASE f \in here
        BY <2>2, <1>1, <1>2 DEF Gapless
    <2> QED BY <2>1, <2>2
<1>6. Guessed(p)'
    BY <1>1, <1>3, <1>4 DEF Rolling, Guessed
<1>7. DueInWindow(p)'
    <2> SUFFICES ASSUME rollbackTo'[p] # Never
                 PROVE  /\ Known(p, rollbackTo[p])' /\ rollbackTo'[p] < Front(p)
                        /\ p \notin gaveUp => Front(p) <= rollbackTo'[p] + Window
        BY <1>1, <1>3 DEF DueInWindow
    <2> PICK d \in Frames : d = rollbackTo'[p]
        BY <1>1
    <2>1. CASE rollbackTo'[p] = rollbackTo[p]
        <3>1. Known(p, d) /\ d < Front(p) /\ (p \notin gaveUp => Front(p) <= d + Window)
            BY <2>1 DEF Rolling, DueInWindow
        <3> QED BY <3>1, <1>4 DEF Known
    <2>2. CASE rollbackTo'[p] \in wrong
        <3>1. d \in here /\ predicted[p][d] # None
            BY <2>2
        <3>2. d < Front(p) /\ (p \notin gaveUp => Front(p) <= d + Window)
            BY <3>1 DEF Rolling, Guessed
        <3> QED BY <3>1, <3>2, <1>4 DEF Known
    <2> QED BY <1>1, <2>1, <2>2
<1>8. Unknown(p)'
    BY <1>1, <1>4 DEF Rolling, Unknown
<1>9. Accounted(p)'
    <2> SUFFICES ASSUME p \notin gaveUp, NEW n \in 1 .. Len(used[p][o])
                 PROVE  \/ n - 1 \in Sampled(o) /\ used[p][o][n] = Real(o, n - 1)
                        \/ predicted'[p][n - 1] = used[p][o][n]
                        \/ rollbackTo'[p] <= n - 1
        BY <1>1, <1>2, <1>3 DEF Accounted
    <2>1. /\ n - 1 \in Frames /\ n - 1 \in Nat /\ used[p][o][n] \in Input
        <3>1. /\ used[p][o] \in Seq(Input) /\ Len(used[p][o]) \in Nat
              /\ Len(used[p][o]) <= LastFrame /\ LastFrame \in Nat
            BY <1>2, FrameOf, Numbers
        <3>2. n - 1 \in Nat /\ n - 1 <= LastFrame
            BY <3>1
        <3> QED BY <3>1, <3>2, Numbers
    <2>2. \/ n - 1 \in Sampled(o) /\ used[p][o][n] = Real(o, n - 1)
          \/ predicted[p][n - 1] = used[p][o][n]
          \/ rollbackTo[p] <= n - 1
        BY DEF Rolling, Accounted
    <2>3. CASE rollbackTo[p] <= n - 1
        BY <2>1, <2>3, <1>1, <1>2
    <2>4. CASE predicted[p][n - 1] = used[p][o][n]
        <3>1. CASE n - 1 \notin here
            BY <2>1, <2>4, <3>1, <1>1
        <3>2. CASE n - 1 \in here /\ m.inputs[n - 1] = used[p][o][n]
            BY <3>2, <1>1
        <3>3. CASE n - 1 \in here /\ m.inputs[n - 1] # used[p][o][n]
            <4>1. n - 1 \in wrong
                BY <2>1, <2>4, <3>3, <1>2
            <4> QED BY <4>1, <1>1
        <3> QED BY <3>1, <3>2, <3>3
    <2> QED BY <2>2, <2>3, <2>4
<1> QED BY <1>5, <1>6, <1>7, <1>8, <1>9 DEF Rolling

(* Every step keeps what a peer that rolls back relies on. *)
LEMMA RollStep ==
    ASSUME NetInv, RollInv, Delay[1] = Delay[2], Window > 0 => Gapless, [Next]_vars
    PROVE  RollInv'
<1> SUFFICES ASSUME NEW r \in Peer PROVE Rolling(r)'
    BY DEF RollInv
<1>0. Rolling(r) /\ Other(r) \in Peer
    BY Others DEF RollInv
<1>1. CASE UNCHANGED vars
    <2>1. /\ UNCHANGED <<pc, used, local, remote, predicted, rollbackTo, ring, resim, gaveUp>>
          /\ Same(r)
        BY <1>1 DEF vars, Same
    <2>2. \A q \in Peer : Sampled(q)' = Sampled(q) /\ \A g : Real(q, g)' = Real(q, g)
        BY <2>1 DEF Sampled, Real
    <2> QED BY <1>0, <2>1, <2>2, SameKeeps, RollKept
<1>2. ASSUME NEW p \in Peer, NEW i \in Pad[p], Submit(p, i) PROVE Rolling(r)'
    <2>1. UNCHANGED <<remote, predicted, rollbackTo, resim, gaveUp>>
        BY <1>2 DEF Submit
    <2> QED BY <1>0, <1>2, <2>1, SubmitStep, RollKept
<1>3. ASSUME NEW p \in Peer, ReadKnown(p) \/ ReadGuess(p) \/ ReadTimeout(p) PROVE Rolling(r)'
    <2>1. CASE r = p
        BY <1>0, <1>3, <2>1, ReadRolls
    <2>2. CASE r # p
        <3>1. /\ remote' = remote /\ rollbackTo' = rollbackTo /\ resim' = resim
              /\ gaveUp \subseteq gaveUp'
              /\ predicted'[r] = predicted[r]
              /\ used'[r] = used[r]
            BY <1>3, <2>2 DEF ReadKnown, ReadGuess, ReadTimeout, Simulate, NetInv, TypeOK
        <3> QED BY <1>0, <1>3, <3>1, ReadFacts, RollKept
    <2> QED BY <2>1, <2>2
<1>4. ASSUME NEW p \in Peer, BoundaryStep(p) \/ StallTimeout(p) PROVE Rolling(r)'
    <2>1. CASE r = p
        BY <1>0, <1>4, <2>1, BoundaryRolls
    <2>2. CASE r # p
        <3>1. /\ Same(r) /\ UNCHANGED <<remote, predicted>> /\ gaveUp \subseteq gaveUp'
              /\ rollbackTo'[r] = rollbackTo[r]
            BY <1>4, <2>2, BoundaryFacts DEF Poll, NetInv, TypeOK
        <3>2. Front(r)' = Front(r) /\ used'[r] = used[r] /\ resim'[r] = resim[r]
            BY <3>1, SameKeeps DEF Same
        <3> QED BY <1>0, <1>4, <3>1, <3>2, BoundaryNet, RollKept
    <2> QED BY <2>1, <2>2
<1>5. ASSUME NEW m \in net, Receive(Other(m.from), m) \/ Lose(m) PROVE Rolling(r)'
    <2> DEFINE p == Other(m.from)
    <2>1. p \in Peer
        BY Others DEF NetInv, WireInv
    <2>2. CASE Receive(p, m) /\ r = p
        BY <1>0, <2>2, ReceiveRolls
    <2>3. CASE Lose(m) \/ (Receive(p, m) /\ r # p)
        <3>1. /\ remote'[r] = remote[r] /\ predicted'[r] = predicted[r]
              /\ rollbackTo'[r] = rollbackTo[r] /\ gaveUp' = gaveUp
            <4>1. CASE Lose(m)
                BY <4>1 DEF Lose, peerVars
            <4>2. CASE Receive(p, m) /\ r # p
                BY <2>1, <4>2, ReceiveFacts
            <4> QED BY <2>3, <4>1, <4>2
        <3>2. Front(r)' = Front(r) /\ Same(r)
              /\ \A q \in Peer : Sampled(q)' = Sampled(q) /\ \A g : Real(q, g)' = Real(q, g)
            BY <1>5, <2>1, NetworkStep
        <3> QED BY <1>0, <3>1, <3>2, RollKept DEF Same
    <2> QED BY <1>5, <2>2, <2>3
<1> QED BY <1>1, <1>2, <1>3, <1>4, <1>5 DEF Next, GameStep, TimeoutStep
-----------------------------------------------------------------------------
(* What follows from it.                                                   *)

(* What follows for a peer that has not given up. *)
LEMMA RollGives ==
    ASSUME NetInv, RollInv, NEW p \in Peer, p \notin gaveUp
    PROVE  /\ Window = 0 => rollbackTo[p] = Never /\ \A f \in Frames : predicted[p][f] = None
           /\ \A q \in Peer : \A n \in Nat \ {0} :
                n + Window <= Frame(p) => n - 1 \in Sampled(q) /\ used[p][q][n] = Real(q, n - 1)
<1> DEFINE o == Other(p)
<1>1. /\ TypeOK /\ Place(p) /\ Rolling(p) /\ o \in Peer
      /\ \A q \in Peer : q = p \/ q = o
    BY Others DEF NetInv, PlaceInv, RollInv
<1>2. /\ Window \in Nat /\ Frame(p) \in Nat /\ Front(p) \in Nat /\ Frame(p) <= Front(p)
      /\ \A q \in Peer : used[p][q] \in Seq(Input) /\ Len(used[p][q]) \in Nat
                         /\ Frame(p) <= Len(used[p][q])
      /\ Front(p) <= LastFrame /\ LastFrame \in Nat
      /\ rollbackTo[p] \in Frames \cup {Never}
      /\ \A f \in Frames : f \in Nat /\ f < Never
      /\ \A f \in Nat : f <= LastFrame => f \in Frames
      /\ Delay[p] \in Nat
    BY <1>1, FrameOf, Numbers DEF TypeOK
<1>3. /\ \A f \in Frames : predicted[p][f] # None => f < Front(p) /\ Front(p) <= f + Window
      /\ rollbackTo[p] # Never => /\ rollbackTo[p] \in Nat /\ rollbackTo[p] < Front(p)
                                  /\ Front(p) <= rollbackTo[p] + Window
    BY <1>1, <1>2 DEF Rolling, Guessed, DueInWindow
<1>4. Window = 0 => rollbackTo[p] = Never /\ \A f \in Frames : predicted[p][f] = None
    BY <1>2, <1>3
<1>5. ASSUME NEW q \in Peer, NEW n \in Nat \ {0}, n + Window <= Frame(p)
      PROVE  n - 1 \in Sampled(q) /\ used[p][q][n] = Real(q, n - 1)
    <2>1. n \in 1 .. Len(used[p][q]) /\ n - 1 \in Nat /\ n - 1 <= LastFrame
        BY <1>2, <1>5
    <2>2. n - 1 \in Frames /\ used[p][q][n] \in Input
        BY <1>2, <2>1
    <2>3. CASE q = p
        <3>1. n - 1 < Len(used[p][p]) + Delay[p]
            BY <2>1, <2>3, <1>2
        <3> QED BY <2>1, <2>2, <2>3, <3>1 DEF NetInv, LocalInv, OwnInv
    <2>4. CASE q = o
        <3>1. \/ n - 1 \in Sampled(o) /\ used[p][o][n] = Real(o, n - 1)
              \/ predicted[p][n - 1] = used[p][o][n]
              \/ rollbackTo[p] <= n - 1
            BY <2>1, <2>4, <1>1 DEF Rolling, Accounted
        <3>2. ~(Front(p) <= n - 1 + Window)
            BY <1>2, <1>5
        <3>3. predicted[p][n - 1] = None
            BY <2>2, <3>2, <1>3
        <3>4. ~(rollbackTo[p] <= n - 1)
            <4>1. CASE rollbackTo[p] = Never
                BY <4>1, <2>2, <1>2, Numbers
            <4>2. CASE rollbackTo[p] # Never
                BY <4>2, <2>1, <3>2, <1>2, <1>3
            <4> QED BY <4>1, <4>2
        <3> QED BY <2>2, <2>4, <3>1, <3>3, <3>4, NetplayAssumption
    <2> QED BY <2>3, <2>4, <1>1
<1> QED BY <1>4, <1>5

(* What was simulated of the other is accounted for. *)
LEMMA RollAccounts == NetInv /\ RollInv => GuessesAccounted
<1> SUFFICES ASSUME NetInv, RollInv, NEW p \in Peer \ gaveUp, NEW n \in DOMAIN used[p][Other(p)]
             PROVE  \/ used[p][Other(p)][n] = Real(Other(p), n - 1)
                    \/ predicted[p][n - 1] = used[p][Other(p)][n]
                    \/ rollbackTo[p] <= n - 1
    BY DEF GuessesAccounted
<1>1. n \in 1 .. Len(used[p][Other(p)])
    BY Others DEF NetInv, TypeOK, History
<1> QED BY <1>1 DEF RollInv, Rolling, Accounted

(* The rollback that is due has its snapshot. *)
LEMMA RollHasSnapshot == NetInv /\ RollInv => SnapshotThere
<1> SUFFICES ASSUME NetInv, RollInv, NEW p \in Peer \ gaveUp, AtFront(p), rollbackTo[p] # Never
             PROVE  /\ Due(p) = rollbackTo[p]
                    /\ rollbackTo[p] \in DOMAIN ring[p]
                    /\ \A q \in Peer : Len(ring[p][rollbackTo[p]][q]) = rollbackTo[p]
    BY DEF SnapshotThere
<1>1. Due(p) = rollbackTo[p] /\ Due(p) \in DOMAIN ring[p]
    BY DueIs DEF RollInv, Rolling
<1> QED BY <1>1 DEF NetInv, RingsInv, RingInv

(* The oldest snapshot rests on what was pressed. *)
LEMMA RollConfirms == NetInv /\ RollInv => ConfirmedIsReal
<1> SUFFICES ASSUME NetInv, RollInv, NEW p \in Peer \ gaveUp,
                    Frame(p) - Window \in DOMAIN ring[p], NEW q \in Peer,
                    NEW n \in 1 .. (Frame(p) - Window)
             PROVE  ring[p][Frame(p) - Window][q][n] = Real(q, n - 1)
    BY DEF ConfirmedIsReal
<1> DEFINE g == Frame(p) - Window
<1>1. TypeOK /\ Place(p) /\ RingInv(p)
    BY DEF NetInv, PlaceInv, RingsInv
<1>2. Frame(p) \in Nat /\ Window \in Nat /\ Window # 0
    BY <1>1, FrameOf, Numbers DEF Place
<1>3. g < Frame(p) /\ n \in Nat \ {0} /\ n + Window <= Frame(p) /\ n \in 1 .. g
    BY <1>2
<1>4. ring[p][g][q][n] = used[p][q][n]
    BY <1>1, <1>3 DEF RingInv
<1>5. used[p][q][n] = Real(q, n - 1)
    BY <1>3, RollGives
<1> QED BY <1>4, <1>5

(* A peer's next frames are at most a window away from the first input of  *)
(* the other that it does not know.                                        *)
LEMMA FrontBound ==
    ASSUME NetInv, Window > 0, NEW p \in Peer, p \notin gaveUp, Rolling(p),
           NEW g \in Frames, ~Known(p, g)
    PROVE  Front(p) <= g + Window
<1>1. /\ TypeOK /\ Place(p) /\ Other(p) \in Peer
      /\ Front(p) \in Nat /\ Frame(p) \in Nat /\ resim[p] \in Nat /\ Window \in Nat /\ g \in Nat
      /\ Len(used[p][Other(p)]) \in Nat /\ Frame(p) <= Len(used[p][Other(p)])
    <2>1. TypeOK /\ Place(p)
        BY DEF NetInv, PlaceInv
    <2> QED BY <2>1, FrameOf, Numbers, Others
<1>2. CASE g < Len(used[p][Other(p)]) \/ g < resim[p]
    <2>1. predicted[p][g] # None
        BY <1>2 DEF Rolling, Unknown
    <2> QED BY <2>1 DEF Rolling, Guessed
<1>3. CASE ~(g < Len(used[p][Other(p)]) \/ g < resim[p])
    <2>1. Frame(p) <= g /\ resim[p] <= g
        BY <1>1, <1>3
    <2>2. Front(p) <= g + 1
        BY <2>1, <1>1 DEF Front
    <2> QED BY <2>2, <1>1
<1> QED BY <1>2, <1>3

(* Nor does it know what the other has not sampled yet. *)
LEMMA UnsampledUnknown ==
    ASSUME NetInv, Delay[1] = Delay[2], NEW p \in Peer
    PROVE  LET h == Front(Other(p)) + Delay[1] IN h \in Frames /\ ~Known(p, h)
<1> DEFINE o == Other(p)
           h == Front(o) + Delay[1]
<1>1. /\ TypeOK /\ Place(o) /\ o \in Peer /\ Delay[p] = Delay[1] /\ Delay[o] = Delay[1]
      /\ Delay[1] \in Nat
    BY Others, NetplayAssumption DEF NetInv, PlaceInv, Peer
<1>2. /\ Front(o) \in Nat /\ Front(o) <= LastFrame /\ LastFrame \in Nat
      /\ Longest = Delay[1]
    BY <1>1, FrameOf, Numbers DEF Longest
<1>3. h \in Frames /\ ~(h < Delay[1]) /\ ~(h < Front(o) + Delay[1])
    BY <1>1, <1>2 DEF Frames
<1>4. h \notin Sampled(o)
    BY <1>1, <1>3 DEF Sampled, NetInv, LocalInv
<1>5. remote[p][h] = None
    BY <1>3, <1>4 DEF NetInv, RemoteInv
<1> QED BY <1>1, <1>3, <1>5 DEF Known

(* What a peer has given up stays given up, and what it knows stays known. *)
LEMMA Grows ==
    ASSUME NetInv, [Next]_vars
    PROVE  /\ gaveUp \subseteq gaveUp'
           /\ \A q \in Peer, g \in Frames : Known(q, g) => Known(q, g)'
           /\ (\E p \in Peer : \E i \in Pad[p] : Submit(p, i)) \/ net' \subseteq net
<1>1. CASE UNCHANGED vars
    BY <1>1 DEF vars, Known
<1>2. ASSUME NEW p \in Peer, NEW i \in Pad[p], Submit(p, i)
      PROVE  UNCHANGED <<remote, gaveUp>>
    BY <1>2 DEF Submit
<1>3. ASSUME NEW p \in Peer, ReadKnown(p) \/ ReadGuess(p) \/ ReadTimeout(p)
      PROVE  UNCHANGED <<remote, net>> /\ gaveUp \subseteq gaveUp'
    BY <1>3 DEF ReadKnown, ReadGuess, ReadTimeout
<1>4. ASSUME NEW p \in Peer, BoundaryStep(p) \/ StallTimeout(p)
      PROVE  UNCHANGED <<remote, net>> /\ gaveUp \subseteq gaveUp'
    BY <1>4, BoundaryFacts
<1>5. ASSUME NEW m \in net, Receive(Other(m.from), m) \/ Lose(m)
      PROVE  /\ gaveUp' = gaveUp /\ net' \subseteq net
             /\ \A q \in Peer, g \in Frames : remote[q][g] # None => remote'[q][g] # None
    <2>1. Other(m.from) \in Peer /\ None \notin Input
        BY Others, NetplayAssumption DEF NetInv, WireInv
    <2>2. CASE Lose(m)
        BY <2>2 DEF Lose, peerVars
    <2>3. CASE Receive(Other(m.from), m)
        <3>1. /\ gaveUp' = gaveUp /\ net' \subseteq net
              /\ \A g \in DOMAIN m.inputs : m.inputs[g] \in Input
              /\ \A q \in Peer : q # Other(m.from) => remote'[q] = remote[q]
              /\ \A g \in Frames : remote'[Other(m.from)][g] =
                     IF g \in DOMAIN m.inputs THEN m.inputs[g] ELSE remote[Other(m.from)][g]
            BY <2>1, <2>3, ReceiveFacts
        <3> QED BY <2>1, <3>1
    <2> QED BY <1>5, <2>2, <2>3
<1>6. ASSUME \A q \in Peer, g \in Frames : remote[q][g] # None => remote'[q][g] # None
      PROVE  \A q \in Peer, g \in Frames : Known(q, g) => Known(q, g)'
    BY <1>6 DEF Known
<1> QED BY <1>1, <1>2, <1>3, <1>4, <1>5, <1>6 DEF Next, GameStep, TimeoutStep

(* With enough redundancy the datagrams leave no gaps.  Let p send frame   *)
(* f + D while the other, o, misses p's frame g.  Then o has begun no      *)
(* frame after g + W; p knows no input of o for a frame D later, and has   *)
(* begun none another W later: f < g + 2W + D.  A datagram that repeats    *)
(* 2 (W + D) frames or more up to f + D has g in it.                       *)
LEMMA GaplessStep ==
    ASSUME NetInv, RollInv, Gapless, gaveUp = {}, Delay[1] = Delay[2], Window > 0,
           Redundancy >= 2 * (Window + Delay[1]), [Next]_vars
    PROVE  Gapless'
<1>1. ASSUME NEW m \in net', NEW g \in Frames, NEW h \in Frames,
             h \in DOMAIN m.inputs, g < h, g \notin DOMAIN m.inputs
      PROVE  Known(Other(m.from), g)'
    <2>1. CASE m \in net
        <3>1. Known(Other(m.from), g)
            BY <1>1, <2>1 DEF Gapless
        <3>2. Other(m.from) \in Peer
            BY <2>1, Others DEF NetInv, WireInv
        <3> QED BY <3>1, <3>2, Grows
    <2>2. CASE m \notin net
        <3> PICK p \in Peer : \E i \in Pad[p] : Submit(p, i)
            BY <1>1, <2>2, Grows
        <3>1. PICK i \in Pad[p] : Submit(p, i)
            OBVIOUS
        <3> PICK f \in Frames : f = Frame(p) /\ f < Front(p) /\ Front(p) \in Nat
            <4>1. TypeOK /\ Place(p) /\ pc[p] = "submit"
                BY <3>1 DEF NetInv, PlaceInv, Submit
            <4> QED BY <4>1, FrameOf DEF AtGate
        <3> DEFINE o == Other(p)
                   s == f + Delay[p]
                   ours == IF local[p][s] = None THEN [local[p] EXCEPT ![s] = i] ELSE local[p]
        <3>2. /\ o \in Peer /\ Other(o) = p /\ Delay[p] = Delay[1] /\ Delay[1] \in Nat
              /\ Window \in Nat /\ Redundancy \in Nat /\ f \in Nat /\ g \in Nat /\ h \in Nat
            BY Others, Numbers DEF Peer
        <3>3. m = Packet(p, ours, s)
            BY <1>1, <2>2, <3>1 DEF Submit
        <3>4. /\ m.from = p
              /\ DOMAIN m.inputs = {k \in Frames : k <= s /\ s < k + Redundancy}
            BY <3>3 DEF Packet
        <3>5. ~Known(o, g) => FALSE
            <4> SUFFICES ASSUME ~Known(o, g) PROVE FALSE
                OBVIOUS
            <4>1. Front(o) <= g + Window
                BY <3>2, FrontBound DEF RollInv
            <4>2. Front(o) + Delay[1] \in Frames /\ ~Known(p, Front(o) + Delay[1])
                BY UnsampledUnknown
            <4>3. Front(p) <= Front(o) + Delay[1] + Window
                BY <4>2, FrontBound DEF RollInv
            <4>4. Front(o) \in Nat
                BY <3>2, FrameOf DEF NetInv, PlaceInv
            <4>5. h <= f + Delay[1] /\ ~(f + Delay[1] < g + Redundancy)
                BY <1>1, <3>2, <3>4
            <4> QED BY <4>1, <4>3, <4>4, <4>5, <3>2
        <3> QED BY <3>2, <3>4, <3>5, Grows
    <2> QED BY <2>1, <2>2
<1> QED BY <1>1 DEF Gapless
-----------------------------------------------------------------------------
(* Rolling holds in every session whose datagrams leave no gaps. *)
LEMMA RollInvariant ==
    ASSUME Delay[1] = Delay[2]
    PROVE  Spec /\ [](Window > 0 => Gapless) => [](NetInv /\ RollInv)
<1>1. NetInv /\ RollInv /\ (Window > 0 => Gapless) /\ [Next]_vars => (NetInv /\ RollInv)'
    BY NetStep, RollStep
<1>2. Init => NetInv /\ RollInv
    BY NetInitially, RollInitially
<1> QED BY <1>1, <1>2, PTL DEF Spec

(* Whatever is lost, late or out of order, the datagrams of sendOurs leave *)
(* no gaps until a peer gives up, if they repeat twice as many frames as   *)
(* the window and the delay together have.                                 *)
THEOREM RedundancyHeals ==
    ASSUME Delay[1] = Delay[2], Window > 0, Redundancy >= 2 * (Window + Delay[1])
    PROVE  Spec => [](gaveUp = {} => Gapless /\ RollInv)
<1> DEFINE J == NetInv /\ (gaveUp = {} => RollInv /\ Gapless)
<1>1. Init => J
    <2>1. Init => Gapless
        BY DEF Init, Gapless
    <2> QED BY <2>1, NetInitially, RollInitially
<1>2. J /\ [Next]_vars => J'
    <2> SUFFICES ASSUME J, [Next]_vars PROVE J'
        OBVIOUS
    <2>1. NetInv'
        BY NetStep
    <2>2. gaveUp' = {} => gaveUp = {}
        BY Grows
    <2>3. gaveUp' = {} => RollInv' /\ Gapless'
        BY <2>2, RollStep, GaplessStep
    <2> QED BY <2>1, <2>3
<1>3. J => (gaveUp = {} => Gapless /\ RollInv)
    OBVIOUS
<1> QED BY <1>1, <1>2, <1>3, PTL DEF Spec

(* Rolling holds until a peer gives up, on any network, if the datagrams   *)
(* repeat enough frames, and for ever if they leave no gaps.               *)
LEMMA GaplessRolls ==
    ASSUME Delay[1] = Delay[2]
    PROVE  Spec /\ []Gapless => [](NetInv /\ RollInv)
<1>1. Gapless => (Window > 0 => Gapless)
    OBVIOUS
<1> QED BY <1>1, RollInvariant, PTL

(* Rolling holds until a peer gives up if the datagrams repeat enough.     *)
LEMMA HealedRolls ==
    ASSUME Delay[1] = Delay[2], Window > 0, Redundancy >= 2 * (Window + Delay[1])
    PROVE  Spec => [](gaveUp = {} => NetInv /\ RollInv)
BY NetplayInvariant, RedundancyHeals, PTL

(* A peer that has not given up never simulates on an input that its owner *)
(* did not press without knowing it (ps2NetGetInput, applyInputs,          *)
(* ps2NetRollbackPoll, netAtBoundary): if the datagrams leave no gaps, or  *)
(* with enough redundancy until one of the two gives up.                   *)
THEOREM GuessesAreAccountedFor ==
    ASSUME Delay[1] = Delay[2]
    PROVE  /\ Spec /\ []Gapless => []GuessesAccounted
           /\ Window > 0 /\ Redundancy >= 2 * (Window + Delay[1]) =>
                (Spec => [](gaveUp = {} => GuessesAccounted))
<1>1. NetInv /\ RollInv => GuessesAccounted
    BY RollAccounts
<1>2. Spec /\ []Gapless => []GuessesAccounted
    BY <1>1, GaplessRolls, PTL
<1>3. ASSUME Window > 0, Redundancy >= 2 * (Window + Delay[1])
      PROVE  Spec => [](gaveUp = {} => GuessesAccounted)
    BY <1>1, <1>3, HealedRolls, PTL
<1> QED BY <1>2, <1>3

(* Likewise, the rollback that is due at a boundary is one that the poll   *)
(* of netAtBoundary reports, and has its snapshot.                         *)
THEOREM SnapshotIsThere ==
    ASSUME Delay[1] = Delay[2]
    PROVE  /\ Spec /\ []Gapless => []SnapshotThere
           /\ Window > 0 /\ Redundancy >= 2 * (Window + Delay[1]) =>
                (Spec => [](gaveUp = {} => SnapshotThere))
<1>1. NetInv /\ RollInv => SnapshotThere
    BY RollHasSnapshot
<1>2. Spec /\ []Gapless => []SnapshotThere
    BY <1>1, GaplessRolls, PTL
<1>3. ASSUME Window > 0, Redundancy >= 2 * (Window + Delay[1])
      PROVE  Spec => [](gaveUp = {} => SnapshotThere)
    BY <1>1, <1>3, HealedRolls, PTL
<1> QED BY <1>2, <1>3

(* Likewise, the oldest snapshot, which the checksum is taken from, was    *)
(* computed from what both players really pressed.                         *)
THEOREM ConfirmedWasPressed ==
    ASSUME Delay[1] = Delay[2]
    PROVE  /\ Spec /\ []Gapless => []ConfirmedIsReal
           /\ Window > 0 /\ Redundancy >= 2 * (Window + Delay[1]) =>
                (Spec => [](gaveUp = {} => ConfirmedIsReal))
<1>1. NetInv /\ RollInv => ConfirmedIsReal
    BY RollConfirms
<1>2. Spec /\ []Gapless => []ConfirmedIsReal
    BY <1>1, GaplessRolls, PTL
<1>3. ASSUME Window > 0, Redundancy >= 2 * (Window + Delay[1])
      PROVE  Spec => [](gaveUp = {} => ConfirmedIsReal)
    BY <1>1, <1>3, HealedRolls, PTL
<1> QED BY <1>2, <1>3

(* What both peers simulated more than a window of frames ago, they        *)
(* simulated with the same inputs.                                         *)
ConfirmedAgree ==
    gaveUp = {} =>
        \A q \in Peer : \A n \in Nat \ {0} :
            n + Window <= Frame(1) /\ n + Window <= Frame(2) => used[1][q][n] = used[2][q][n]

(* Each of the two peers simulated what was pressed. *)
LEMMA RollAgrees == NetInv /\ RollInv => ConfirmedAgree
<1> SUFFICES ASSUME NetInv, RollInv, gaveUp = {}, NEW q \in Peer, NEW n \in Nat \ {0},
                    n + Window <= Frame(1), n + Window <= Frame(2)
             PROVE  used[1][q][n] = used[2][q][n]
    BY DEF ConfirmedAgree
<1>1. 1 \in Peer /\ 2 \in Peer
    BY DEF Peer
<1>2. used[1][q][n] = Real(q, n - 1)
    BY <1>1, RollGives
<1>3. used[2][q][n] = Real(q, n - 1)
    BY <1>1, RollGives
<1> QED BY <1>2, <1>3

(* The two machines of a session with rollback never drift apart: however  *)
(* often each of them goes back, they agree on every frame that is behind  *)
(* both windows, even on the way back to the front.                        *)
THEOREM RollbackAgrees ==
    ASSUME Delay[1] = Delay[2]
    PROVE  /\ Spec /\ []Gapless => []ConfirmedAgree
           /\ Window > 0 /\ Redundancy >= 2 * (Window + Delay[1]) =>
                (Spec => []ConfirmedAgree)
<1>1. NetInv /\ RollInv => ConfirmedAgree
    BY RollAgrees
<1>2. Spec /\ []Gapless => []ConfirmedAgree
    BY <1>1, GaplessRolls, PTL
<1>3. ASSUME Window > 0, Redundancy >= 2 * (Window + Delay[1])
      PROVE  Spec => []ConfirmedAgree
    <2>1. (gaveUp = {} => NetInv /\ RollInv) => ConfirmedAgree
        BY <1>1 DEF ConfirmedAgree
    <2> QED BY <1>3, <2>1, HealedRolls, PTL
<1> QED BY <1>2, <1>3

(* In lockstep, a frame that both peers have run was run with the same     *)
(* inputs, unless a wait timed out: ps2NetSubmitLocal, sendOurs,           *)
(* applyInputs and ps2NetGetInput, for any delay and redundancy and        *)
(* whatever the network does.                                              *)
THEOREM LockstepAgrees ==
    ASSUME Delay[1] = Delay[2]
    PROVE  Spec => []SameInputs
<1> DEFINE J == NetInv /\ (Window = 0 => RollInv)
<1>1. Init => J
    BY NetInitially, RollInitially
<1>2. J /\ [Next]_vars => J'
    <2> SUFFICES ASSUME J, [Next]_vars PROVE J'
        OBVIOUS
    <2>1. NetInv'
        BY NetStep
    <2>2. Window = 0 => RollInv'
        BY RollStep
    <2> QED BY <2>1, <2>2
<1>3. J => SameInputs
    <2> SUFFICES ASSUME NetInv, RollInv, Window = 0, gaveUp = {}, NEW q \in Peer,
                        NEW n \in DOMAIN used[1][q] \cap DOMAIN used[2][q]
                 PROVE  used[1][q][n] = used[2][q][n]
        BY DEF SameInputs
    <2>1. ASSUME NEW p \in Peer PROVE used[p][q][n] = Real(q, n - 1)
        <3>1. n \in 1 .. Len(used[p][q])
            BY DEF NetInv, TypeOK, History, Peer
        <3>2. /\ Rolling(p) /\ TypeOK /\ Place(p)
            BY DEF RollInv, NetInv, PlaceInv
        <3>3. CASE q = p
            BY <3>1, <3>3 DEF NetInv, OwnInv
        <3>4. CASE q = Other(p)
            <4>1. \/ used[p][q][n] = Real(q, n - 1)
                  \/ predicted[p][n - 1] = used[p][q][n]
                  \/ rollbackTo[p] <= n - 1
                BY <3>1, <3>2, <3>4 DEF Rolling, Accounted
            <4>2. /\ used[p][q] \in Seq(Input) /\ Len(used[p][q]) \in Nat
                  /\ Len(used[p][q]) <= LastFrame /\ LastFrame \in Nat
                BY <3>2, FrameOf, Numbers
            <4>3. n - 1 \in Nat /\ n - 1 <= LastFrame /\ used[p][q][n] \in Input
                BY <3>1, <4>2
            <4>4. n - 1 \in Frames /\ n - 1 < Never
                BY <4>3, Numbers
            <4>5. rollbackTo[p] = Never /\ predicted[p][n - 1] = None
                BY <4>4, RollGives
            <4>6. ~(rollbackTo[p] <= n - 1)
                BY <4>3, <4>4, <4>5, Numbers
            <4> QED BY <4>1, <4>3, <4>5, <4>6, NetplayAssumption
        <3> QED BY <3>3, <3>4, Others
    <2> QED BY <2>1 DEF Peer
<1> QED BY <1>1, <1>2, <1>3, PTL DEF Spec
=============================================================================
