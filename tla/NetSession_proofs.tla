-------------------------- MODULE NetSession_proofs --------------------------
(***************************************************************************)
(* Proofs about the sessions of netplay, for any number of sessions,       *)
(* losses, repetitions and crashes.  A session that starts before the last *)
(* one is forgotten does meet what is left of it (Early), so the theorems  *)
(* assume that it does not.                                                *)
(***************************************************************************)
EXTENDS NetSession, TLAPS

(* Who is in a session has started one; the addresses are the right ones;  *)
(* and what is on its way to a machine was sent in the session that the    *)
(* other is in.                                                            *)
WireInv ==
    /\ \A m \in Machine : g[m].active => ses[m] # 0
    /\ g[Joiner].active => g[Joiner].peer = Port
    /\ g[Host].peer # Port
    /\ g[Joiner].active => \A d \in net : d.to = Port => d.from = ses[Joiner]
    /\ g[Host].active => \A d \in net : d.to # Port => d.from = ses[Host]

(* What the host has published: its processes count their frames upwards,  *)
(* and a session is published at most once.                                *)
PubInv ==
    /\ before <= ses[Host]
    /\ \A s \in Session : s > ses[Host] => published[s] = 0
    /\ \A s, t \in Session :
        before < s /\ s < t /\ published[t] # 0 => published[s] < published[t]
    /\ sync /\ g[Host].active /\ ~offering /\ ~InSession(Host) => published[ses[Host]] = 0

(* An offer, wherever it has got to, names the frame of its session, and   *)
(* so does a fetched state.                                                *)
OfferInv ==
    /\ g[Host].frame # 0 => g[Host].frame = published[ses[Host]]
    /\ \A d \in net : d.kind = "offer" =>
        d.to # Port /\ (d.frame # 0 => d.frame = published[d.from])
    /\ g[Joiner].offered => g[Joiner].connected
    /\ g[Joiner].offered /\ g[Host].active /\ g[Joiner].frame # 0 =>
        g[Joiner].frame = published[ses[Host]]
    /\ blob.frame \in FrameNo => blob.of \in Session /\ blob.frame = published[blob.of]

(* A host that starts a session while it waits in the last one offers no   *)
(* frame: it repeats the offer that the teardown has reset.                *)
EmptyOffer ==
    \/ g[Joiner].offered /\ g[Joiner].frame = 0
    \/ \E d \in net : d.kind = "offer" /\ d.frame = 0

(* That wait ends with the session, and nobody adopts or answers the offer. *)
ZeroInv ==
    sync =>
        /\ g[Host].active /\ EmptyOffer => offering /\ g[Host].frame = 0
        /\ \A d \in net : d.kind = "done" => d.frame # 0
        /\ g[Host].done => g[Host].frame # 0
        /\ g[Joiner].connected /\ g[Joiner].synced => g[Joiner].base # NoBase

(* The joiner runs on the state that was published at the frame of the     *)
(* host's session.                                                         *)
Shared ==
    /\ adopted \in Session
    /\ adopted = ses[Host] \/ adopted <= before
    /\ published[ses[Host]] # 0
    /\ published[adopted] = published[ses[Host]]

SyncedInv ==
    /\ g[Host].active =>
        \A d \in net : d.kind = "done" => Shared /\ d.frame = published[ses[Host]]
    /\ g[Host].done => Shared
    /\ g[Joiner].connected /\ g[Joiner].synced /\ g[Host].active =>
        Shared /\ g[Joiner].base = published[ses[Host]]
    /\ InSession(Host) => Shared /\ g[Host].base = published[ses[Host]]

(* DONE, wherever it has got to, is sent by a joiner that shares the state *)
(* of the host's session, if the host is in one.                           *)
DoneInv ==
    /\ g[Joiner].active /\ ~g[Joiner].connected => \A d \in net : d.kind # "done"
    /\ sync => SyncedInv

NetInv == TypeOK /\ WireInv /\ NoResidue /\ OneMatch /\ PubInv /\ OfferInv /\ ZeroInv
-----------------------------------------------------------------------------
(* What a step does, in the terms that the invariants need.                *)

(* A datagram in flight after a send was there before, or is the one sent. *)
LEMMA Sent ==
    ASSUME TypeOK, NEW m \in Machine, NEW k \in Kind, NEW f \in FrameNo \cup {0},
           ses[m] # 0, g[m].peer \in Address \cup {NoPeer},
           (g[m].peer = Port) <=> (m = Joiner)
    PROVE  /\ WithMessage(m, k, f) \subseteq Datagram
           /\ \A d \in WithMessage(m, k, f) :
                \/ d \in net
                \/ /\ d.from = ses[m] /\ d.kind = k /\ d.frame = f
                   /\ (d.to = Port) <=> (m = Joiner)
<1>1. ses[m] \in Session
  BY NetSessionAssumption DEF TypeOK, Session
<1>2. CASE g[m].peer = NoPeer
  BY <1>2 DEF WithMessage, TypeOK
<1>3. CASE g[m].peer # NoPeer
  <2> DEFINE new == [to |-> g[m].peer, from |-> ses[m], kind |-> k, frame |-> f]
  <2>1. new \in Datagram
    BY <1>1, <1>3 DEF Datagram
  <2>2. WithMessage(m, k, f) = net \cup {new}
    BY <1>3 DEF WithMessage
  <2> QED
    BY <2>1, <2>2 DEF TypeOK
<1> QED
  BY <1>2, <1>3

(* What a session holds is well typed when it begins and when it ends. *)
LEMMA BlankTyped == Blank \in Net
BY DEF Blank, Net, NoPeer, NoBase

LEMMA UpdateTyped ==
    ASSUME g \in [Machine -> Net], NEW m \in Machine, NEW n \in Net, g' = [g EXCEPT ![m] = n]
    PROVE  g' \in [Machine -> Net]
OBVIOUS

LEMMA NumberedTyped ==
    ASSUME NEW n \in Net, NEW s \in Session
    PROVE  Numbered(n, s) \in Net
<1>1. s \in FrameNo
  BY NetSessionAssumption DEF Session, FrameNo
<1> QED
  BY <1>1 DEF Numbered, Net

LEMMA RestartedTyped ==
    ASSUME NEW n \in Net, NEW f \in FrameNo \cup {0}
    PROVE  Restarted(n, f) \in Net
BY DEF Restarted, Net, NoBase

(* A datagram ends the session, or leaves it connected to the peer it had, *)
(* or to its sender; it adds the inputs it carries and touches no base.    *)
Follows(m, n, d, p) ==
    /\ p.active = n.active /\ p.connected = TRUE
    /\ p.peer = IF n.peer = NoPeer THEN d.from ELSE n.peer
    /\ p.synced = (n.synced /\ (sync => n.connected))
    /\ p.base = n.base /\ p.local = n.local
    /\ p.remote = IF d.kind = "inputs" THEN n.remote \cup {d.from} ELSE n.remote
    /\ p.frame = IF m = Joiner /\ d.kind = "offer" THEN d.frame ELSE n.frame
    /\ p.offered => n.offered \/ (m = Joiner /\ d.kind = "offer")
    /\ p.done => n.done \/ (m = Host /\ d.kind = "done" /\ d.frame = n.frame)

LEMMA PumpedFields ==
    ASSUME NEW m \in Machine, NEW n \in Net, NEW d \in Datagram, sync \in BOOLEAN
    PROVE  /\ Pumped(m, n, d) \in Net
           /\ Pumped(m, n, d) = Blank \/ Follows(m, n, d, Pumped(m, n, d))
<1> DEFINE p1 == Met(n, d)
           p2 == TakeOffer(m, p1, d)
           p3 == TakeDone(m, p2, d)
           p4 == TakeInputs(p3, d)
<1>0. /\ d.from \in Session /\ d.frame \in FrameNo \cup {0}
      /\ d.from \in Address \cup {NoPeer}
  BY NetSessionAssumption DEF Datagram, Address, Session, Port
<1>1. /\ p1 \in Net
      /\ p1.active = n.active /\ p1.connected = TRUE
      /\ p1.peer = IF n.peer = NoPeer THEN d.from ELSE n.peer
      /\ p1.synced = (n.synced /\ (sync => n.connected))
      /\ p1.base = n.base /\ p1.local = n.local /\ p1.remote = n.remote
      /\ p1.frame = n.frame
      /\ p1.offered => n.offered
      /\ p1.done => n.done
  BY <1>0 DEF Met, Net
<1>2. /\ p2 \in Net
      /\ p2 = [p1 EXCEPT !.frame = p2.frame, !.offered = p2.offered]
      /\ p2.frame = IF m = Joiner /\ d.kind = "offer" THEN d.frame ELSE p1.frame
      /\ p2.offered => p1.offered \/ (m = Joiner /\ d.kind = "offer")
  BY <1>0, <1>1 DEF TakeOffer, Net
<1>3. /\ p3 \in Net
      /\ p3 = [p2 EXCEPT !.done = p3.done]
      /\ p3.done => p2.done \/ (m = Host /\ d.kind = "done" /\ d.frame = p2.frame)
  BY <1>2 DEF TakeDone, Net
<1>4. /\ p4 \in Net
      /\ p4 = [p3 EXCEPT !.remote = p4.remote]
      /\ p4.remote = IF d.kind = "inputs" THEN p3.remote \cup {d.from} ELSE p3.remote
  BY <1>0, <1>3 DEF TakeInputs, Net
<1>5. Pumped(m, n, d) = IF d.kind = "bye" THEN Blank ELSE p4
  BY DEF Pumped
<1> HIDE DEF p1, p2, p3, p4
<1>6. p2 \in Net /\ p2.active = n.active /\ p2.connected = TRUE
      /\ p2.peer = p1.peer /\ p2.synced = p1.synced /\ p2.base = n.base
      /\ p2.local = n.local /\ p2.remote = n.remote /\ p2.done = p1.done
  BY <1>1, <1>2 DEF Net
<1>7. p3.active = n.active /\ p3.connected = TRUE
      /\ p3.peer = p1.peer /\ p3.synced = p1.synced /\ p3.base = n.base
      /\ p3.local = n.local /\ p3.remote = n.remote
      /\ p3.frame = p2.frame /\ p3.offered = p2.offered
  BY <1>3, <1>6 DEF Net
<1>8. p4.active = n.active /\ p4.connected = TRUE
      /\ p4.peer = p1.peer /\ p4.synced = p1.synced /\ p4.base = n.base
      /\ p4.local = n.local
      /\ p4.frame = p2.frame /\ p4.offered = p2.offered /\ p4.done = p3.done
  BY <1>4, <1>7 DEF Net
<1>9. Pumped(m, n, d) \in Net
  BY <1>4, <1>5, BlankTyped
<1>10. CASE d.kind = "bye"
  BY <1>5, <1>9, <1>10
<1>11. CASE d.kind # "bye"
  <2>1. Pumped(m, n, d) = p4
    BY <1>5, <1>11
  <2>2. p2.frame = IF m = Joiner /\ d.kind = "offer" THEN d.frame ELSE n.frame
    BY <1>1, <1>2
  <2>3. p4.done => n.done \/ (m = Host /\ d.kind = "done" /\ d.frame = n.frame)
    <3>1. m = Host => p2.frame = n.frame
      BY <2>2 DEF Host, Joiner
    <3> QED
      BY <1>1, <1>3, <1>6, <1>8, <3>1
  <2> QED
    BY <1>1, <1>2, <1>4, <1>7, <1>8, <1>9, <2>1, <2>2, <2>3 DEF Follows
<1> QED
  BY <1>10, <1>11

(* The four ways to leave a session do the same. *)
LEMMA Ends ==
    ASSUME NEW m \in Machine,
           Leave(m) \/ BackToMenu(m) \/ Watchdog(m) \/ (m = Joiner /\ SyncFails)
    PROVE  /\ g[m].active /\ Disconnect(m)
           /\ UNCHANGED <<sync, offering, blob, ses, published, before, adopted, faults, crashes>>
BY DEF hostVars, Leave, BackToMenu, Watchdog, SyncFails, Offered, Pending

(* A machine that sends has the facts that Sent asks for. *)
LEMMA Senders ==
    ASSUME TypeOK, WireInv, NEW m \in Machine, g[m].active
    PROVE  /\ ses[m] # 0 /\ ses[m] \in Session
           /\ g[m].peer \in Address \cup {NoPeer}
           /\ (g[m].peer = Port) <=> (m = Joiner)
BY NetSessionAssumption DEF TypeOK, WireInv, Machine, Host, Joiner, Session, Net

(* A datagram that reaches a machine: its receiver and where it was sent.  *)
LEMMA Arrives ==
    ASSUME TypeOK, WireInv, NEW m \in Machine, NEW d \in net, Reaches(d, m)
    PROVE  /\ g[m].active /\ d \in Datagram
           /\ (d.to = Port) <=> (m = Host)
           /\ g[Other(m)].active => d.from = ses[Other(m)]
<1>1. g[m].active /\ d \in Datagram
  BY DEF Reaches, TypeOK
<1>2. CASE m = Host
  BY <1>1, <1>2 DEF Reaches, WireInv, Other, Host, Joiner
<1>3. CASE m = Joiner
  <2>1. d.to = ses[Joiner] /\ ses[Joiner] # Port
    BY <1>3, NetSessionAssumption DEF Reaches, TypeOK, Machine, Host, Joiner, Port
  <2> QED
    BY <1>1, <1>3, <2>1 DEF WireInv, Other, Host, Joiner
<1> QED
  BY <1>2, <1>3 DEF Machine

(* What a receipt leaves on the wire: what was there, and an answer.       *)
LEMMA Answered ==
    ASSUME TypeOK, WireInv, NEW m \in Machine, NEW d \in net, Receive(m, d)
    PROVE  /\ net' \subseteq Datagram
           /\ \A e \in net' :
                \/ e \in net
                \/ /\ m = Joiner /\ d.kind = "offer"
                   /\ Met(g[m], d).synced /\ Met(g[m], d).base = d.frame
                   /\ e.from = ses[m] /\ e.to = Port /\ e.kind = "done" /\ e.frame = d.frame
<1>1. net' \subseteq IF Answers(m, Met(g[m], d), d) THEN WithMessage(m, "done", d.frame) ELSE net
  BY DEF Receive, TakenFrom
<1>2. net \subseteq Datagram /\ d \in Datagram /\ g[m].active
  BY DEF TypeOK, Receive, Reaches
<1>3. CASE Answers(m, Met(g[m], d), d)
  <2>1. /\ m = Joiner /\ d.kind = "offer"
        /\ Met(g[m], d).synced /\ Met(g[m], d).base = d.frame
    BY <1>3 DEF Answers
  <2>2. d.frame \in FrameNo \cup {0} /\ "done" \in Kind
    BY <1>2 DEF Datagram, Kind
  <2> QED
    BY <1>1, <1>2, <1>3, <2>1, <2>2, Senders, Sent
<1>4. CASE ~Answers(m, Met(g[m], d), d)
  BY <1>1, <1>2, <1>4
<1> QED
  BY <1>3, <1>4

(* The state of this boundary is published, at frame f. *)
PublishAt(f) ==
    /\ ~offering /\ offering'
    /\ g[Host].active /\ g[Host].connected /\ ~g[Host].synced /\ sync
    /\ \A s \in (before + 1) .. ses[Host] : published[s] < f
    /\ g' = [g EXCEPT ![Host].frame = f, ![Host].done = FALSE]
    /\ net' = WithMessage(Host, "offer", f)
    /\ published' = [published EXCEPT ![ses[Host]] = f]
    /\ UNCHANGED <<sync, blob, ses, before, adopted, faults, crashes>>

LEMMA PublishAtSome == TypeOK /\ Publish => \E f \in FrameNo : PublishAt(f)
BY DEF TypeOK, Publish, PublishAt, AtRest, Pending, Ahead, Host

LEMMA NetInvInit == Init => NetInv /\ DoneInv
<1> SUFFICES ASSUME Init PROVE NetInv /\ DoneInv
  OBVIOUS
<1>1. TypeOK
  <2>1. g \in [Machine -> Net] /\ ses \in [Machine -> 0 .. MaxSession]
    BY BlankTyped, NetSessionAssumption DEF Init
  <2>2. /\ blob \in [frame : FrameNo \cup {Never}, of : 0 .. MaxSession]
        /\ published \in [Session -> FrameNo \cup {0}] /\ before \in 0 .. MaxSession
    BY NetSessionAssumption DEF Init, NoBlob
  <2>3. sync \in BOOLEAN
    BY NetSessionAssumption DEF Init
  <2>4. offering \in BOOLEAN /\ net \subseteq Datagram
    BY Zenon DEF Init
  <2>5. adopted = 0 /\ faults = 0 /\ crashes = 0
    BY DEF Init
  <2>6. adopted \in 0 .. MaxSession /\ faults \in 0 .. MaxFaults /\ crashes \in 0 .. MaxCrashes
    BY <2>5, NetSessionAssumption
  <2> QED
    BY <2>1, <2>2, <2>3, <2>4, <2>6 DEF TypeOK
<1>2. /\ \A m \in Machine : g[m] = Blank
      /\ net = {} /\ ~offering
      /\ blob.frame \notin FrameNo
      /\ before = 0 /\ ses[Host] = 0 /\ \A s \in Session : published[s] = 0
  BY NetSessionAssumption DEF Init, NoBlob, FrameNo, Never, Machine
<1>3. Host \in Machine /\ Joiner \in Machine
  BY DEF Machine
<1>4. WireInv /\ NoResidue /\ OneMatch
  BY <1>2, <1>3, NetSessionAssumption
  DEF WireInv, NoResidue, OneMatch, Blank, NoPeer, NoBase, Port
<1>5. PubInv
  BY <1>2, <1>3 DEF PubInv, Blank
<1>6. OfferInv /\ ZeroInv
  BY <1>2, <1>3 DEF OfferInv, ZeroInv, EmptyOffer, Blank
<1>7. DoneInv
  BY <1>2, <1>3 DEF DoneInv, SyncedInv, InSession, Blank
<1> QED
  BY <1>1, <1>4, <1>5, <1>6, <1>7 DEF NetInv
-----------------------------------------------------------------------------
(* Types, addresses and the session that a datagram is of.                 *)

LEMMA TypeStep == TypeOK /\ WireInv /\ NoResidue /\ ZeroInv /\ [Next]_vars => TypeOK'
<1> SUFFICES ASSUME TypeOK, WireInv, NoResidue, ZeroInv, [Next]_vars PROVE TypeOK'
  OBVIOUS
<1> USE NetSessionAssumption DEF TypeOK, hostVars
<1>0. /\ Host \in Machine /\ Joiner \in Machine
      /\ {"hello", "inputs", "offer", "done", "bye"} \subseteq Kind
      /\ 0 \in FrameNo \cup {0}
  BY DEF Machine, Kind
<1>1. ASSUME NEW m \in Machine, Start(m) PROVE TypeOK'
  <2>1. g' \in [Machine -> Net]
    <3> DEFINE n == [g[m] EXCEPT !.active = TRUE,
                                 !.peer = IF m = Joiner THEN Port ELSE g[m].peer,
                                 !.synced = ~sync]
    <3>1. n \in Net
      <4>1. Port \in Address
        BY DEF Address, Port
      <4>2. g[m] \in Net /\ sync \in BOOLEAN
        OBVIOUS
      <4>3. (IF m = Joiner THEN Port ELSE g[m].peer) \in Address \cup {NoPeer}
        BY <4>1, <4>2 DEF Net
      <4> HIDE DEF TypeOK
      <4> QED
        BY <4>2, <4>3, Zenon DEF Net
    <3>2. g' = [g EXCEPT ![m] = n]
      BY <1>1 DEF Start
    <3> QED
      BY <3>1, <3>2, UpdateTyped
  <2>2. ses' \in [Machine -> 0 .. MaxSession]
    BY <1>1 DEF Start
  <2> QED
    BY <1>1, <2>1, <2>2 DEF Start
<1>2. ASSUME NEW m \in Machine,
             Leave(m) \/ BackToMenu(m) \/ Watchdog(m) \/ (m = Joiner /\ SyncFails)
      PROVE  TypeOK'
  <2>1. g' \in [Machine -> Net] /\ net' \subseteq Datagram
    BY <1>0, <1>2, Ends, Senders, Sent, BlankTyped DEF Disconnect
  <2> QED
    BY <1>2, <2>1, Ends
<1>3. ASSUME NEW m \in Machine, Crash(m) PROVE TypeOK'
  <2>1. g' \in [Machine -> Net]
    BY <1>3, BlankTyped DEF Crash
  <2>2. offering' \in BOOLEAN /\ blob' \in [frame : FrameNo \cup {Never}, of : 0 .. MaxSession]
    BY <1>3 DEF Crash, NoBlob
  <2>3. before' \in 0 .. MaxSession
    BY <1>0, <1>3 DEF Crash
  <2> QED
    BY <1>3, <2>1, <2>2, <2>3 DEF Crash
<1>4. ASSUME NEW m \in Machine, Hello(m) PROVE TypeOK'
  BY <1>0, <1>4, Senders, Sent DEF Hello
<1>5. ASSUME NEW m \in Machine, Submit(m) PROVE TypeOK'
  <2>1. g[m].active
    BY <1>5 DEF Submit, InSession
  <2>2. g' \in [Machine -> Net]
    BY <1>5, <2>1, Senders, NumberedTyped, UpdateTyped DEF Submit
  <2>3. net' \subseteq Datagram
    BY <1>0, <1>5, <2>1, Senders, Sent DEF Submit
  <2> QED
    BY <1>5, <2>2, <2>3 DEF Submit
<1>6. ASSUME NEW m \in Machine, NEW d \in net, Receive(m, d) PROVE TypeOK'
  <2>1. g' \in [Machine -> Net]
    <3>1. d \in Datagram /\ g[m] \in Net /\ sync \in BOOLEAN
      OBVIOUS
    <3>2. Pumped(m, g[m], d) \in Net
      BY <3>1, PumpedFields, Zenon
    <3> QED
      BY <1>6, <3>2, UpdateTyped DEF Receive
  <2>2. faults' \in 0 .. MaxFaults
    BY <1>6 DEF Receive, TakenFrom
  <2> QED
    BY <1>6, <2>1, <2>2, Answered DEF Receive
<1>7. ASSUME NEW d \in net, Lose(d) PROVE TypeOK'
  <2>1. faults' \in 0 .. MaxFaults
    BY <1>7 DEF Lose
  <2> QED
    BY <1>7, <2>1 DEF Lose
<1>8. CASE Publish
  <2>1. g[Host].active
    BY <1>8 DEF Publish, Pending
  <2>2. PICK f \in FrameNo : PublishAt(f)
    BY <1>8, PublishAtSome
  <2>3. g' \in [Machine -> Net]
    <3> DEFINE n == [g[Host] EXCEPT !.frame = f, !.done = FALSE]
    <3>1. n \in Net
      <4>1. g[Host] \in Net
        BY <1>0
      <4> HIDE DEF TypeOK
      <4> QED
        BY <4>1, <2>2 DEF Net
    <3>2. g' = [g EXCEPT ![Host] = n]
      BY <2>2 DEF PublishAt
    <3> QED
      BY <1>0, <3>1, <3>2, UpdateTyped
  <2>4. net' \subseteq Datagram
    BY <1>0, <2>1, <2>2, Senders, Sent DEF PublishAt
  <2>5. published' \in [Session -> FrameNo \cup {0}]
    BY <2>2 DEF PublishAt
  <2> QED
    BY <2>2, <2>3, <2>4, <2>5 DEF PublishAt
<1>9. CASE OfferAgain
  <2>1. g[Host].active /\ g[Host].frame \in FrameNo \cup {0}
    BY <1>0, <1>9 DEF OfferAgain, Connected, Net
  <2> QED
    BY <1>0, <1>9, <2>1, Senders, Sent DEF OfferAgain
<1>10. CASE OfferAccepted
  <2>1. g' \in [Machine -> Net]
    <3>1. g[Host] \in Net /\ g[Host].frame \in FrameNo \cup {0}
      BY <1>0 DEF Net
    <3>2. Restarted(g[Host], g[Host].frame) \in Net
      BY <1>0, <3>1, RestartedTyped
    <3> QED
      BY <1>0, <1>10, <3>2, UpdateTyped DEF OfferAccepted
  <2> QED
    BY <1>10, <2>1 DEF OfferAccepted
<1>11. CASE OfferFails
  <2>1. g' \in [Machine -> Net] /\ net' \subseteq Datagram
    BY <1>0, <1>11, Senders, Sent, BlankTyped DEF OfferFails, Disconnect
  <2> QED
    BY <1>11, <2>1 DEF OfferFails
<1>12. CASE Fetch
  <2>1. g[Host].active /\ g[Host].frame # 0 /\ g[Joiner].offered /\ sync
    BY <1>0, <1>12 DEF Fetch, Listening, Offered, Pending, NoResidue, Blank
  <2>2. g[Joiner].frame \in FrameNo
    BY <1>0, <2>1 DEF ZeroInv, EmptyOffer, Net
  <2>3. blob' \in [frame : FrameNo \cup {Never}, of : 0 .. MaxSession]
    BY <1>0, <1>12, <2>2 DEF Fetch
  <2> QED
    BY <1>12, <2>3 DEF Fetch
<1>13. CASE Adopt
  <2>1. g[Joiner].active /\ g[Joiner].frame \in FrameNo \cup {0}
    BY <1>0, <1>13 DEF Adopt, Offered, Pending, Net
  <2>2. g' \in [Machine -> Net]
    <3>1. Restarted(g[Joiner], g[Joiner].frame) \in Net
      BY <1>0, <2>1, RestartedTyped
    <3> QED
      BY <1>0, <1>13, <3>1, UpdateTyped DEF Adopt
  <2>3. net' \subseteq Datagram
    BY <1>0, <1>13, <2>1, Senders, Sent DEF Adopt
  <2>4. adopted' \in 0 .. MaxSession /\ blob' \in [frame : FrameNo \cup {Never}, of : 0 .. MaxSession]
    BY <1>13 DEF Adopt, NoBlob
  <2> QED
    BY <1>13, <2>2, <2>3, <2>4 DEF Adopt
<1>14. CASE UNCHANGED vars
  BY <1>14 DEF vars
<1> QED
  BY <1>0, <1>1, <1>2, <1>3, <1>4, <1>5, <1>6, <1>7, <1>8, <1>9, <1>10, <1>11, <1>12,
     <1>13, <1>14
  DEF Next, Step, SyncStep

(* What is on the wire after a send is of the sessions that are on. *)
WireOf(sent) ==
    /\ g[Joiner].active => \A d \in sent : d.to = Port => d.from = ses[Joiner]
    /\ g[Host].active => \A d \in sent : d.to # Port => d.from = ses[Host]

LEMMA SentWire ==
    ASSUME TypeOK, WireInv, NEW m \in Machine, g[m].active,
           NEW k \in Kind, NEW f \in FrameNo \cup {0}
    PROVE  WireOf(WithMessage(m, k, f))
<1>1. /\ \A d \in net : g[Joiner].active /\ d.to = Port => d.from = ses[Joiner]
      /\ \A d \in net : g[Host].active /\ d.to # Port => d.from = ses[Host]
  BY DEF WireInv
<1>2. \A d \in WithMessage(m, k, f) :
        \/ d \in net
        \/ d.from = ses[m] /\ ((d.to = Port) <=> (m = Joiner))
  BY Senders, Sent
<1>3. m = Host \/ m = Joiner
  BY DEF Machine
<1> QED
  BY <1>1, <1>2, <1>3 DEF WireOf

LEMMA WireStep == TypeOK /\ WireInv /\ ~Early /\ [Next]_vars => WireInv'
<1> SUFFICES ASSUME TypeOK, WireInv, ~Early, [Next]_vars PROVE WireInv'
  OBVIOUS
<1>0. /\ Host \in Machine /\ Joiner \in Machine /\ Host # Joiner
      /\ \A m \in Machine : m = Host \/ m = Joiner
      /\ {"hello", "inputs", "offer", "done", "bye"} \subseteq Kind
      /\ 0 \in FrameNo \cup {0}
      /\ Other(Host) = Joiner /\ Other(Joiner) = Host
  BY DEF Machine, Kind, Host, Joiner, Other
<1>00. /\ g \in [Machine -> Net] /\ ses \in [Machine -> 0 .. MaxSession] /\ net \subseteq Datagram
       /\ ~Blank.active /\ Blank.peer = NoPeer /\ NoPeer # Port
  BY NetSessionAssumption DEF TypeOK, Blank, NoPeer, Port
(* Enough: who is active keeps session and address, and the wire is right. *)
<1> DEFINE Kept == \A m \in Machine :
            /\ g'[m].active => g[m].active
            /\ g'[m].peer = g[m].peer \/ (g'[m].peer = NoPeer /\ ~g'[m].active)
<1>K. ASSUME Kept, ses' = ses, \E sent \in {net, net'} : net' \subseteq sent /\ WireOf(sent)
      PROVE  WireInv'
  BY <1>0, <1>00, <1>K DEF WireInv, WireOf
<1>N. WireOf(net)
  BY DEF WireInv, WireOf
<1> HIDE DEF Kept
<1>1. ASSUME NEW m \in Machine, Start(m) PROVE WireInv'
  <2>1. /\ Forgotten(m) /\ UNCHANGED net
        /\ \A o \in Machine : o # m => g'[o] = g[o] /\ ses'[o] = ses[o]
        /\ g'[m].active /\ ses'[m] # 0
        /\ g'[m].peer = IF m = Joiner THEN Port ELSE g[m].peer
    BY <1>1, <1>00 DEF Start, Net
  <2>2. \A d \in net : d.to = Port /\ m = Host /\ g[Joiner].active /\ d.from = ses[Joiner]
    BY <2>1 DEF Forgotten
  <2> QED
    BY <1>0, <2>1, <2>2 DEF WireInv
<1>2. ASSUME NEW m \in Machine,
             Leave(m) \/ BackToMenu(m) \/ Watchdog(m) \/ (m = Joiner /\ SyncFails)
      PROVE  WireInv'
  <2>1. Kept
    BY <1>00, <1>2, Ends DEF Disconnect, Kept
  <2>2. net' = WithMessage(m, "bye", 0) /\ g[m].active /\ ses' = ses
    BY <1>2, Ends DEF Disconnect
  <2> QED
    BY <1>0, <1>K, <2>1, <2>2, SentWire
<1>3. ASSUME NEW m \in Machine, Crash(m) PROVE WireInv'
  <2>1. Kept
    BY <1>00, <1>3 DEF Crash, Kept
  <2> QED
    BY <1>3, <1>K, <1>N, <2>1 DEF Crash
<1>4. ASSUME NEW m \in Machine, Hello(m) PROVE WireInv'
  <2>1. Kept /\ ses' = ses
    BY <1>4 DEF Hello, Kept
  <2>2. WireOf(net')
    BY <1>0, <1>4, SentWire DEF Hello
  <2> QED
    BY <1>K, <2>1, <2>2
<1>5. ASSUME NEW m \in Machine, Submit(m) PROVE WireInv'
  <2>1. Kept /\ ses' = ses
    <3>1. Numbered(g[m], ses[m]).active = g[m].active /\ Numbered(g[m], ses[m]).peer = g[m].peer
      BY <1>00 DEF Numbered, Net
    <3> QED
      BY <1>00, <1>5, <3>1 DEF Submit, Kept
  <2>2. WireOf(net')
    BY <1>0, <1>5, SentWire DEF Submit, InSession
  <2> QED
    BY <1>K, <2>1, <2>2
<1>6. ASSUME NEW m \in Machine, NEW d \in net, Receive(m, d) PROVE WireInv'
  <2> DEFINE n == Pumped(m, g[m], d)
  <2>1. /\ g' = [g EXCEPT ![m] = n] /\ ses' = ses
        /\ g[m].active /\ d \in Datagram /\ g[m] \in Net /\ sync \in BOOLEAN
    BY <1>6, <1>00 DEF Receive, Reaches, TypeOK
  <2>2. \/ n = Blank
        \/ /\ n.active = g[m].active
           /\ n.peer = IF g[m].peer = NoPeer THEN d.from ELSE g[m].peer
    <3>1. n = Blank \/ Follows(m, g[m], d, n)
      BY <2>1, PumpedFields
    <3> HIDE DEF n
    <3> QED
      BY <3>1 DEF Follows
  <2>3. d.from # Port
    BY <2>1, NetSessionAssumption DEF Datagram, Session, Port
  <2>4. WireOf(net')
    <3>1. \A e \in net' : e \in net \/ (m = Joiner /\ e.from = ses[m] /\ e.to = Port)
      BY <1>6, Answered
    <3> QED
      BY <1>N, <3>1, <1>0 DEF WireOf
  <2>5. \A o \in Machine : o # m => g'[o] = g[o]
    BY <2>1, <1>00
  <2>6. g'[m] = n
    BY <2>1, <1>00
  <2>7. g'[Joiner].active => g[Joiner].active /\ g'[Joiner].peer = Port
    BY <1>0, <1>00, <2>2, <2>5, <2>6 DEF WireInv
  <2>8. g'[Host].peer # Port /\ (g'[Host].active => g[Host].active)
    BY <1>0, <1>00, <2>2, <2>3, <2>5, <2>6 DEF WireInv
  <2> HIDE DEF n
  <2> QED
    BY <1>0, <2>1, <2>4, <2>7, <2>8 DEF WireInv, WireOf
<1>7. ASSUME NEW d \in net, Lose(d) PROVE WireInv'
  <2>1. Kept /\ ses' = ses /\ net' \subseteq net
    BY <1>7 DEF Lose, Kept
  <2> QED
    BY <1>K, <1>N, <2>1
<1>8. CASE Publish
  <2>1. PICK f \in FrameNo : PublishAt(f)
    BY <1>8, PublishAtSome
  <2>2. Kept /\ ses' = ses
    BY <1>00, <2>1 DEF PublishAt, Kept, Net
  <2>3. WireOf(net')
    BY <1>0, <2>1, SentWire DEF PublishAt
  <2> QED
    BY <1>K, <2>2, <2>3
<1>9. CASE OfferAgain
  <2>1. Kept /\ ses' = ses
    BY <1>9 DEF OfferAgain, Kept
  <2>2. WireOf(net')
    <3>1. g[Host].active /\ g[Host].frame \in FrameNo \cup {0}
      BY <1>0, <1>00, <1>9 DEF OfferAgain, Connected, Net
    <3> QED
      BY <1>0, <1>9, <3>1, SentWire DEF OfferAgain
  <2> QED
    BY <1>K, <2>1, <2>2
<1>10. CASE OfferAccepted
  <2>1. Kept /\ ses' = ses /\ net' = net
    BY <1>00, <1>10 DEF OfferAccepted, Restarted, Kept, Net
  <2> QED
    BY <1>K, <1>N, <2>1
<1>11. CASE OfferFails
  <2>1. CASE g[Host].active
    <3>1. Disconnect(Host) /\ ses' = ses
      BY <1>11, <2>1 DEF OfferFails
    <3>2. Kept
      BY <1>00, <3>1 DEF Disconnect, Kept
    <3>3. WireOf(net')
      BY <1>0, <2>1, <3>1, SentWire DEF Disconnect
    <3> QED
      BY <1>K, <3>1, <3>2, <3>3
  <2>2. CASE ~g[Host].active
    <3>1. Kept /\ ses' = ses /\ net' = net
      BY <1>11, <2>2 DEF OfferFails, Kept
    <3> QED
      BY <1>K, <1>N, <3>1
  <2> QED
    BY <2>1, <2>2
<1>12. CASE Fetch
  <2>1. Kept /\ ses' = ses /\ net' = net
    BY <1>12 DEF Fetch, Kept
  <2> QED
    BY <1>K, <1>N, <2>1
<1>13. CASE Adopt
  <2>1. Kept /\ ses' = ses
    BY <1>00, <1>13 DEF Adopt, Restarted, Kept, Net
  <2>2. WireOf(net')
    <3>1. g[Joiner].active /\ g[Joiner].frame \in FrameNo \cup {0}
      BY <1>0, <1>00, <1>13 DEF Adopt, Offered, Pending, Net
    <3> QED
      BY <1>0, <1>13, <3>1, SentWire DEF Adopt
  <2> QED
    BY <1>K, <2>1, <2>2
<1>14. CASE UNCHANGED vars
  <2>1. Kept /\ ses' = ses /\ net' = net
    BY <1>14 DEF vars, Kept
  <2> QED
    BY <1>K, <1>N, <2>1
<1> QED
  BY <1>0, <1>1, <1>2, <1>3, <1>4, <1>5, <1>6, <1>7, <1>8, <1>9, <1>10, <1>11, <1>12,
     <1>13, <1>14
  DEF Next, Step, SyncStep
-----------------------------------------------------------------------------
(* No session inherits from another.                                       *)

(* NoResidue of one machine, in its s-th session. *)
Clean(n, s) ==
    /\ n.active \/ n = Blank
    /\ n.connected \/ (n.base = NoBase /\ n.local = {} /\ n.remote = {})
    /\ n.local \subseteq {s}

LEMMA BlankClean == ASSUME NEW s PROVE Clean(Blank, s)
BY DEF Clean, Blank

(* A step that replaces one machine's part by a clean one. *)
LEMMA CleanUpdate ==
    ASSUME NoResidue, g \in [Machine -> Net], ses' = ses,
           NEW m \in Machine, NEW n, Clean(n, ses[m]), g' = [g EXCEPT ![m] = n]
    PROVE  NoResidue'
<1>1. \A o \in Machine : Clean(g[o], ses[o])
  BY DEF NoResidue, Clean
<1>2. \A o \in Machine : g'[o] = IF o = m THEN n ELSE g[o]
  OBVIOUS
<1>3. \A o \in Machine : Clean(g'[o], ses'[o])
  BY <1>1, <1>2
<1> QED
  BY <1>3 DEF NoResidue, Clean

LEMMA ResidueStep == TypeOK /\ WireInv /\ NoResidue /\ [Next]_vars => NoResidue'
<1> SUFFICES ASSUME TypeOK, WireInv, NoResidue, [Next]_vars PROVE NoResidue'
  OBVIOUS
<1>0. /\ Host \in Machine /\ Joiner \in Machine
      /\ g \in [Machine -> Net] /\ ses \in [Machine -> 0 .. MaxSession]
      /\ sync \in BOOLEAN
      /\ \A m \in Machine : Clean(g[m], ses[m])
  BY DEF Machine, TypeOK, NoResidue, Clean
<1>1. ASSUME NEW m \in Machine, Start(m) PROVE NoResidue'
  <2>1. \A o \in Machine : o # m => g'[o] = g[o] /\ ses'[o] = ses[o]
    BY <1>0, <1>1 DEF Start
  <2>2. g[m] = Blank
    BY <1>1 DEF Start, NoResidue
  <2>3. /\ g'[m].active
        /\ g'[m].base = NoBase /\ g'[m].local = {} /\ g'[m].remote = {}
    BY <1>0, <1>1, <2>2 DEF Start, Blank
  <2> QED
    BY <1>0, <2>1, <2>3 DEF NoResidue, Clean
<1>2. ASSUME NEW m \in Machine,
             Leave(m) \/ BackToMenu(m) \/ Watchdog(m) \/ (m = Joiner /\ SyncFails)
      PROVE  NoResidue'
  BY <1>0, <1>2, Ends, BlankClean, CleanUpdate DEF Disconnect
<1>3. ASSUME NEW m \in Machine, Crash(m) PROVE NoResidue'
  BY <1>0, <1>3, BlankClean, CleanUpdate DEF Crash
<1>4. ASSUME NEW m \in Machine, Submit(m) PROVE NoResidue'
  <2>1. g[m] \in Net /\ g[m].active /\ g[m].connected
    BY <1>0, <1>4 DEF Submit, InSession
  <2>2. Clean(Numbered(g[m], ses[m]), ses[m])
    <3>1. Numbered(g[m], ses[m]).local = g[m].local \cup {ses[m]}
      BY <2>1 DEF Numbered, Net
    <3>2. Numbered(g[m], ses[m]).active /\ Numbered(g[m], ses[m]).connected
      BY <2>1 DEF Numbered, Net
    <3> QED
      BY <1>0, <3>1, <3>2 DEF Clean
  <2> QED
    BY <1>0, <1>4, <2>2, CleanUpdate DEF Submit
<1>5. ASSUME NEW m \in Machine, NEW d \in net, Receive(m, d) PROVE NoResidue'
  <2> DEFINE n == Pumped(m, g[m], d)
  <2>1. d \in Datagram /\ g[m] \in Net /\ g[m].active /\ Clean(g[m], ses[m])
    BY <1>0, <1>5 DEF TypeOK, Receive, Reaches
  <2>2. n = Blank \/ Follows(m, g[m], d, n)
    BY <1>0, <2>1, PumpedFields
  <2>3. Clean(n, ses[m])
    <3>1. CASE n = Blank
      BY <3>1, BlankClean
    <3>2. CASE Follows(m, g[m], d, n)
      <4> HIDE DEF n
      <4> QED
        BY <2>1, <3>2 DEF Clean, Follows
    <3> QED
      BY <2>2, <3>1, <3>2
  <2> HIDE DEF n
  <2>4. g' = [g EXCEPT ![m] = n] /\ ses' = ses
    BY <1>5 DEF Receive, n
  <2> QED
    BY <1>0, <2>3, <2>4, CleanUpdate
<1>6. CASE Publish
  <2>0. PICK f \in FrameNo : PublishAt(f)
    BY <1>6, PublishAtSome
  <2> DEFINE n == [g[Host] EXCEPT !.frame = f, !.done = FALSE]
  <2>1. g[Host] \in Net /\ g[Host].active /\ Clean(g[Host], ses[Host])
    BY <1>0, <2>0 DEF PublishAt
  <2>2. Clean(n, ses[Host])
    BY <2>1 DEF Clean, Net
  <2>3. g' = [g EXCEPT ![Host] = n] /\ ses' = ses
    BY <2>0 DEF PublishAt
  <2> QED
    BY <1>0, <2>2, <2>3, CleanUpdate
<1>7. ASSUME NEW m \in Machine, g[m].active, g[m].connected,
             g' = [g EXCEPT ![m] = Restarted(@, @.frame)], ses' = ses
      PROVE  NoResidue'
  <2>1. Clean(Restarted(g[m], g[m].frame), ses[m])
    <3>1. g[m] \in Net
      BY <1>0
    <3> QED
      BY <1>7, <3>1 DEF Restarted, Clean, Net
  <2> QED
    BY <1>0, <1>7, <2>1, CleanUpdate
<1>8. CASE OfferFails
  <2>1. CASE g[Host].active
    BY <1>0, <1>8, <2>1, BlankClean, CleanUpdate DEF OfferFails, Disconnect
  <2>2. CASE ~g[Host].active
    BY <1>8, <2>2 DEF OfferFails, NoResidue
  <2> QED
    BY <2>1, <2>2
<1>9. CASE OfferAccepted
  BY <1>0, <1>7, <1>9 DEF OfferAccepted, Connected
<1>10. CASE Adopt
  BY <1>0, <1>7, <1>10 DEF Adopt, Offered, Pending
<1>11. ASSUME g' = g, ses' = ses PROVE NoResidue'
  BY <1>11 DEF NoResidue
<1>12. ASSUME NEW m \in Machine, Hello(m) PROVE NoResidue'
  BY <1>11, <1>12 DEF Hello
<1>13. ASSUME NEW d \in net, Lose(d) PROVE NoResidue'
  BY <1>11, <1>13 DEF Lose
<1>14. CASE OfferAgain
  BY <1>11, <1>14 DEF OfferAgain
<1>15. CASE Fetch
  BY <1>11, <1>15 DEF Fetch
<1>16. CASE UNCHANGED vars
  BY <1>11, <1>16 DEF vars
<1> QED
  BY <1>0, <1>1, <1>2, <1>3, <1>4, <1>5, <1>6, <1>8, <1>9, <1>10, <1>12, <1>13, <1>14,
     <1>15, <1>16
  DEF Next, Step, SyncStep

(* Inputs enter only with the datagrams of the session that sent them. *)
LEMMA MatchStep ==
    TypeOK /\ WireInv /\ NoResidue /\ OneMatch /\ ~Early /\ [Next]_vars => OneMatch'
<1> SUFFICES ASSUME TypeOK, WireInv, NoResidue, OneMatch, ~Early, [Next]_vars PROVE OneMatch'
  OBVIOUS
<1>0. /\ Host \in Machine /\ Joiner \in Machine /\ Host # Joiner
      /\ \A m \in Machine : m = Host \/ m = Joiner
      /\ Other(Host) = Joiner /\ Other(Joiner) = Host
      /\ g \in [Machine -> Net] /\ ses \in [Machine -> 0 .. MaxSession]
      /\ sync \in BOOLEAN
      /\ ~Blank.active /\ Blank.remote = {}
  BY DEF Machine, Host, Joiner, Other, TypeOK, Blank
(* Enough: who is active was active and has received nothing new. *)
<1>K. ASSUME ses' = ses,
             \A m \in Machine :
                g'[m].active => g[m].active /\ g'[m].remote \subseteq g[m].remote
      PROVE  OneMatch'
  BY <1>0, <1>K DEF OneMatch
<1>1. ASSUME NEW m \in Machine, Start(m) PROVE OneMatch'
  <2>1. /\ g'[m].remote = g[m].remote
        /\ \A o \in Machine : o # m => g'[o] = g[o] /\ ses'[o] = ses[o]
    BY <1>0, <1>1 DEF Start, Net
  <2>2. g[m].remote = {} /\ g[Other(m)].remote = {}
    BY <1>0, <1>1 DEF Start, Forgotten, NoResidue, Blank
  <2> QED
    BY <1>0, <2>1, <2>2 DEF OneMatch
<1>2. ASSUME NEW m \in Machine,
             Leave(m) \/ BackToMenu(m) \/ Watchdog(m) \/ (m = Joiner /\ SyncFails)
      PROVE  OneMatch'
  BY <1>0, <1>2, <1>K, Ends DEF Disconnect
<1>3. ASSUME NEW m \in Machine, Crash(m) PROVE OneMatch'
  BY <1>0, <1>3, <1>K DEF Crash
<1>4. ASSUME NEW m \in Machine, Submit(m) PROVE OneMatch'
  <2>1. /\ Numbered(g[m], ses[m]).active = g[m].active
        /\ Numbered(g[m], ses[m]).remote = g[m].remote
    BY <1>0 DEF Numbered, Net
  <2> QED
    BY <1>0, <1>4, <1>K, <2>1 DEF Submit
<1>5. ASSUME NEW m \in Machine, NEW d \in net, Receive(m, d) PROVE OneMatch'
  <2> DEFINE n == Pumped(m, g[m], d)
  <2>1. d \in Datagram /\ g[m] \in Net /\ g[m].active
    BY <1>0, <1>5 DEF TypeOK, Receive, Reaches
  <2>2. \/ n = Blank
        \/ n.remote \subseteq g[m].remote \cup {d.from}
    <3>1. n = Blank \/ Follows(m, g[m], d, n)
      BY <1>0, <2>1, PumpedFields
    <3> HIDE DEF n
    <3> QED
      BY <3>1 DEF Follows
  <2>3. \A o \in Machine : g'[o] = IF o = m THEN n ELSE g[o]
    BY <1>0, <1>5 DEF Receive
  <2>4. ses' = ses
    BY <1>5 DEF Receive
  <2>5. g[Other(m)].active => d.from = ses[Other(m)]
    BY <1>5, Arrives DEF Receive
  <2> HIDE DEF n
  <2>6. CASE n = Blank
    BY <1>0, <1>K, <2>3, <2>4, <2>6
  <2>7. CASE n.remote \subseteq g[m].remote \cup {d.from}
    <3>1. Other(m) \in Machine /\ Other(m) # m /\ Other(Other(m)) = m
      BY <1>0
    <3>2. g[Other(m)].active =>
            /\ n.remote \subseteq {ses[Other(m)]}
            /\ g[Other(m)].remote \subseteq {ses[m]}
      BY <1>0, <2>1, <2>5, <2>7, <3>1 DEF OneMatch
    <3> QED
      BY <1>0, <2>3, <2>4, <3>1, <3>2 DEF OneMatch
  <2> QED
    BY <2>2, <2>6, <2>7
<1>6. CASE Publish
  <2>1. PICK f \in FrameNo : PublishAt(f)
    BY <1>6, PublishAtSome
  <2> QED
    BY <1>0, <1>K, <2>1 DEF PublishAt, Net
<1>7. ASSUME NEW m \in Machine,
             g' = [g EXCEPT ![m] = Restarted(@, @.frame)], ses' = ses
      PROVE  OneMatch'
  <2>1. Restarted(g[m], g[m].frame).active = g[m].active /\ Restarted(g[m], g[m].frame).remote = {}
    BY <1>0 DEF Restarted, Net
  <2> QED
    BY <1>0, <1>7, <1>K, <2>1
<1>8. CASE OfferFails
  BY <1>0, <1>8, <1>K DEF OfferFails, Disconnect
<1>9. CASE OfferAccepted
  BY <1>0, <1>7, <1>9 DEF OfferAccepted
<1>10. CASE Adopt
  BY <1>0, <1>7, <1>10 DEF Adopt
<1>11. ASSUME g' = g, ses' = ses PROVE OneMatch'
  BY <1>11, <1>K
<1>12. ASSUME NEW m \in Machine, Hello(m) PROVE OneMatch'
  BY <1>11, <1>12 DEF Hello
<1>13. ASSUME NEW d \in net, Lose(d) PROVE OneMatch'
  BY <1>11, <1>13 DEF Lose
<1>14. CASE OfferAgain
  BY <1>11, <1>14 DEF OfferAgain
<1>15. CASE Fetch
  BY <1>11, <1>15 DEF Fetch
<1>16. CASE UNCHANGED vars
  BY <1>11, <1>16 DEF vars
<1> QED
  BY <1>0, <1>1, <1>2, <1>3, <1>4, <1>5, <1>6, <1>8, <1>9, <1>10, <1>12, <1>13, <1>14,
     <1>15, <1>16
  DEF Next, Step, SyncStep
-----------------------------------------------------------------------------
(* The state that both run on.                                             *)

(* The frames of what is published grow with the sessions of a process.    *)
LEMMA PubStep == TypeOK /\ NoResidue /\ PubInv /\ [Next]_vars => PubInv'
<1> SUFFICES ASSUME TypeOK, NoResidue, PubInv, [Next]_vars PROVE PubInv'
  OBVIOUS
<1>0. /\ Host \in Machine /\ Joiner \in Machine /\ Host # Joiner
      /\ \A m \in Machine : m = Host \/ m = Joiner
      /\ g \in [Machine -> Net] /\ ses \in [Machine -> 0 .. MaxSession]
      /\ published \in [Session -> FrameNo \cup {0}] /\ before \in 0 .. MaxSession
      /\ sync \in BOOLEAN /\ offering \in BOOLEAN
      /\ ~Blank.active
  BY DEF Machine, Host, Joiner, TypeOK, Blank
(* Enough: nothing is published, and a host that goes on without a session *)
(* has done so before.                                                     *)
<1>K. ASSUME ses' = ses, published' = published, sync' = sync,
             before' = before \/ before' = ses[Host],
             \/ ~g'[Host].active
             \/ InSession(Host)'
             \/ /\ g'[Host].active = g[Host].active /\ offering' = offering
                /\ InSession(Host) => InSession(Host)'
      PROVE  PubInv'
  <2>1. /\ before' <= ses[Host]
        /\ \A s, t \in Session :
             before' < s /\ s < t /\ published[t] # 0 => published[s] < published[t]
    BY <1>0, <1>K DEF PubInv, Session
  <2> QED
    BY <1>0, <1>K, <2>1 DEF PubInv
<1>1. ASSUME NEW m \in Machine, Start(m) PROVE PubInv'
  <2>1. /\ UNCHANGED <<published, before, offering, sync>>
        /\ \A o \in Machine : o # m => g'[o] = g[o] /\ ses'[o] = ses[o]
        /\ ses[m] < MaxSession /\ ses'[m] = ses[m] + 1
    BY <1>0, <1>1 DEF Start, hostVars
  <2>2. CASE m = Host
    <3>1. ses'[Host] \in Session /\ ses'[Host] > ses[Host]
      BY <1>0, <2>1, <2>2, NetSessionAssumption DEF Session
    <3>2. before' <= ses'[Host] /\ \A s \in Session : s > ses'[Host] => published'[s] = 0
      BY <1>0, <2>1, <2>2, <3>1, NetSessionAssumption DEF PubInv, Session
    <3>3. published'[ses'[Host]] = 0
      BY <2>1, <3>1 DEF PubInv
    <3> QED
      BY <2>1, <3>2, <3>3 DEF PubInv
  <2>3. CASE m = Joiner
    BY <1>0, <2>1, <2>3 DEF PubInv, InSession
  <2> QED
    BY <1>0, <2>2, <2>3
<1>2. ASSUME NEW m \in Machine,
             Leave(m) \/ BackToMenu(m) \/ Watchdog(m) \/ (m = Joiner /\ SyncFails)
      PROVE  PubInv'
  BY <1>0, <1>2, <1>K, Ends DEF Disconnect, InSession
<1>3. ASSUME NEW m \in Machine, Crash(m) PROVE PubInv'
  BY <1>0, <1>3, <1>K DEF Crash, InSession
<1>4. ASSUME NEW m \in Machine, Submit(m) PROVE PubInv'
  <2>1. /\ Numbered(g[m], ses[m]).active = g[m].active
        /\ Numbered(g[m], ses[m]).connected = g[m].connected
        /\ Numbered(g[m], ses[m]).synced = g[m].synced
    BY <1>0 DEF Numbered, Net
  <2> QED
    BY <1>0, <1>4, <1>K, <2>1 DEF Submit, InSession, hostVars
<1>5. ASSUME NEW m \in Machine, NEW d \in net, Receive(m, d) PROVE PubInv'
  <2> DEFINE n == Pumped(m, g[m], d)
  <2>1. d \in Datagram /\ g[m] \in Net
    BY <1>0, <1>5 DEF TypeOK
  <2>2. \/ ~n.active
        \/ /\ n.active = g[m].active
           /\ g[m].connected /\ g[m].synced => n.connected /\ n.synced
    <3>1. n = Blank \/ Follows(m, g[m], d, n)
      BY <1>0, <2>1, PumpedFields
    <3> HIDE DEF n
    <3> QED
      BY <1>0, <3>1 DEF Follows
  <2>3. \A o \in Machine : g'[o] = IF o = m THEN n ELSE g[o]
    BY <1>0, <1>5 DEF Receive
  <2>4. UNCHANGED <<sync, offering, ses, published, before>>
    BY <1>5 DEF Receive, hostVars
  <2> HIDE DEF n
  <2> QED
    BY <1>0, <1>K, <2>2, <2>3, <2>4 DEF InSession
<1>6. CASE Publish
  <2>1. PICK f \in FrameNo : PublishAt(f)
    BY <1>6, PublishAtSome
  <2>2. /\ UNCHANGED <<ses, before>> /\ offering'
        /\ \A s \in Session : published'[s] = IF s = ses[Host] THEN f ELSE published[s]
        /\ \A s \in Session : before < s /\ s <= ses[Host] => published[s] < f
    BY <1>0, <2>1 DEF PublishAt, Session
  <2>3. \A s, t \in Session :
          before < s /\ s < t /\ published'[t] # 0 => published'[s] < published'[t]
    <3> SUFFICES ASSUME NEW s \in Session, NEW t \in Session,
                        before < s, s < t, published'[t] # 0
                 PROVE  published'[s] < published'[t]
      OBVIOUS
    <3>1. t <= ses[Host]
      BY <1>0, <2>2 DEF PubInv, Session
    <3>2. s # ses[Host]
      BY <1>0, <3>1 DEF Session
    <3>3. CASE t = ses[Host]
      BY <1>0, <2>2, <3>2, <3>3 DEF Session
    <3>4. CASE t # ses[Host]
      BY <2>2, <3>2, <3>4 DEF PubInv
    <3> QED
      BY <3>3, <3>4
  <2>4. \A s \in Session : s > ses[Host] => published'[s] = 0
    BY <1>0, <2>2 DEF PubInv, Session
  <2> QED
    BY <2>2, <2>3, <2>4 DEF PubInv
<1>7. CASE OfferAccepted
  <2>1. Restarted(g[Host], g[Host].frame).synced
        /\ Restarted(g[Host], g[Host].frame).active = g[Host].active
        /\ Restarted(g[Host], g[Host].frame).connected = g[Host].connected
    BY <1>0 DEF Restarted, Net
  <2> QED
    BY <1>0, <1>7, <1>K, <2>1 DEF OfferAccepted, Connected, InSession, hostVars
<1>8. CASE OfferFails
  BY <1>0, <1>8, <1>K DEF OfferFails, Disconnect, hostVars
<1>9. CASE Adopt
  BY <1>0, <1>9, <1>K DEF Adopt, InSession, hostVars
<1>10. ASSUME UNCHANGED <<g, ses, published, before, sync, offering>> PROVE PubInv'
  BY <1>K, <1>10 DEF InSession
<1>11. ASSUME NEW m \in Machine, Hello(m) PROVE PubInv'
  BY <1>10, <1>11 DEF Hello, hostVars
<1>12. ASSUME NEW d \in net, Lose(d) PROVE PubInv'
  BY <1>10, <1>12 DEF Lose, hostVars
<1>13. CASE OfferAgain
  BY <1>10, <1>13 DEF OfferAgain, hostVars
<1>14. CASE Fetch
  BY <1>10, <1>14 DEF Fetch, hostVars
<1>15. CASE UNCHANGED vars
  BY <1>10, <1>15 DEF vars, hostVars
<1> QED
  BY <1>0, <1>1, <1>2, <1>3, <1>4, <1>5, <1>6, <1>7, <1>8, <1>9, <1>11, <1>12, <1>13,
     <1>14, <1>15
  DEF Next, Step, SyncStep

(* What a machine sends carries its session. *)
LEMMA Says ==
    ASSUME TypeOK, WireInv, NEW m \in Machine, g[m].active,
           NEW k \in Kind, NEW f \in FrameNo \cup {0}
    PROVE  \A e \in WithMessage(m, k, f) :
             e \in net \/ (e.from = ses[m] /\ e.kind = k /\ e.frame = f)
BY Senders, Sent

LEMMA OfferStep ==
    TypeOK /\ WireInv /\ NoResidue /\ PubInv /\ OfferInv /\ ZeroInv /\ ~Early /\ [Next]_vars
        => OfferInv'
<1> SUFFICES ASSUME TypeOK, WireInv, NoResidue, PubInv, OfferInv, ZeroInv, ~Early, [Next]_vars
             PROVE  OfferInv'
  OBVIOUS
<1>0. /\ Host \in Machine /\ Joiner \in Machine /\ Host # Joiner
      /\ \A m \in Machine : m = Host \/ m = Joiner
      /\ Other(Host) = Joiner
      /\ g \in [Machine -> Net] /\ ses \in [Machine -> 0 .. MaxSession]
      /\ net \subseteq Datagram
      /\ sync \in BOOLEAN
      /\ {"hello", "inputs", "offer", "done", "bye"} \subseteq Kind
      /\ 0 \in FrameNo \cup {0}
      /\ \A m \in Machine : g[m].active \/ g[m] = Blank
      /\ ~Blank.active /\ Blank.frame = 0 /\ ~Blank.offered /\ ~Blank.connected
      /\ published \in [Session -> FrameNo \cup {0}]
      /\ 0 \notin FrameNo /\ Never \notin FrameNo /\ NoBlob.frame \notin FrameNo
  BY NetSessionAssumption
  DEF Machine, Host, Joiner, Other, TypeOK, Kind, NoResidue, Blank, FrameNo, Never, NoBlob
(* Enough: only the offers that were there, and the frames of before. *)
<1>K. ASSUME ses' = ses, published' = published, blob' = blob \/ blob'.frame \notin FrameNo,
             \A e \in net' : e \in net \/ e.kind # "offer",
             \A m \in Machine :
                \/ ~g'[m].active /\ g'[m].frame = 0 /\ ~g'[m].offered
                \/ /\ g'[m].active = g[m].active /\ g'[m].frame = g[m].frame
                   /\ g'[m].offered => g[m].offered
                   /\ g[m].connected => g'[m].connected
      PROVE  OfferInv'
  BY <1>0, <1>K DEF OfferInv
<1>1. ASSUME NEW m \in Machine, Start(m) PROVE OfferInv'
  <2>1. /\ g[m] = Blank /\ UNCHANGED <<net, blob, published>>
        /\ ~g[Other(m)].connected
        /\ \A o \in Machine : o # m => g'[o] = g[o] /\ ses'[o] = ses[o]
    BY <1>0, <1>1 DEF Start, Forgotten, hostVars
  <2>2. g'[m].frame = 0 /\ ~g'[m].offered
    BY <1>0, <1>1, <2>1 DEF Start, Blank
  <2>3. ~g[Joiner].offered
    BY <1>0, <2>1 DEF OfferInv
  <2>4. ~g'[Joiner].offered
    BY <1>0, <2>1, <2>2, <2>3
  <2>5. m = Host => g'[Host].frame = 0
    BY <2>2
  <2>6. m = Joiner => g'[Host] = g[Host] /\ ses'[Host] = ses[Host]
    BY <1>0, <2>1
  <2> QED
    BY <1>0, <2>1, <2>4, <2>5, <2>6 DEF OfferInv
<1>2. ASSUME NEW m \in Machine,
             Leave(m) \/ BackToMenu(m) \/ Watchdog(m) \/ (m = Joiner /\ SyncFails)
      PROVE  OfferInv'
  <2>1. /\ g[m].active /\ g' = [g EXCEPT ![m] = Blank]
        /\ net' = WithMessage(m, "bye", 0)
        /\ UNCHANGED <<blob, ses, published>>
    BY <1>2, Ends DEF Disconnect
  <2>2. \A e \in net' : e \in net \/ e.kind # "offer"
    BY <1>0, <2>1, Says
  <2> QED
    BY <1>0, <1>K, <2>1, <2>2
<1>3. ASSUME NEW m \in Machine, Crash(m) PROVE OfferInv'
  BY <1>0, <1>3, <1>K DEF Crash
<1>4. ASSUME NEW m \in Machine, Hello(m) PROVE OfferInv'
  <2>1. \A e \in net' : e \in net \/ e.kind # "offer"
    BY <1>0, <1>4, Says DEF Hello
  <2> QED
    BY <1>4, <1>K, <2>1 DEF Hello, hostVars
<1>5. ASSUME NEW m \in Machine, Submit(m) PROVE OfferInv'
  <2>1. /\ Numbered(g[m], ses[m]).active = g[m].active
        /\ Numbered(g[m], ses[m]).frame = g[m].frame
        /\ Numbered(g[m], ses[m]).offered = g[m].offered
        /\ Numbered(g[m], ses[m]).connected = g[m].connected
    BY <1>0 DEF Numbered, Net
  <2>2. \A e \in net' : e \in net \/ e.kind # "offer"
    BY <1>0, <1>5, Says DEF Submit, InSession
  <2> QED
    BY <1>0, <1>5, <1>K, <2>1, <2>2 DEF Submit, hostVars
<1>6. ASSUME NEW m \in Machine, NEW d \in net, Receive(m, d) PROVE OfferInv'
  <2> DEFINE n == Pumped(m, g[m], d)
  <2>1. /\ d \in Datagram /\ g[m] \in Net /\ g[m].active
        /\ UNCHANGED <<blob, ses, published>>
    BY <1>0, <1>6 DEF Receive, Reaches, hostVars
  <2>2. n = Blank \/ Follows(m, g[m], d, n)
    BY <1>0, <2>1, PumpedFields
  <2>3. \A o \in Machine : g'[o] = IF o = m THEN n ELSE g[o]
    BY <1>0, <1>6 DEF Receive
  <2>4. \A e \in net' : e \in net \/ e.kind # "offer"
    BY <1>6, Answered
  <2> HIDE DEF n
  <2>5. CASE n = Blank \/ ~(m = Joiner /\ d.kind = "offer")
    <3>1. \/ ~n.active /\ n.frame = 0 /\ ~n.offered
          \/ n.active = g[m].active /\ n.frame = g[m].frame /\ (n.offered => g[m].offered) /\ n.connected
      BY <1>0, <2>2, <2>5 DEF Follows
    <3> QED
      BY <1>K, <2>1, <2>3, <2>4, <3>1
  <2>6. CASE Follows(m, g[m], d, n) /\ m = Joiner /\ d.kind = "offer"
    <3>1. (d.frame # 0 => d.frame = published[d.from]) /\ d.from \in Session
      BY <2>1, <2>6 DEF OfferInv, Datagram
    <3>2. g[Host].active => d.from = ses[Host]
      BY <1>0, <1>6, <2>6, Arrives DEF Receive, Other, Host, Joiner
    <3>3. n.frame = d.frame /\ n.connected
      BY <2>6 DEF Follows
    <3>4. g'[Host] = g[Host] /\ g'[Joiner] = n
      BY <1>0, <2>3, <2>6
    <3> QED
      BY <1>0, <2>1, <2>4, <3>1, <3>2, <3>3, <3>4 DEF OfferInv
  <2> QED
    BY <2>2, <2>5, <2>6
<1>7. ASSUME NEW d \in net, Lose(d) PROVE OfferInv'
  BY <1>7, <1>K DEF Lose, hostVars
<1>8. CASE Publish
  <2>1. PICK f \in FrameNo : PublishAt(f)
    BY <1>8, PublishAtSome
  <2>2. /\ g[Host].active /\ UNCHANGED <<blob, ses>>
        /\ \A s \in Session : published'[s] = IF s = ses[Host] THEN f ELSE published[s]
    BY <1>0, <2>1 DEF PublishAt
  <2>3. ses[Host] \in Session /\ published[ses[Host]] = 0
    BY <1>0, <2>1, <2>2, Senders DEF PublishAt, PubInv, InSession
  <2>4. \A e \in net' :
          e.kind = "offer" =>
            \/ e \in net
            \/ e.from = ses[Host] /\ e.frame = f /\ e.to # Port
    BY <1>0, <2>1, <2>2, Senders, Sent DEF PublishAt
  <2>5. g'[Host].frame = f /\ g'[Joiner] = g[Joiner]
    BY <1>0, <2>1 DEF PublishAt, Net
  <2>6. \A d \in net : d.kind = "offer" /\ d.frame # 0 => d.from # ses[Host] /\ d.from \in Session
    BY <1>0, <2>3 DEF OfferInv, Datagram
  <2>7. \A e \in net' : e.kind = "offer" =>
          e.to # Port /\ (e.frame # 0 => e.frame = published'[e.from])
    BY <2>2, <2>3, <2>4, <2>6 DEF OfferInv
  <2>8. blob.frame \in FrameNo => blob.of \in Session /\ blob.frame = published'[blob.of]
    BY <1>0, <2>2, <2>3 DEF OfferInv
  <2>9. g[Joiner].offered => g[Joiner].frame = 0
    BY <2>2, <2>3 DEF OfferInv
  <2> QED
    BY <1>0, <2>2, <2>3, <2>5, <2>7, <2>8, <2>9 DEF OfferInv
<1>9. CASE OfferAgain
  <2>1. /\ g[Host].active /\ UNCHANGED <<g, blob, ses, published>>
    BY <1>9 DEF OfferAgain, Connected, hostVars
  <2>2. g[Host].frame \in FrameNo \cup {0}
    BY <1>0 DEF Net
  <2>3. \A e \in net' :
          e \in net \/ (e.from = ses[Host] /\ e.frame = g[Host].frame /\ e.to # Port)
    BY <1>0, <1>9, <2>1, <2>2, Senders, Sent DEF OfferAgain
  <2> QED
    BY <2>1, <2>3 DEF OfferInv
<1>10. ASSUME NEW m \in Machine,
              g' = [g EXCEPT ![m] = Restarted(@, @.frame)],
              published' = published, blob' = blob \/ blob'.frame \notin FrameNo, ses' = ses,
              \A e \in net' : e \in net \/ e.kind # "offer"
       PROVE  OfferInv'
  <2>1. /\ Restarted(g[m], g[m].frame).active = g[m].active
        /\ Restarted(g[m], g[m].frame).frame = g[m].frame
        /\ Restarted(g[m], g[m].frame).offered = g[m].offered
        /\ Restarted(g[m], g[m].frame).connected = g[m].connected
    BY <1>0 DEF Restarted, Net
  <2> QED
    BY <1>0, <1>10, <1>K, <2>1
<1>11. CASE OfferAccepted
  BY <1>0, <1>10, <1>11 DEF OfferAccepted, hostVars
<1>12. CASE OfferFails
  <2>1. CASE g[Host].active
    <3>1. \A e \in net' : e \in net \/ e.kind # "offer"
      BY <1>0, <1>12, <2>1, Says DEF OfferFails, Disconnect
    <3> QED
      BY <1>0, <1>12, <1>K, <2>1, <3>1 DEF OfferFails, Disconnect, hostVars
  <2>2. CASE ~g[Host].active
    BY <1>12, <1>K, <2>2 DEF OfferFails, hostVars
  <2> QED
    BY <2>1, <2>2
<1>13. CASE Fetch
  <2>1. /\ g[Joiner].offered /\ g[Host].frame # 0 /\ sync
        /\ blob' = [frame |-> g[Joiner].frame, of |-> ses[Host]]
        /\ UNCHANGED <<g, ses, net, published>>
    BY <1>13 DEF Fetch, Listening, Offered, Pending, hostVars
  <2>2. g[Host].active
    BY <1>0, <2>1
  <2>3. g[Joiner].frame # 0
    BY <2>1, <2>2 DEF ZeroInv, EmptyOffer
  <2>4. ses[Host] \in Session /\ g[Joiner].frame = published[ses[Host]]
    BY <1>0, <2>1, <2>2, <2>3, Senders DEF OfferInv
  <2> QED
    BY <2>1, <2>4 DEF OfferInv
<1>14. CASE Adopt
  <2>1. g[Joiner].active /\ g[Joiner].frame \in FrameNo \cup {0}
    BY <1>0, <1>14 DEF Adopt, Offered, Pending, Net
  <2>2. \A e \in net' : e \in net \/ e.kind # "offer"
    BY <1>0, <1>14, <2>1, Says DEF Adopt
  <2> QED
    BY <1>0, <1>10, <1>14, <2>2 DEF Adopt, hostVars
<1>15. CASE UNCHANGED vars
  BY <1>15, <1>K DEF vars, hostVars
<1> QED
  BY <1>0, <1>1, <1>2, <1>3, <1>4, <1>5, <1>6, <1>7, <1>8, <1>9, <1>11, <1>12, <1>13,
     <1>14, <1>15
  DEF Next, Step, SyncStep

(* Nothing but the start of a process chooses whether states are synced. *)
LEMMA SyncKept == [Next]_vars => sync' = sync
<1>1. ASSUME NEW m \in Machine, Step(m) PROVE sync' = sync
  BY <1>1
  DEF Step, Start, Leave, Crash, BackToMenu, Watchdog, Hello, Submit, Receive
<1>2. ASSUME NEW d \in net, Lose(d) PROVE sync' = sync
  BY <1>2 DEF Lose
<1>3. ASSUME SyncStep PROVE sync' = sync
  BY <1>3
  DEF SyncStep, Publish, OfferAgain, OfferAccepted, OfferFails, Fetch, SyncFails, Adopt
<1> QED
  BY <1>1, <1>2, <1>3 DEF Next, vars

(* An offer of no frame leads nowhere, and no other frame is 0. *)
LEMMA ZeroStep ==
    TypeOK /\ WireInv /\ NoResidue /\ OfferInv /\ ZeroInv /\ ~Early /\ [Next]_vars => ZeroInv'
<1> SUFFICES ASSUME TypeOK, WireInv, NoResidue, OfferInv, ZeroInv, ~Early, [Next]_vars, sync
             PROVE  ZeroInv'
  BY SyncKept DEF ZeroInv
<1>0. /\ Host \in Machine /\ Joiner \in Machine /\ Host # Joiner
      /\ \A m \in Machine : m = Host \/ m = Joiner
      /\ Other(Host) = Joiner
      /\ g \in [Machine -> Net] /\ ses \in [Machine -> 0 .. MaxSession]
      /\ net \subseteq Datagram
      /\ sync \in BOOLEAN /\ offering \in BOOLEAN
      /\ {"hello", "inputs", "offer", "done", "bye"} \subseteq Kind
      /\ 0 \in FrameNo \cup {0}
      /\ 0 \notin FrameNo /\ Never # 0
      /\ blob.frame \in FrameNo \cup {Never}
      /\ \A m \in Machine : g[m].active \/ g[m] = Blank
      /\ ~Blank.active /\ ~Blank.done /\ ~Blank.connected /\ ~Blank.offered
  BY NetSessionAssumption
  DEF Machine, Host, Joiner, Other, TypeOK, Kind, NoResidue, Blank, FrameNo, Never
(* Enough: no offer and no DONE is new, and what is left of a session was  *)
(* there.                                                                  *)
<1>K. ASSUME sync' = sync,
             \A e \in net' : e \in net \/ (e.kind # "offer" /\ e.kind # "done"),
             \/ ~g'[Host].active /\ ~g'[Host].done
             \/ /\ g'[Host].active = g[Host].active /\ g'[Host].frame = g[Host].frame
                /\ g'[Host].done => g[Host].done
                /\ offering' = offering,
             \/ ~g'[Joiner].connected /\ ~g'[Joiner].offered
             \/ /\ g'[Joiner].offered => g[Joiner].offered /\ g'[Joiner].frame = g[Joiner].frame
                /\ g'[Joiner].connected /\ g'[Joiner].synced => g[Joiner].connected /\ g[Joiner].synced
                /\ g[Joiner].base # NoBase => g'[Joiner].base # NoBase
      PROVE  ZeroInv'
  <2>1. EmptyOffer' => EmptyOffer
    BY <1>K DEF EmptyOffer
  <2> QED
    BY <1>K, <2>1 DEF ZeroInv
<1>1. ASSUME NEW m \in Machine, Start(m) PROVE ZeroInv'
  <2>1. /\ Forgotten(m) /\ g[m] = Blank /\ UNCHANGED <<net, sync, offering>>
        /\ \A o \in Machine : o # m => g'[o] = g[o]
    BY <1>0, <1>1 DEF Start
  <2>2. ~g'[m].connected /\ ~g'[m].done /\ ~g'[m].offered
    BY <1>0, <1>1, <2>1 DEF Start, Blank
  <2>3. \A d \in net : d.kind # "offer"
    BY <1>0, <2>1 DEF Forgotten, OfferInv
  <2>4. ~g'[Joiner].connected /\ ~g'[Joiner].offered
    BY <1>0, <2>1, <2>2 DEF Forgotten, OfferInv
  <2>5. ~EmptyOffer'
    BY <2>1, <2>3, <2>4 DEF EmptyOffer
  <2>6. g'[Host].done => g'[Host].frame # 0
    BY <1>0, <2>1, <2>2 DEF ZeroInv
  <2> QED
    BY <2>1, <2>4, <2>5, <2>6 DEF ZeroInv
<1>2. ASSUME NEW m \in Machine,
             Leave(m) \/ BackToMenu(m) \/ Watchdog(m) \/ (m = Joiner /\ SyncFails)
      PROVE  ZeroInv'
  <2>1. /\ g[m].active /\ g' = [g EXCEPT ![m] = Blank]
        /\ net' = WithMessage(m, "bye", 0)
        /\ UNCHANGED <<sync, offering>>
    BY <1>2, Ends DEF Disconnect
  <2>2. \A e \in net' : e \in net \/ (e.kind # "offer" /\ e.kind # "done")
    BY <1>0, <2>1, Says
  <2> QED
    BY <1>0, <1>K, <2>1, <2>2
<1>3. ASSUME NEW m \in Machine, Crash(m) PROVE ZeroInv'
  BY <1>0, <1>3, <1>K DEF Crash
<1>4. ASSUME NEW m \in Machine, Hello(m) PROVE ZeroInv'
  <2>1. \A e \in net' : e \in net \/ (e.kind # "offer" /\ e.kind # "done")
    BY <1>0, <1>4, Says DEF Hello
  <2> QED
    BY <1>4, <1>K, <2>1 DEF Hello
<1>5. ASSUME NEW m \in Machine, Submit(m) PROVE ZeroInv'
  <2> DEFINE n == Numbered(g[m], ses[m])
  <2>1. /\ n.active = g[m].active /\ n.connected = g[m].connected
        /\ n.synced = g[m].synced /\ n.done = g[m].done
        /\ n.offered = g[m].offered /\ n.frame = g[m].frame
        /\ g[m].base # NoBase => n.base = g[m].base
    BY <1>0 DEF Numbered, Net
  <2>2. \A e \in net' : e \in net \/ (e.kind # "offer" /\ e.kind # "done")
    BY <1>0, <1>5, Says DEF Submit, InSession
  <2>3. g' = [g EXCEPT ![m] = n] /\ UNCHANGED <<sync, offering>>
    BY <1>5 DEF Submit
  <2> HIDE DEF n
  <2> QED
    BY <1>0, <1>K, <2>1, <2>2, <2>3
<1>6. ASSUME NEW m \in Machine, NEW d \in net, Receive(m, d) PROVE ZeroInv'
  <2> DEFINE n == Pumped(m, g[m], d)
  <2>1. /\ d \in Datagram /\ g[m] \in Net /\ g[m].active
        /\ UNCHANGED <<sync, offering>>
    BY <1>0, <1>6 DEF Receive, Reaches
  <2>2. n = Blank \/ Follows(m, g[m], d, n)
    BY <1>0, <2>1, PumpedFields
  <2>3. \A o \in Machine : g'[o] = IF o = m THEN n ELSE g[o]
    BY <1>0, <1>6 DEF Receive
  (* A DONE is new only if it answers an offer of the joiner's frame base. *)
  <2>4. \A e \in net' : e \in net \/ (e.kind = "done" /\ e.frame # 0)
    <3>1. \A e \in net' :
            \/ e \in net
            \/ /\ m = Joiner /\ e.kind = "done" /\ e.frame = d.frame
               /\ Met(g[m], d).synced /\ Met(g[m], d).base = d.frame
      BY <1>6, Answered
    <3>2. Met(g[m], d).base = g[m].base
      BY <2>1 DEF Met, Net
    <3>3. Met(g[m], d).synced => g[m].connected /\ g[m].synced
      BY <2>1 DEF Met, Net
    <3> QED
      BY <3>1, <3>2, <3>3 DEF ZeroInv, NoBase
  <2> HIDE DEF n
  <2>5. \A e \in net' : e.kind = "done" => e.frame # 0
    BY <2>4 DEF ZeroInv
  <2>6. CASE m = Joiner
    <3>1. g'[Host] = g[Host] /\ g'[Joiner] = n
      BY <1>0, <2>3, <2>6
    <3>2. n.offered /\ n.frame = 0 => EmptyOffer
      BY <1>0, <2>2, <2>6 DEF Follows, EmptyOffer
    <3>3. EmptyOffer' => EmptyOffer
      BY <2>4, <3>1, <3>2 DEF EmptyOffer
    <3>4. n.connected /\ n.synced => n.base # NoBase
      BY <1>0, <2>2, <2>6 DEF Follows, ZeroInv
    <3> QED
      BY <2>1, <2>5, <3>1, <3>3, <3>4 DEF ZeroInv
  <2>7. CASE m = Host
    <3>1. g'[Joiner] = g[Joiner] /\ g'[Host] = n
      BY <1>0, <2>3, <2>7
    <3>2. EmptyOffer' => EmptyOffer
      BY <2>4, <3>1 DEF EmptyOffer
    <3>3. n.active => n.active = g[Host].active /\ n.frame = g[Host].frame
      BY <1>0, <2>2, <2>7 DEF Follows
    <3>4. n.done => n.frame # 0
      BY <1>0, <2>2, <2>7 DEF Follows, ZeroInv
    <3> QED
      BY <2>1, <2>5, <3>1, <3>2, <3>3, <3>4 DEF ZeroInv
  <2> QED
    BY <1>0, <2>6, <2>7
<1>7. ASSUME NEW d \in net, Lose(d) PROVE ZeroInv'
  BY <1>7, <1>K DEF Lose
<1>8. CASE Publish
  <2>1. PICK f \in FrameNo : PublishAt(f)
    BY <1>8, PublishAtSome
  <2>2. ~EmptyOffer
    BY <2>1 DEF PublishAt, ZeroInv
  <2>3. \A e \in net' : e \in net \/ (e.kind = "offer" /\ e.frame # 0)
    BY <1>0, <2>1, Says DEF PublishAt
  <2>4. g'[Joiner] = g[Joiner] /\ ~g'[Host].done
    BY <1>0, <2>1 DEF PublishAt, Net
  <2>5. ~EmptyOffer'
    BY <2>2, <2>3, <2>4 DEF EmptyOffer
  <2> QED
    BY <2>3, <2>4, <2>5 DEF ZeroInv
<1>9. CASE OfferAgain
  <2>1. /\ g[Host].active /\ g[Host].frame \in FrameNo \cup {0}
        /\ offering /\ UNCHANGED <<g, sync, offering>>
    BY <1>0, <1>9 DEF OfferAgain, Connected, Net
  <2>2. \A e \in net' : e \in net \/ (e.kind = "offer" /\ e.frame = g[Host].frame)
    BY <1>0, <1>9, <2>1, Says DEF OfferAgain
  <2>3. EmptyOffer' => EmptyOffer \/ g[Host].frame = 0
    BY <2>1, <2>2 DEF EmptyOffer
  <2> QED
    BY <2>1, <2>2, <2>3 DEF ZeroInv
<1>10. CASE OfferAccepted
  <2>1. /\ g[Host].active /\ g[Host].done
        /\ g' = [g EXCEPT ![Host] = Restarted(@, @.frame)]
        /\ UNCHANGED <<sync, net>>
    BY <1>10 DEF OfferAccepted, Connected
  <2>2. /\ Restarted(g[Host], g[Host].frame).frame = g[Host].frame
    BY <1>0 DEF Restarted, Net
  <2>3. g'[Host].frame = g[Host].frame /\ g'[Joiner] = g[Joiner]
    BY <1>0, <2>1, <2>2
  <2>4. g[Host].frame # 0
    BY <2>1 DEF ZeroInv
  <2>5. ~EmptyOffer'
    BY <2>1, <2>3, <2>4 DEF ZeroInv, EmptyOffer
  <2> QED
    BY <2>1, <2>3, <2>4, <2>5 DEF ZeroInv
<1>11. CASE OfferFails
  <2>1. CASE g[Host].active
    <3>1. /\ g' = [g EXCEPT ![Host] = Blank] /\ net' = WithMessage(Host, "bye", 0)
          /\ sync' = sync
      BY <1>11, <2>1 DEF OfferFails, Disconnect
    <3>2. \A e \in net' : e \in net \/ (e.kind # "offer" /\ e.kind # "done")
      BY <1>0, <2>1, <3>1, Says
    <3> QED
      BY <1>0, <1>K, <3>1, <3>2
  <2>2. CASE ~g[Host].active
    BY <1>0, <1>11, <1>K, <2>2 DEF OfferFails
  <2> QED
    BY <2>1, <2>2
<1>12. CASE Fetch
  BY <1>12, <1>K DEF Fetch
<1>13. CASE Adopt
  <2> DEFINE n == Restarted(g[Joiner], g[Joiner].frame)
  <2>1. /\ g' = [g EXCEPT ![Joiner] = n]
        /\ g[Joiner].active /\ blob.frame = g[Joiner].frame
        /\ UNCHANGED <<sync, offering>>
    BY <1>13 DEF Adopt, Offered, Pending
  <2>2. g[Joiner].frame # 0 /\ g[Joiner].frame \in FrameNo \cup {0}
    BY <1>0, <2>1 DEF Net
  <2>3. n.base = g[Joiner].frame /\ n.offered = g[Joiner].offered /\ n.frame = g[Joiner].frame
    BY <1>0 DEF Restarted, Net
  <2>4. \A e \in net' : e \in net \/ (e.kind = "done" /\ e.frame # 0)
    BY <1>0, <1>13, <2>1, <2>2, Says DEF Adopt
  <2> HIDE DEF n
  <2>5. g'[Joiner] = n /\ g'[Host] = g[Host]
    BY <1>0, <2>1
  <2>6. EmptyOffer' => EmptyOffer
    BY <2>2, <2>3, <2>4, <2>5 DEF EmptyOffer
  <2> QED
    BY <2>1, <2>2, <2>3, <2>4, <2>5, <2>6 DEF ZeroInv, NoBase
<1>14. CASE UNCHANGED vars
  BY <1>14, <1>K DEF vars
<1> QED
  BY <1>0, <1>1, <1>2, <1>3, <1>4, <1>5, <1>6, <1>7, <1>8, <1>9, <1>10, <1>11, <1>12,
     <1>13, <1>14
  DEF Next, Step, SyncStep

LEMMA DoneStep ==
    TypeOK /\ WireInv /\ NoResidue /\ PubInv /\ OfferInv /\ ZeroInv /\ DoneInv /\ ~Early
        /\ [Next]_vars => DoneInv'
<1> SUFFICES ASSUME TypeOK, WireInv, NoResidue, PubInv, OfferInv, ZeroInv, DoneInv, ~Early,
                    [Next]_vars
             PROVE  DoneInv'
  OBVIOUS
<1>0. /\ Host \in Machine /\ Joiner \in Machine /\ Host # Joiner
      /\ \A m \in Machine : m = Host \/ m = Joiner
      /\ Other(Host) = Joiner
      /\ g \in [Machine -> Net] /\ ses \in [Machine -> 0 .. MaxSession]
      /\ net \subseteq Datagram
      /\ sync \in BOOLEAN
      /\ {"hello", "inputs", "offer", "done", "bye"} \subseteq Kind
      /\ 0 \in FrameNo \cup {0}
      /\ \A m \in Machine : g[m].active \/ g[m] = Blank
      /\ ~Blank.active /\ ~Blank.done /\ ~Blank.connected
      /\ published \in [Session -> FrameNo \cup {0}] /\ before \in 0 .. MaxSession
      /\ blob.frame \in FrameNo \cup {Never} /\ 0 \notin FrameNo /\ Never # 0
      /\ g[Host].active => ses[Host] \in Session
  BY NetSessionAssumption, Senders
  DEF Machine, Host, Joiner, Other, TypeOK, Kind, NoResidue, Blank, FrameNo, Never
(* Enough: no DONE is new, and who is in a session was in it with the base *)
(* that it has.                                                            *)
<1>K. ASSUME ses' = ses, published' = published, adopted' = adopted, sync' = sync,
             before' = before \/ before' = ses[Host],
             \A e \in net' : e \in net \/ e.kind # "done",
             \A m \in Machine :
                \/ ~g'[m].active /\ ~g'[m].connected /\ ~g'[m].done
                \/ /\ g'[m].active = g[m].active
                   /\ g[m].connected => g'[m].connected
                   /\ InSession(m)' => InSession(m)
                   /\ g'[m].connected /\ g'[m].synced => g[m].connected /\ g[m].synced
                   /\ g'[m].done => g[m].done
                   /\ g[m].base # NoBase => g'[m].base = g[m].base
      PROVE  DoneInv'
  <2>1. \A e \in net' : e.kind = "done" => e \in net
    BY <1>K
  <2>2. Shared => Shared'
    BY <1>0, <1>K DEF Shared, PubInv, Session
  <2>3. g'[Joiner].active /\ ~g'[Joiner].connected => \A e \in net' : e.kind # "done"
    BY <1>0, <1>K, <2>1 DEF DoneInv
  <2>4. ASSUME sync PROVE SyncedInv'
    <3>1. SyncedInv
      BY <2>4 DEF DoneInv
    <3>2. \A m \in Machine : g'[m].active => g[m].active
      BY <1>K
    <3>3. g'[Host].active =>
            \A e \in net' : e.kind = "done" => Shared' /\ e.frame = published[ses[Host]]
      BY <1>0, <2>1, <2>2, <3>1, <3>2 DEF SyncedInv
    <3>4. g'[Host].done => Shared'
      BY <1>0, <1>K, <2>2, <3>1 DEF SyncedInv
    <3>5. g'[Joiner].connected /\ g'[Joiner].synced /\ g'[Host].active =>
            Shared' /\ g'[Joiner].base = published[ses[Host]]
      BY <1>0, <1>K, <2>2, <3>1, <3>2 DEF SyncedInv, Shared, NoBase
    <3>6. InSession(Host)' => Shared' /\ g'[Host].base = published[ses[Host]]
      <4>1. InSession(Host)' => InSession(Host)
        BY <1>0, <1>K DEF InSession
      <4>2. InSession(Host) => Shared /\ g[Host].base = published[ses[Host]] /\ g[Host].base # NoBase
        BY <1>0, <3>1 DEF SyncedInv, Shared, NoBase
      <4> QED
        BY <1>0, <1>K, <2>2, <4>1, <4>2 DEF InSession
    <3> QED
      BY <1>K, <3>3, <3>4, <3>5, <3>6 DEF SyncedInv
  <2> QED
    BY <1>K, <2>3, <2>4 DEF DoneInv
<1>1. ASSUME NEW m \in Machine, Start(m) PROVE DoneInv'
  <2>1. /\ Forgotten(m) /\ g[m] = Blank /\ UNCHANGED <<net, adopted, sync, published, before>>
        /\ \A o \in Machine : o # m => g'[o] = g[o] /\ ses'[o] = ses[o]
    BY <1>0, <1>1 DEF Start, hostVars
  <2>2. ~g'[m].connected /\ ~g'[m].done
    BY <1>0, <1>1, <2>1 DEF Start, Blank
  <2>3. \A d \in net : d.kind # "done"
    BY <1>0, <2>1 DEF Forgotten, DoneInv
  <2>4. ~g'[Joiner].connected
    BY <1>0, <2>1, <2>2 DEF Forgotten
  <2>5. ASSUME sync PROVE SyncedInv'
    <3>1. m = Joiner => g'[Host] = g[Host] /\ ses'[Host] = ses[Host]
      BY <1>0, <2>1
    <3>2. SyncedInv
      BY <2>5 DEF DoneInv
    <3>3. m = Joiner => (Shared => Shared')
      BY <2>1, <3>1 DEF Shared
    <3> QED
      BY <1>0, <2>1, <2>2, <2>3, <2>4, <3>1, <3>2, <3>3 DEF SyncedInv, InSession
  <2> QED
    BY <2>1, <2>3, <2>5 DEF DoneInv
<1>2. ASSUME NEW m \in Machine,
             Leave(m) \/ BackToMenu(m) \/ Watchdog(m) \/ (m = Joiner /\ SyncFails)
      PROVE  DoneInv'
  <2>1. /\ g[m].active /\ g' = [g EXCEPT ![m] = Blank]
        /\ net' = WithMessage(m, "bye", 0)
        /\ UNCHANGED <<sync, ses, adopted, published, before>>
    BY <1>2, Ends DEF Disconnect
  <2>2. \A e \in net' : e \in net \/ e.kind # "done"
    BY <1>0, <2>1, Says
  <2> QED
    BY <1>0, <1>K, <2>1, <2>2 DEF InSession
<1>3. ASSUME NEW m \in Machine, Crash(m) PROVE DoneInv'
  BY <1>0, <1>3, <1>K DEF Crash, InSession
<1>4. ASSUME NEW m \in Machine, Hello(m) PROVE DoneInv'
  <2>1. \A e \in net' : e \in net \/ e.kind # "done"
    BY <1>0, <1>4, Says DEF Hello
  <2> QED
    BY <1>4, <1>K, <2>1 DEF Hello, InSession, hostVars
<1>5. ASSUME NEW m \in Machine, Submit(m) PROVE DoneInv'
  <2> DEFINE n == Numbered(g[m], ses[m])
  <2>1. /\ n.active = g[m].active /\ n.connected = g[m].connected
        /\ n.synced = g[m].synced /\ n.done = g[m].done
        /\ g[m].base # NoBase => n.base = g[m].base
    BY <1>0 DEF Numbered, Net
  <2>2. \A e \in net' : e \in net \/ e.kind # "done"
    BY <1>0, <1>5, Says DEF Submit, InSession
  <2>3. g' = [g EXCEPT ![m] = n] /\ UNCHANGED <<sync, ses, adopted, published, before>>
    BY <1>5 DEF Submit, hostVars
  <2> HIDE DEF n
  <2> QED
    BY <1>0, <1>K, <2>1, <2>2, <2>3 DEF InSession
<1>6. ASSUME NEW m \in Machine, NEW d \in net, Receive(m, d) PROVE DoneInv'
  <2> DEFINE n == Pumped(m, g[m], d)
  <2>1. /\ d \in Datagram /\ g[m] \in Net /\ g[m].active
        /\ UNCHANGED <<sync, ses, adopted, published, before>>
    BY <1>0, <1>6 DEF Receive, Reaches, hostVars
  <2>2. n = Blank \/ Follows(m, g[m], d, n)
    BY <1>0, <2>1, PumpedFields
  <2>3. \A o \in Machine : g'[o] = IF o = m THEN n ELSE g[o]
    BY <1>0, <1>6 DEF Receive
  (* A DONE is new only if the joiner runs on the state that is offered.   *)
  <2>4. \A e \in net' :
          \/ e \in net
          \/ /\ m = Joiner /\ e.frame = g[Joiner].base
             /\ sync => g[Joiner].connected /\ g[Joiner].synced
    <3>1. \A e \in net' :
            \/ e \in net
            \/ /\ m = Joiner /\ e.frame = d.frame
               /\ Met(g[m], d).synced /\ Met(g[m], d).base = d.frame
      BY <1>6, Answered
    <3>2. sync /\ Met(g[m], d).synced => g[m].connected /\ g[m].synced
      BY <2>1 DEF Met, Net
    <3>3. Met(g[m], d).base = g[m].base
      BY <2>1 DEF Met, Net
    <3> QED
      BY <3>1, <3>2, <3>3
  <2> HIDE DEF n
  <2>5. Shared' <=> Shared
    BY <2>1 DEF Shared
  <2>6. g'[Joiner].active /\ ~g'[Joiner].connected => \A e \in net' : e.kind # "done"
    <3>1. CASE m = Joiner
      BY <1>0, <2>2, <2>3, <3>1 DEF Follows
    <3>2. CASE m = Host
      <4>1. g'[Joiner] = g[Joiner] /\ \A e \in net' : e \in net
        BY <1>0, <2>3, <2>4, <3>2
      <4> QED
        BY <4>1 DEF DoneInv
    <3> QED
      BY <1>0, <3>1, <3>2
  <2>7. ASSUME sync PROVE SyncedInv'
    <3>0. SyncedInv
      BY <2>7 DEF DoneInv
    <3>1. CASE m = Joiner
      <4>1. g'[Host] = g[Host] /\ g'[Joiner] = n
        BY <1>0, <2>3, <3>1
      <4>2. n.connected /\ n.synced => g[Joiner].connected /\ g[Joiner].synced /\ n.base = g[Joiner].base
        BY <1>0, <2>2, <2>7, <3>1 DEF Follows
      <4>3. g[Host].active =>
              \A e \in net' : e.kind = "done" => Shared /\ e.frame = published[ses[Host]]
        BY <2>4, <2>7, <3>0 DEF SyncedInv
      <4> QED
        BY <2>1, <2>5, <3>0, <4>1, <4>2, <4>3 DEF SyncedInv, InSession
    <3>2. CASE m = Host
      <4>1. g'[Joiner] = g[Joiner] /\ g'[Host] = n /\ \A e \in net' : e \in net
        BY <1>0, <2>3, <2>4, <3>2
      <4>2. n.active => g[Host].active
        BY <2>1, <3>2
      <4>3. n.done => Shared
        BY <1>0, <2>1, <2>2, <3>0, <3>2 DEF Follows, SyncedInv
      <4>4. n.active /\ n.connected /\ n.synced => InSession(Host) /\ n.base = g[Host].base
        BY <1>0, <2>1, <2>2, <2>7, <3>2 DEF Follows, InSession
      <4> QED
        BY <2>1, <2>5, <3>0, <4>1, <4>2, <4>3, <4>4 DEF SyncedInv, InSession
    <3> QED
      BY <1>0, <3>1, <3>2
  <2> QED
    BY <2>1, <2>6, <2>7 DEF DoneInv
<1>7. ASSUME NEW d \in net, Lose(d) PROVE DoneInv'
  BY <1>7, <1>K DEF Lose, InSession, hostVars
<1>8. CASE Publish
  <2>1. PICK f \in FrameNo : PublishAt(f)
    BY <1>8, PublishAtSome
  <2>2. g[Host].active /\ sync' = sync
    BY <2>1 DEF PublishAt
  (* Until now nobody has shared the state of this session. *)
  <2>3. SyncedInv /\ ~Shared
    BY <2>1 DEF PublishAt, PubInv, InSession, Shared, DoneInv
  <2>4. /\ \A d \in net : d.kind # "done"
        /\ ~(g[Joiner].connected /\ g[Joiner].synced)
    BY <2>2, <2>3 DEF SyncedInv
  <2>5. \A e \in net' : e.kind # "done"
    BY <1>0, <2>1, <2>2, <2>4, Says DEF PublishAt
  <2>6. g'[Joiner] = g[Joiner] /\ ~g'[Host].synced /\ ~g'[Host].done
    BY <1>0, <2>1 DEF PublishAt, Net
  <2> QED
    BY <2>4, <2>5, <2>6 DEF DoneInv, SyncedInv, InSession
<1>9. CASE OfferAgain
  <2>1. g[Host].active /\ g[Host].frame \in FrameNo \cup {0}
    BY <1>0, <1>9 DEF OfferAgain, Connected, Net
  <2>2. \A e \in net' : e \in net \/ e.kind # "done"
    BY <1>0, <1>9, <2>1, Says DEF OfferAgain
  <2> QED
    BY <1>9, <1>K, <2>2 DEF OfferAgain, InSession, hostVars
<1>10. CASE OfferAccepted
  <2> DEFINE n == Restarted(g[Host], g[Host].frame)
  <2>1. /\ g' = [g EXCEPT ![Host] = n]
        /\ offering /\ g[Host].active /\ g[Host].connected /\ g[Host].done
        /\ UNCHANGED <<sync, ses, adopted, net, published, before>>
    BY <1>10 DEF OfferAccepted, Connected, hostVars
  <2>2. n.active = g[Host].active /\ n.connected = g[Host].connected /\ n.base = g[Host].frame
    BY <1>0 DEF Restarted, Net
  <2> HIDE DEF n
  <2>4. g'[Host] = n /\ g'[Joiner] = g[Joiner]
    BY <1>0, <2>1
  <2>5. ASSUME sync PROVE SyncedInv'
    <3>1. SyncedInv
      BY <2>5 DEF DoneInv
    <3>2. Shared /\ Shared'
      BY <2>1, <3>1 DEF SyncedInv, Shared
    <3>3. g[Host].frame = published[ses[Host]]
      BY <2>1, <2>5 DEF ZeroInv, OfferInv
    <3> QED
      BY <2>1, <2>2, <2>4, <3>1, <3>2, <3>3 DEF SyncedInv, InSession
  <2> QED
    BY <2>1, <2>4, <2>5 DEF DoneInv
<1>11. CASE OfferFails
  <2>1. CASE g[Host].active
    <3>1. /\ g' = [g EXCEPT ![Host] = Blank] /\ net' = WithMessage(Host, "bye", 0)
          /\ UNCHANGED <<sync, ses, adopted, published, before>>
      BY <1>11, <2>1 DEF OfferFails, Disconnect, hostVars
    <3>2. \A e \in net' : e \in net \/ e.kind # "done"
      BY <1>0, <2>1, <3>1, Says
    <3> QED
      BY <1>0, <1>K, <3>1, <3>2 DEF InSession
  <2>2. CASE ~g[Host].active
    BY <1>11, <1>K, <2>2 DEF OfferFails, InSession, hostVars
  <2> QED
    BY <2>1, <2>2
<1>12. CASE Fetch
  BY <1>12, <1>K DEF Fetch, InSession, hostVars
<1>13. CASE Adopt
  <2> DEFINE n == Restarted(g[Joiner], g[Joiner].frame)
  <2>1. /\ g' = [g EXCEPT ![Joiner] = n] /\ adopted' = blob.of
        /\ g[Joiner].active /\ g[Joiner].connected /\ g[Joiner].offered
        /\ blob.frame = g[Joiner].frame /\ sync
        /\ UNCHANGED <<sync, ses, published, before>>
    BY <1>13 DEF Adopt, Offered, Pending, hostVars
  <2>2. g[Joiner].frame \in FrameNo
    BY <1>0, <2>1 DEF Net
  <2>3. n.active = g[Joiner].active /\ n.connected = g[Joiner].connected /\ n.base = g[Joiner].frame
    BY <1>0 DEF Restarted, Net
  (* What was fetched was published at the frame that is offered: in this  *)
  (* session, or by a process before this.                                 *)
  <2>4. g[Host].active => g[Joiner].frame = published[ses[Host]] /\ Shared'
    <3>1. blob.of \in Session /\ published[blob.of] = g[Joiner].frame
      BY <2>1, <2>2 DEF OfferInv
    <3>2. g[Joiner].frame # 0
      BY <1>0, <2>2
    <3>3. g[Host].active => g[Joiner].frame = published[ses[Host]]
      BY <2>1, <3>2 DEF OfferInv
    <3>4. ~(blob.of > ses[Host])
      BY <3>1, <3>2 DEF PubInv
    <3>5. g[Host].active => ~(before < blob.of /\ blob.of < ses[Host])
      <4> SUFFICES ASSUME g[Host].active, before < blob.of, blob.of < ses[Host] PROVE FALSE
        OBVIOUS
      <4>1. published[blob.of] < published[ses[Host]]
        BY <1>0, <3>1, <3>2, <3>3 DEF PubInv
      <4> QED
        BY <3>1, <3>3, <4>1, <2>2 DEF FrameNo
    <3>6. g[Host].active => blob.of = ses[Host] \/ blob.of <= before
      BY <1>0, <3>1, <3>4, <3>5 DEF Session
    <3> QED
      BY <2>1, <3>1, <3>2, <3>3, <3>6 DEF Shared
  <2>5. \A e \in net' : e \in net \/ e.frame = g[Joiner].frame
    BY <1>0, <1>13, <2>1, <2>2, Says DEF Adopt
  <2> HIDE DEF n
  <2>6. g'[Joiner] = n /\ g'[Host] = g[Host]
    BY <1>0, <2>1
  <2>7. g[Host].active \/ (~g[Host].done /\ ~InSession(Host))
    BY <1>0 DEF InSession
  <2>8. SyncedInv
    BY <2>1 DEF DoneInv
  <2>9. SyncedInv'
    BY <2>1, <2>3, <2>4, <2>5, <2>6, <2>7, <2>8 DEF SyncedInv, InSession
  <2> QED
    BY <2>1, <2>3, <2>6, <2>9 DEF DoneInv
<1>14. CASE UNCHANGED vars
  BY <1>14, <1>K DEF vars, InSession, hostVars
<1> QED
  BY <1>0, <1>1, <1>2, <1>3, <1>4, <1>5, <1>6, <1>7, <1>8, <1>9, <1>10, <1>11, <1>12,
     <1>13, <1>14
  DEF Next, Step, SyncStep
-----------------------------------------------------------------------------
(* The theorems.                                                           *)

(* The invariant of two machines that forget a session before the next.    *)
THEOREM SessionInvariant == ~Early /\ Spec => []NetInv
<1> SUFFICES ASSUME ~Early PROVE Spec => []NetInv
  OBVIOUS
<1>1. Init => NetInv
  BY NetInvInit
<1>2. NetInv /\ [Next]_vars => NetInv'
  BY TypeStep, WireStep, ResidueStep, MatchStep, PubStep, OfferStep, ZeroStep DEF NetInv
<1> QED
  BY <1>1, <1>2, PTL DEF Spec

(* The types of the session's state hold (struct Net g and the datagrams). *)
THEOREM SessionTypes == ~Early /\ Spec => []TypeOK
<1>1. NetInv => TypeOK
  BY DEF NetInv
<1> QED
  BY <1>1, SessionInvariant, PTL

(* ps2NetDisconnect leaves nothing behind: what a session numbers, sends   *)
(* and holds begins with it.                                               *)
THEOREM NothingIsInherited == ~Early /\ Spec => []NoResidue
<1>1. NetInv => NoResidue
  BY DEF NetInv
<1> QED
  BY <1>1, SessionInvariant, PTL

(* The inputs that two machines hold of each other are of the sessions     *)
(* that they are in.                                                       *)
THEOREM SessionsMatch == ~Early /\ Spec => []OneMatch
<1>1. NetInv => OneMatch
  BY DEF NetInv
<1> QED
  BY <1>1, SessionInvariant, PTL

(* A host that goes on after the state sync has a joiner that runs on the  *)
(* state of this session, or on one that a process of the host before this *)
(* published at a frame of the same number; both number from that frame.   *)
THEOREM HostIsSyncedTruly == ~Early /\ Spec => []HostSyncedTruly
<1> SUFFICES ASSUME ~Early PROVE Spec => []HostSyncedTruly
  OBVIOUS
<1>1. Init => NetInv /\ DoneInv
  BY NetInvInit
<1>2. NetInv /\ DoneInv /\ [Next]_vars => (NetInv /\ DoneInv)'
  BY TypeStep, WireStep, ResidueStep, MatchStep, PubStep, OfferStep, ZeroStep, DoneStep
  DEF NetInv
<1>3. DoneInv => HostSyncedTruly
  BY DEF DoneInv, SyncedInv, Shared, HostSyncedTruly, InSession
<1> QED
  BY <1>1, <1>2, <1>3, PTL DEF Spec
=============================================================================
