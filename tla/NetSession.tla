----------------------------- MODULE NetSession -----------------------------
(***************************************************************************)
(* Sessions of netplay: how two machines meet, agree on the frame that     *)
(* their inputs are numbered from, lose each other and meet again.  What   *)
(* they exchange once they have met is module Netplay, which starts where  *)
(* this one ends.                                                          *)
(*                                                                         *)
(* Machine 1 hosts on a fixed UDP port; machine 2 joins from a socket that *)
(* has a new port in every session.  A datagram names no session: the port *)
(* of the host is the same in all of them.  With sync the host publishes   *)
(* its state at a frame boundary, offers it until the joiner answers DONE, *)
(* and both number their inputs from that frame; without it each numbers   *)
(* from the first frame it runs connected.                                 *)
(*                                                                         *)
(* Two threads of a machine call the module: the game thread, in every     *)
(* frame, and the window's thread, which draws the Netplay page with its   *)
(* Host, Join and Disconnect buttons.  g[m] is the struct Net g of machine *)
(* m.  A call of the game thread is one step, the host's long wait for     *)
(* DONE excepted, and a button works between two of them.                  *)
(***************************************************************************)
EXTENDS Integers

CONSTANTS
    MaxSession,    \* bound on the sessions that each machine starts
    MaxFaults,     \* bound on the datagrams that are lost or delivered again
    MaxCrashes,    \* bound on the crashes
    MaxFrame,      \* bound on the frames that the host publishes at
    SyncModes,     \* the settings of state sync, which both machines share
    Early          \* a session may start before the last one is forgotten

Session == 1 .. MaxSession
FrameNo == 1 .. MaxFrame

(* 0xFFFFFFFF, no frame. *)
Never == MaxFrame + 1

ASSUME NetSessionAssumption ==
    /\ MaxSession \in Nat
    /\ MaxFaults \in Nat
    /\ MaxCrashes \in Nat
    /\ MaxFrame \in Nat /\ MaxFrame >= MaxSession
    /\ SyncModes \subseteq BOOLEAN
    /\ Early \in BOOLEAN

Host == 1
Joiner == 2
Machine == {Host, Joiner}
Other(m) == 3 - m

VARIABLES
    g,         \* see above
    sync,      \* g.syncOn
    offering,  \* the host is in its wait for DONE (ps2NetSyncWaitDone)
    blob,      \* the state that the joiner has fetched (s_blob, s_blobFrame)
    ses,       \* how many sessions each machine has started
    published, \* the frame that each session of the host was published at
    before,    \* how many of the host's sessions were of processes before this
    adopted,   \* the session whose state the joiner runs on
    net,       \* the datagrams in flight
    faults,    \* how many have been lost or delivered again
    crashes

(* What was published, and by which process. *)
hostVars == <<published, before>>

vars == <<g, sync, offering, blob, ses, hostVars, adopted, net, faults, crashes>>

(* Addresses: the port of the host, and a socket per session of the joiner. *)
NoPeer == 0
Port == MaxSession + 1
Address == 1 .. Port

Kind == {"hello", "inputs", "offer", "done", "bye"}
Datagram == [to : Address, from : Session, kind : Kind, frame : FrameNo \cup {0}]

(* No frame base yet; the base is a frame, or the session that set it.     *)
NoBase == 0
NoBlob == [frame |-> Never, of |-> 0]

Net == [active : BOOLEAN, peer : Address \cup {NoPeer}, connected : BOOLEAN,
        synced : BOOLEAN, base : FrameNo \cup {NoBase},
        local : SUBSET Session, remote : SUBSET Session,
        frame : FrameNo \cup {0}, offered : BOOLEAN, done : BOOLEAN]

(* What a process starts with. *)
Blank == [active |-> FALSE, peer |-> NoPeer, connected |-> FALSE,
          synced |-> TRUE, base |-> NoBase,
          local |-> {}, remote |-> {},
          frame |-> 0, offered |-> FALSE, done |-> FALSE]

TypeOK ==
    /\ g \in [Machine -> Net]
    /\ sync \in BOOLEAN
    /\ offering \in BOOLEAN
    /\ blob \in [frame : FrameNo \cup {Never}, of : 0 .. MaxSession]
    /\ ses \in [Machine -> 0 .. MaxSession]
    /\ published \in [Session -> FrameNo \cup {0}]
    /\ before \in 0 .. MaxSession
    /\ adopted \in 0 .. MaxSession
    /\ net \subseteq Datagram
    /\ faults \in 0 .. MaxFaults
    /\ crashes \in 0 .. MaxCrashes

Init ==
    /\ g = [m \in Machine |-> Blank]
    /\ sync \in SyncModes
    /\ offering = FALSE
    /\ blob = NoBlob
    /\ ses = [m \in Machine |-> 0]
    /\ published = [s \in Session |-> 0] /\ before = 0
    /\ adopted = 0
    /\ net = {} /\ faults = 0 /\ crashes = 0

(* The game thread runs frames. *)
AtRest(m) == ~(m = Host /\ offering)

(* sendto; nothing is sent to a peer that is not known. *)
WithMessage(m, k, f) ==
    IF g[m].peer = NoPeer THEN net
    ELSE net \cup {[to |-> g[m].peer, from |-> ses[m], kind |-> k, frame |-> f]}
-----------------------------------------------------------------------------
(* The session starts and ends.                                            *)

(* Nobody remembers the last session of m: the other has left it, and      *)
(* nothing that either sent in it is on its way.                           *)
Forgotten(m) ==
    /\ ~g[Other(m)].connected
    /\ \A d \in net :
        /\ d.to = Port
        /\ m = Host
        /\ g[Joiner].active /\ d.from = ses[Joiner]

(* netStart, from a button. *)
Start(m) ==
    /\ Early \/ Forgotten(m)
    /\ ~g[m].active
    /\ ses[m] < MaxSession
    /\ ses' = [ses EXCEPT ![m] = @ + 1]
    /\ g' = [g EXCEPT ![m].active = TRUE,
                      ![m].peer = IF m = Joiner THEN Port ELSE @,
                      ![m].synced = ~sync]
    /\ UNCHANGED <<sync, offering, blob, hostVars, adopted, net, faults, crashes>>

(* Bug: the frame base outlives the session. *)
DisconnectKeepingBase(m) ==
    /\ g' = [g EXCEPT ![m] = [Blank EXCEPT !.base = g[m].base]]
    /\ net' = WithMessage(m, "bye", 0)

(* Bug: the inputs of the peer outlive the session. *)
DisconnectKeepingInputs(m) ==
    /\ g' = [g EXCEPT ![m] = [Blank EXCEPT !.remote = g[m].remote]]
    /\ net' = WithMessage(m, "bye", 0)

(* ps2NetDisconnect, called in a session. *)
Disconnect(m) ==
    /\ g' = [g EXCEPT ![m] = Blank]
    /\ net' = WithMessage(m, "bye", 0)

(* The Disconnect button. *)
Leave(m) ==
    /\ g[m].active
    /\ Disconnect(m)
    /\ UNCHANGED <<sync, offering, blob, ses, hostVars, adopted, faults, crashes>>

(* netFlushCheck: the game is back in the main menu after a match. *)
BackToMenu(m) ==
    /\ AtRest(m) /\ g[m].active
    /\ Disconnect(m)
    /\ UNCHANGED <<sync, offering, blob, ses, hostVars, adopted, faults, crashes>>

(* The socket of m, while it has one. *)
Reaches(d, m) ==
    /\ g[m].active
    /\ d.to = IF m = Host THEN Port ELSE ses[Joiner]

(* The game thread of the other machine sends to m in every frame.         *)
Hears(m) ==
    LET o == Other(m)
    IN /\ g[o].active
       /\ g[o].peer = IF m = Host THEN Port ELSE ses[Joiner]

(* Nothing arrives. *)
Silent(m) == ~Hears(m) /\ ~\E d \in net : Reaches(d, m)

(* Bug: the state sync is not watched. *)
WatchdogInSession(m) ==
    /\ AtRest(m)
    /\ g[m].active /\ g[m].connected /\ g[m].synced
    /\ Silent(m)
    /\ Disconnect(m)
    /\ UNCHANGED <<sync, offering, blob, ses, hostVars, adopted, faults, crashes>>

(* ps2NetFrame's watchdog: five seconds of silence. *)
Watchdog(m) ==
    /\ AtRest(m)
    /\ g[m].active /\ g[m].connected
    /\ Silent(m)
    /\ Disconnect(m)
    /\ UNCHANGED <<sync, offering, blob, ses, hostVars, adopted, faults, crashes>>

(* The process of m ends without a word and is started again. *)
Crash(m) ==
    /\ crashes < MaxCrashes
    /\ crashes' = crashes + 1
    /\ g' = [g EXCEPT ![m] = Blank]
    /\ offering' = (m = Joiner /\ offering)
    /\ blob' = IF m = Joiner THEN NoBlob ELSE blob
    /\ before' = IF m = Host THEN ses[Host] ELSE before
    /\ UNCHANGED <<sync, ses, published, adopted, net, faults>>
-----------------------------------------------------------------------------
(* The pads of a frame.                                                    *)

InSession(m) == g[m].active /\ g[m].connected /\ g[m].synced

(* Bug: "Gating sends on g.connected". *)
HelloWhenConnected(m) ==
    /\ AtRest(m)
    /\ g[m].active /\ g[m].connected /\ ~InSession(m)
    /\ net' = WithMessage(m, "hello", 0)
    /\ UNCHANGED <<g, sync, offering, blob, ses, hostVars, adopted, faults, crashes>>

(* ps2NetSubmitLocal before the session has a peer and a common state. *)
Hello(m) ==
    /\ AtRest(m)
    /\ g[m].active /\ ~InSession(m)
    /\ net' = WithMessage(m, "hello", 0)
    /\ UNCHANGED <<g, sync, offering, blob, ses, hostVars, adopted, faults, crashes>>

(* relFrame: the first frame that is asked for is the base.  The input of  *)
(* the frame goes into the table.                                          *)
Numbered(n, s) ==
    [n EXCEPT !.base = IF @ = NoBase THEN s ELSE @, !.local = @ \cup {s}]

(* ps2NetSubmitLocal in a session. *)
Submit(m) ==
    /\ AtRest(m)
    /\ InSession(m)
    /\ g' = [g EXCEPT ![m] = Numbered(@, ses[m])]
    /\ net' = WithMessage(m, "inputs", 0)
    /\ UNCHANGED <<sync, offering, blob, ses, hostVars, adopted, faults, crashes>>

-----------------------------------------------------------------------------
(* The network, and pump.                                                  *)

(* Lost, or sent to a socket that is closed. *)
Lose(d) ==
    /\ d \in net
    /\ IF \E m \in Machine : Reaches(d, m)
       THEN faults < MaxFaults /\ faults' = faults + 1
       ELSE UNCHANGED faults
    /\ net' = net \ {d}
    /\ UNCHANGED <<g, sync, offering, blob, ses, hostVars, adopted, crashes>>

(* The first datagram of a session tells the host who the peer is, and     *)
(* both that there is one.                                                 *)
Met(n, d) ==
    LET known == [n EXCEPT !.peer = IF @ = NoPeer THEN d.from ELSE @,
                           !.connected = TRUE]
    IN IF sync /\ ~n.connected
       THEN [known EXCEPT !.synced = FALSE, !.offered = FALSE, !.done = FALSE]
       ELSE known

(* Bug: an offer that comes again is not answered. *)
AnswersNever(m, n, d) == FALSE

(* Bug: the offer is answered, not its adoption. *)
AnswersAtOnce(m, n, d) == m = Joiner /\ d.kind = "offer"

(* "an offer for a frame we already adopted means our DONE was lost:       *)
(* answer again".                                                          *)
Answers(m, n, d) == m = Joiner /\ d.kind = "offer" /\ n.synced /\ n.base = d.frame

(* The offer of the host. *)
TakeOffer(m, n, d) ==
    IF m = Joiner /\ d.kind = "offer" THEN [n EXCEPT !.frame = d.frame, !.offered = TRUE] ELSE n

(* The answer of the joiner. *)
TakeDone(m, n, d) ==
    IF m = Host /\ d.kind = "done" /\ d.frame = n.frame THEN [n EXCEPT !.done = TRUE] ELSE n

(* applyInputs. *)
TakeInputs(n, d) ==
    IF d.kind = "inputs" THEN [n EXCEPT !.remote = @ \cup {d.from}] ELSE n

(* What pump makes of g[m] with a datagram; a goodbye ends the session.    *)
Pumped(m, n, d) ==
    IF d.kind = "bye" THEN Blank
    ELSE TakeInputs(TakeDone(m, TakeOffer(m, Met(n, d), d), d), d)

(* The datagram leaves the network, which may have another copy. *)
TakenFrom(sent, d) ==
    \/ net' = sent \ {d} /\ UNCHANGED faults
    \/ faults < MaxFaults /\ faults' = faults + 1 /\ net' = sent

Receive(m, d) ==
    /\ d \in net
    /\ Reaches(d, m)
    /\ g' = [g EXCEPT ![m] = Pumped(m, @, d)]
    /\ TakenFrom(IF Answers(m, Met(g[m], d), d) THEN WithMessage(m, "done", d.frame) ELSE net, d)
    /\ UNCHANGED <<sync, offering, blob, ses, hostVars, adopted, crashes>>

-----------------------------------------------------------------------------
(* State sync, at the frame boundary (syncStep).                           *)

(* ps2NetSyncPending. *)
Pending(m) == g[m].active /\ g[m].connected /\ sync /\ ~g[m].synced

(* syncResetTables. *)
Restarted(n, f) ==
    [n EXCEPT !.local = {}, !.remote = {}, !.base = f, !.synced = TRUE]

(* The frame counter of a process goes on from session to session, and     *)
(* starts again with the process.  MaxFrame leaves a frame for each session *)
(* to come.                                                                *)
Ahead(f) ==
    /\ \A s \in (before + 1) .. ses[Host] : published[s] < f
    /\ f + (MaxSession - ses[Host]) <= MaxFrame

(* ps2NetSyncOffer at a clean boundary. *)
Publish ==
    \E f \in FrameNo :
        /\ AtRest(Host)
        /\ Pending(Host)
        /\ Ahead(f)
        /\ g' = [g EXCEPT ![Host].frame = f, ![Host].done = FALSE]
        /\ net' = WithMessage(Host, "offer", f)
        /\ offering' = TRUE
        /\ published' = [published EXCEPT ![ses[Host]] = f]
        /\ UNCHANGED <<sync, blob, ses, before, adopted, faults, crashes>>

(* ps2NetSyncWaitDone goes on. *)
Connected(m) == g[m].active /\ g[m].connected

OfferAgain ==
    /\ offering /\ Connected(Host) /\ ~g[Host].done
    /\ net' = WithMessage(Host, "offer", g[Host].frame)
    /\ UNCHANGED <<g, sync, offering, blob, ses, hostVars, adopted, faults, crashes>>

(* The joiner has adopted the state. *)
OfferAccepted ==
    /\ offering /\ Connected(Host) /\ g[Host].done
    /\ g' = [g EXCEPT ![Host] = Restarted(@, @.frame)]
    /\ offering' = FALSE
    /\ UNCHANGED <<sync, blob, ses, hostVars, adopted, net, faults, crashes>>

(* The session has ended in the meantime, or 180 seconds have passed: what *)
(* is still, or again, active is disconnected.                             *)
OfferFails ==
    /\ offering
    /\ ~(Connected(Host) /\ g[Host].done)
    /\ IF g[Host].active THEN Disconnect(Host) ELSE UNCHANGED <<g, net>>
    /\ offering' = FALSE
    /\ UNCHANGED <<sync, blob, ses, hostVars, adopted, faults, crashes>>

(* The joiner has an offer to follow. *)
Offered == AtRest(Joiner) /\ Pending(Joiner) /\ g[Joiner].offered

(* A host that waits for DONE listens, unless its session has ended.       *)
Listening == offering /\ g[Host].frame # 0

(* ps2NetSyncFetch, unless the state of that frame is there already.       *)
Fetch ==
    /\ Offered
    /\ blob.frame # g[Joiner].frame
    /\ Listening
    /\ blob' = [frame |-> g[Joiner].frame, of |-> ses[Host]]
    /\ UNCHANGED <<g, sync, offering, ses, hostVars, adopted, net, faults, crashes>>

(* Five fetches have failed, or the state cannot be adopted. *)
SyncFails ==
    /\ Offered
    /\ Disconnect(Joiner)
    /\ UNCHANGED <<sync, offering, blob, ses, hostVars, adopted, faults, crashes>>

(* syncApply at a comparable boundary, and ps2NetSyncApplied. *)
Adopt ==
    /\ Offered
    /\ blob.frame = g[Joiner].frame
    /\ g' = [g EXCEPT ![Joiner] = Restarted(@, @.frame)]
    /\ adopted' = blob.of
    /\ blob' = NoBlob
    /\ net' = WithMessage(Joiner, "done", g[Joiner].frame)
    /\ UNCHANGED <<sync, offering, ses, hostVars, faults, crashes>>
-----------------------------------------------------------------------------
Step(m) ==
    \/ Start(m) \/ Leave(m) \/ Crash(m)
    \/ BackToMenu(m) \/ Watchdog(m)
    \/ Hello(m) \/ Submit(m)
    \/ \E d \in net : Receive(m, d)

SyncStep ==
    \/ Publish \/ OfferAgain \/ OfferAccepted \/ OfferFails
    \/ Fetch \/ SyncFails \/ Adopt

Next ==
    \/ \E m \in Machine : Step(m)
    \/ \E d \in net : Lose(d)
    \/ SyncStep

Spec == Init /\ [][Next]_vars

(* The game thread runs frame after frame and does everything that a frame *)
(* does; a socket is drained of what is in it.  180 seconds in which       *)
(* nothing arrives end the host's wait, five fetches from a host that does *)
(* not listen the joiner's session; nobody has to press a button.          *)
Fairness ==
    /\ \A m \in Machine :
        /\ WF_vars(Hello(m)) /\ WF_vars(Submit(m)) /\ WF_vars(Watchdog(m))
        /\ \A k \in Kind : WF_vars(\E d \in net : d.kind = k /\ Receive(m, d))
    /\ WF_vars(Publish) /\ WF_vars(OfferAgain) /\ WF_vars(OfferAccepted)
    /\ WF_vars(Fetch) /\ WF_vars(Adopt)
    /\ WF_vars(Silent(Host) /\ OfferFails)
    /\ WF_vars(blob.frame # g[Joiner].frame /\ ~Listening /\ SyncFails)
    /\ WF_vars(\E d \in net : Lose(d) /\ UNCHANGED faults)

FairSpec == Spec /\ Fairness
-----------------------------------------------------------------------------
(* Properties.                                                             *)

(* "every one of these was a way for the next session to inherit the last  *)
(* one": after a teardown nothing is left, a session that has not met its  *)
(* peer has numbered and received nothing, and the inputs that it sends    *)
(* are its own.                                                            *)
NoResidue ==
    \A m \in Machine :
        /\ g[m].active \/ g[m] = Blank
        /\ g[m].connected \/ (g[m].base = NoBase /\ g[m].local = {} /\ g[m].remote = {})
        /\ g[m].local \subseteq {ses[m]}

(* "so a stale entry at relative frame 12 is not a stale entry at 12, it   *)
(* is a live wrong answer for the new session's frame 12": the inputs that *)
(* a machine holds of the other are of the session the other is in.        *)
OneMatch ==
    g[Host].active /\ g[Joiner].active =>
        \A m \in Machine : g[m].remote \subseteq {ses[Other(m)]}

(* "joiner adopted frame %llu": when the host goes on, the joiner runs on  *)
(* the state that was published at this frame, and both number from it     *)
(* while they are both in the session.  It is the state of this session,   *)
(* or one that a process of the host before this published at a frame of   *)
(* the same number and the joiner, which asks for no more than the number  *)
(* (s_blobFrame), had fetched.                                             *)
HostSyncedTruly ==
    sync /\ InSession(Host) =>
        /\ adopted \in Session /\ published[adopted] = g[Host].base
        /\ adopted = ses[Host] \/ adopted <= before
        /\ InSession(Joiner) /\ ses[Joiner] = g[Host].peer => g[Joiner].base = g[Host].base

(* Both machines have pressed their buttons: they meet ("deadlocked both   *)
(* sides at tx 0, waiting for each other forever").                        *)
BothUp == g[Host].active /\ g[Joiner].active

HandshakeCompletes ==
    BothUp ~> \/ g[Host].connected /\ g[Joiner].connected
              \/ ~BothUp

(* Two machines in one session do not wait for the state for ever, even if *)
(* the answer is lost.                                                     *)
Together == BothUp /\ g[Host].peer = ses[Joiner]

SyncCompletes ==
    Together /\ Pending(Host) ~> (Together => InSession(Host) /\ InSession(Joiner))

(* "a peer that vanishes (crash, closed window, cable out) would otherwise *)
(* make every frame burn the full stall timeout forever.  Drop the session *)
(* instead."                                                               *)
Vanished(m) ==
    /\ Connected(m)
    /\ ~(g[Other(m)].active /\ (m = Host => g[Host].peer = ses[Joiner]))

VanishedPeerDropped == \A m \in Machine : Vanished(m) ~> ~Vanished(m)
=============================================================================
